------------------------- MODULE VoiceSegmentsProofs -------------------------
(***************************************************************************)
(* Proofs about VoiceSegments, for any number of turns and sentences, with *)
(* barge-ins, expiry and a stream that fails: segments are flagged rightly *)
(* on the wire, queued in the order of one turn and heard in order.        *)
(***************************************************************************)
EXTENDS VoiceSegments, SequenceTheorems, TLAPS

\* The messages that have reached the server.
Reached == asked - Len(inbox)

\* Turns come to the server one by one and in order; what it has sent belongs to
\* earlier ones until the first segment of this turn.
TurnsInOrder ==
    /\ \A i \in 1 .. Len(inbox) : inbox[i] = Reached + i
    /\ turn \in {0, Reached} /\ Reached >= 0
    /\ Sent.turn <= Reached
    /\ turn # 0 /\ seen <= 1 => Sent.turn < turn

\* The end of what the client has queued.
LastQueued == IF queue = <<>> THEN current ELSE queue[Len(queue)]

\* A turn is played up to what was received, or has been received to its end; it
\* is waited for only in its middle.
PlayedAsReceived ==
    /\ active <= received.turn
    /\ current # None => LastQueued = received \/ (LastQueued.final /\ active < received.turn)
    /\ current = None /\ active # 0 => active = received.turn /\ ~received.final

\* Before the first barge-in everything under way is of the last message.
OneMessage ==
    ~barged =>
        /\ turn \in {0, asked} /\ active \in {0, asked}
        /\ \A i \in 1 .. Len(inbox) : inbox[i] = asked
        /\ \A i \in 1 .. Len(wire) : wire[i].turn = asked

\* The order of turns and sentences.
UpTo(a, b) == a.turn < b.turn \/ (a.turn = b.turn /\ a.seq <= b.seq)

\* What was heard and what is queued was received.
HeardWasReceived ==
    /\ UpTo(heard, received)
    /\ current # None => heard = current
    /\ \A i \in 1 .. Len(queue) : UpTo(queue[i], received)

SegmentsIInv ==
    /\ SegmentsInv
    /\ TurnsInOrder
    /\ PlayedAsReceived
    /\ OneMessage
    /\ HeardWasReceived

-----------------------------------------------------------------------------
\* A segment is not None, which has no turn.
LEMMA SegmentFields ==
    /\ \A s \in Segment : /\ s.turn \in Nat \ {0} /\ s.turn \in Turn /\ s.seq \in Nat /\ s.seq \in Seq0
                          /\ s.final \in BOOLEAN /\ s # None
    /\ None.turn = 0 /\ None.seq = 0 /\ None.final = FALSE
BY VoiceAssumption DEF Segment, Turn, Seq0, None

LEMMA NoneOrSegment ==
    \A s \in Segment \cup {None} :
        s.turn \in Nat /\ s.seq \in Nat /\ s.final \in BOOLEAN /\ (s.turn = 0 <=> s = None)
<1>1. TAKE s \in Segment \cup {None}
<1>2. CASE s \in Segment
  BY <1>2, SegmentFields
<1>3. CASE s = None
  BY <1>3 DEF None
<1> QED
  BY <1>2, <1>3

\* What Append, Head and Tail do to a sequence, place by place.
LEMMA Appending ==
    ASSUME NEW S, NEW s \in Seq(S), NEW e \in S
    PROVE  /\ Append(s, e) \in Seq(S) /\ Append(s, e) # <<>>
           /\ Len(Append(s, e)) = Len(s) + 1 /\ Len(s) \in Nat
           /\ \A i \in 1 .. Len(s) : Append(s, e)[i] = s[i]
           /\ Append(s, e)[Len(s) + 1] = e
<1>1. Len(s) \in Nat
  OBVIOUS
<1>2. Append(s, e) \in Seq(S) /\ Append(s, e) # <<>> /\ Len(Append(s, e)) = Len(s) + 1
  BY AppendProperties
<1>3. \A i \in 1 .. Len(s) : Append(s, e)[i] = s[i]
  BY AppendProperties
<1>4. Append(s, e)[Len(s) + 1] = e
  BY AppendProperties
<1> QED
  BY <1>1, <1>2, <1>3, <1>4

LEMMA Taking ==
    ASSUME NEW S, NEW s \in Seq(S), s # <<>>
    PROVE  /\ Head(s) \in S /\ Head(s) = s[1]
           /\ Tail(s) \in Seq(S) /\ Len(s) \in Nat \ {0} /\ Len(Tail(s)) = Len(s) - 1
           /\ \A i \in 1 .. Len(s) - 1 : Tail(s)[i] = s[i + 1]
           /\ Tail(s) = <<>> <=> Len(s) = 1
<1>1. Head(s) \in S /\ Tail(s) \in Seq(S) /\ Len(Tail(s)) = Len(s) - 1 /\ Len(s) \in Nat \ {0}
  BY HeadTailProperties, EmptySeq
<1>2. \A i \in 1 .. Len(s) - 1 : Tail(s)[i] = s[i + 1]
  BY HeadTailProperties, <1>1
<1>3. Head(s) = s[1]
  BY <1>1
<1>4. Tail(s) = <<>> <=> Len(Tail(s)) = 0
  BY <1>1, EmptySeq
<1> QED
  BY <1>1, <1>2, <1>3, <1>4

-----------------------------------------------------------------------------
\* The server emits: the segment continues what was sent, because the sentence
\* before it is the last that was sent, or it is the first of a later turn.
LEMMA Emitting ==
    ASSUME SegmentsIInv, open, turn # 0, seen # 0,
           NEW final \in BOOLEAN, Emit(seen - 1, final), received' = received
    PROVE  /\ wire' \in Seq(Segment) /\ store' \subseteq Turn \X Seq0
           /\ Sent' = [turn |-> turn, seq |-> seen - 1, final |-> final]
           /\ InSequence(received, wire)'
           /\ \A k \in 1 .. Len(wire') :
                 wire'[k].turn = turn \/ (k \in 1 .. Len(wire) /\ wire'[k] = wire[k])
<1> DEFINE s == [turn |-> turn, seq |-> seen - 1, final |-> final]
<1>1. /\ wire \in Seq(Segment) /\ received \in Segment \cup {None} /\ Sent \in Segment \cup {None}
      /\ turn \in Turn /\ seen \in 1 .. MaxSentences /\ store \subseteq Turn \X Seq0
      /\ MaxSentences \in Nat /\ MaxTurns \in Nat
  <2>1. wire \in Seq(Segment) /\ received \in Segment \cup {None} /\ turn \in 0 .. MaxTurns
        /\ seen \in 0 .. MaxSentences /\ store \subseteq Turn \X Seq0
    BY DEF SegmentsIInv, SegmentsInv, TypeOK
  <2>2. wire # <<>> => wire[Len(wire)] \in Segment
    BY <2>1, EmptySeq, LenProperties
  <2> QED
    BY <2>1, <2>2, VoiceAssumption DEF Sent, Turn
<1>2. s \in Segment /\ s.turn = turn /\ s.seq = seen - 1 /\ s.final = final /\ seen - 1 \in Seq0
  BY <1>1 DEF Segment, Seq0
<1>3. Follows(Sent, s)
  <2>1. CASE seen <= 1
    <3>1. Sent = None \/ Sent.final
      BY <2>1 DEF SegmentsIInv, SegmentsInv, HeldOneAhead
    <3>2. Sent.turn < turn
      BY <2>1 DEF SegmentsIInv, TurnsInOrder
    <3> QED
      BY <1>1, <1>2, <2>1, <3>1, <3>2 DEF Follows
  <2>2. CASE seen > 1
    <3>1. Sent = [turn |-> turn, seq |-> seen - 2, final |-> FALSE]
      BY <2>2 DEF SegmentsIInv, SegmentsInv, HeldOneAhead
    <3>2. Sent.turn = turn /\ Sent.seq = seen - 2 /\ ~Sent.final /\ Sent # None
      BY <3>1, SegmentFields
    <3> QED
      BY <1>1, <1>2, <3>2 DEF Follows
  <2> QED
    BY <1>1, <2>1, <2>2
<1>4. wire' = Append(wire, s)
  BY DEF Emit
<1>5. /\ wire' \in Seq(Segment) /\ wire' # <<>> /\ Len(wire') = Len(wire) + 1 /\ Len(wire) \in Nat
      /\ \A k \in 1 .. Len(wire) : wire'[k] = wire[k]
      /\ wire'[Len(wire) + 1] = s
  BY <1>1, <1>2, <1>4, Appending
<1>6. Sent' = s
  BY <1>5 DEF Sent
<1>7. InSequence(received, wire)'
  <2> SUFFICES ASSUME NEW k \in 1 .. Len(wire')
               PROVE  Follows(IF k = 1 THEN received ELSE wire'[k - 1], wire'[k])
    BY DEF InSequence, Follows
  <2>1. CASE k <= Len(wire)
    <3>1. Follows(IF k = 1 THEN received ELSE wire[k - 1], wire[k])
      BY <1>5, <2>1 DEF SegmentsIInv, SegmentsInv, HeldOneAhead, InSequence
    <3>2. wire'[k] = wire[k] /\ (k # 1 => wire'[k - 1] = wire[k - 1])
      BY <1>5, <2>1
    <3> QED
      BY <3>1, <3>2
  <2>2. CASE k = Len(wire) + 1
    <3>1. (IF k = 1 THEN received ELSE wire'[k - 1]) = Sent
      <4>1. CASE wire = <<>>
        BY <1>5, <2>2, <4>1, EmptySeq DEF Sent
      <4>2. CASE wire # <<>>
        <5>1. Len(wire) \in Nat \ {0}
          BY <1>1, <4>2, EmptySeq
        <5> QED
          BY <1>5, <2>2, <4>2, <5>1 DEF Sent
      <4> QED
        BY <4>1, <4>2
    <3> QED
      BY <1>3, <1>5, <2>2, <3>1
  <2> QED
    BY <1>5, <2>1, <2>2
<1>8. store' \subseteq Turn \X Seq0
  BY <1>1, <1>2 DEF Emit
<1> QED
  BY <1>2, <1>5, <1>6, <1>7, <1>8

-----------------------------------------------------------------------------
\* A reply that is over and delivered was received to its end, so the client
\* does not wait for more of it.
LEMMA Idling ==
    ASSUME TypeOK', HeldOneAhead', PlayedAsReceived'
    PROVE  IdleWhenDone'
<1> SUFFICES ASSUME open', turn' = 0, wire' = <<>>, current' = None, active' # 0 PROVE FALSE
  BY DEF IdleWhenDone
<1>1. received' = None \/ received'.final
  BY DEF HeldOneAhead, Sent
<1>2. active' = received'.turn /\ ~received'.final
  BY DEF PlayedAsReceived
<1> QED
  BY <1>1, <1>2, SegmentFields

\* What is said of the client depends on its own variables and what it received.
LEMMA ClientQuiet ==
    ASSUME SegmentsIInv, UNCHANGED <<active, queue, current, lastFinal, heard, received>>
    PROVE  OneTurnInOrder' /\ PlayedAsReceived' /\ HeardWasReceived'
<1>1. OneTurnInOrder'
  BY DEF SegmentsIInv, SegmentsInv, OneTurnInOrder, Follows
<1>2. LastQueued' = LastQueued
  BY DEF LastQueued
<1>3. PlayedAsReceived'
  BY <1>2 DEF SegmentsIInv, PlayedAsReceived
<1>4. HeardWasReceived'
  BY DEF SegmentsIInv, HeardWasReceived, UpTo
<1> QED
  BY <1>1, <1>3, <1>4

\* What is said of the wire depends on the server's variables and what the
\* client received.
LEMMA ServerQuiet ==
    ASSUME SegmentsIInv, UNCHANGED <<open, wire, turn, seen, received>>
    PROVE  HeldOneAhead' /\ Sent' = Sent
<1>1. Sent' = Sent
  BY DEF Sent
<1>2. InSequence(received, wire)'
  BY DEF SegmentsIInv, SegmentsInv, HeldOneAhead, InSequence, Follows
<1> QED
  BY <1>1, <1>2 DEF SegmentsIInv, SegmentsInv, HeldOneAhead

\* The types, for reference.
LEMMA Types ==
    ASSUME SegmentsIInv
    PROVE  /\ TypeOK /\ asked \in Nat /\ Len(inbox) \in Nat /\ Reached \in Int
           /\ wire \in Seq(Segment) /\ queue \in Seq(Segment) /\ inbox \in Seq(Turn)
           /\ received \in Segment \cup {None} /\ current \in Segment \cup {None}
           /\ heard \in Segment \cup {None} /\ Sent \in Segment \cup {None}
           /\ Len(wire) \in Nat /\ Len(queue) \in Nat
           /\ Turn \subseteq Nat \ {0} /\ MaxTurns \in Nat /\ MaxSentences \in Nat
<1>1. TypeOK
  BY DEF SegmentsIInv, SegmentsInv
<1>2. /\ wire \in Seq(Segment) /\ queue \in Seq(Segment) /\ inbox \in Seq(Turn)
      /\ received \in Segment \cup {None} /\ current \in Segment \cup {None}
      /\ heard \in Segment \cup {None} /\ asked \in Nat
  BY <1>1, VoiceAssumption DEF TypeOK
<1>3. Len(wire) \in Nat /\ Len(queue) \in Nat /\ Len(inbox) \in Nat
  BY <1>2, LenProperties
<1>4. wire # <<>> => wire[Len(wire)] \in Segment
  BY <1>2, EmptySeq, LenProperties
<1> QED
  BY <1>1, <1>2, <1>3, <1>4, VoiceAssumption DEF Sent, Reached, Turn

-----------------------------------------------------------------------------
\* The next message reaches the server: its turn is later than all that was sent.
LEMMA ReceivingMessage ==
    ASSUME SegmentsIInv, ReceiveMessage
    PROVE  SegmentsIInv'
<1>1. /\ inbox # <<>> /\ turn = 0 /\ open /\ turn' = Head(inbox) /\ inbox' = Tail(inbox) /\ seen' = 0
      /\ UNCHANGED <<asked, open, wire, store, active, queue, current, sounding, lastFinal, heard,
                     received, barged, dropped>>
  BY DEF ReceiveMessage, client, history
<1>2. /\ inbox' \in Seq(Turn) /\ turn' \in Turn /\ turn' = inbox[1] /\ Len(inbox) \in Nat \ {0}
      /\ Len(inbox') = Len(inbox) - 1
      /\ \A k \in 1 .. Len(inbox) - 1 : inbox'[k] = inbox[k + 1]
  BY <1>1, Types, Taking
<1>3. TypeOK'
  BY <1>1, <1>2, Types, VoiceAssumption DEF TypeOK, Turn
<1>4. OneTurnInOrder' /\ PlayedAsReceived' /\ HeardWasReceived'
  BY <1>1, ClientQuiet
<1>5. Reached' = Reached + 1 /\ turn' = Reached'
  BY <1>1, <1>2, Types DEF Reached, SegmentsIInv, TurnsInOrder
<1>6. Sent' = Sent /\ Sent.turn \in Nat /\ Sent.turn <= Reached
  BY <1>1, Types, NoneOrSegment DEF Sent, SegmentsIInv, TurnsInOrder
<1>7. HeldOneAhead'
  <2>1. InSequence(received, wire)'
    BY <1>1 DEF SegmentsIInv, SegmentsInv, HeldOneAhead, InSequence, Follows
  <2>2. Sent = None \/ Sent.final
    BY <1>1 DEF SegmentsIInv, SegmentsInv, HeldOneAhead
  <2> QED
    BY <1>1, <1>6, <2>1, <2>2 DEF HeldOneAhead
<1>8. TurnsInOrder'
  <2>1. \A k \in 1 .. Len(inbox') : inbox'[k] = Reached' + k
    BY <1>2, <1>5, Types DEF SegmentsIInv, TurnsInOrder
  <2> QED
    BY <1>5, <1>6, <2>1, Types DEF SegmentsIInv, TurnsInOrder
<1>9. OneMessage' /\ DropsNeedBargeIn'
  <2>1. ~barged => turn' = asked /\ \A k \in 1 .. Len(inbox') : inbox'[k] = asked
    BY <1>2 DEF SegmentsIInv, OneMessage
  <2>2. ~barged => active \in {0, asked} /\ \A k \in 1 .. Len(wire) : wire[k].turn = asked
    BY DEF SegmentsIInv, OneMessage
  <2>3. OneMessage'
    BY <1>1, <2>1, <2>2 DEF OneMessage
  <2> QED
    BY <1>1, <2>3 DEF SegmentsIInv, SegmentsInv, DropsNeedBargeIn
<1> QED
  BY <1>3, <1>4, <1>7, <1>8, <1>9, Idling DEF SegmentsIInv, SegmentsInv

\* The reply goes on or ends: hold one ahead.
LEMMA Streaming ==
    ASSUME SegmentsIInv, Sentence \/ EndOfReply
    PROVE  SegmentsIInv'
<1>1. /\ open /\ turn # 0
      /\ UNCHANGED <<asked, open, inbox, active, queue, current, sounding, lastFinal, heard,
                     received, barged, dropped>>
  BY DEF Sentence, EndOfReply, client, history
<1>2. turn \in Turn /\ seen \in 0 .. MaxSentences /\ turn = Reached /\ Reached \in Nat
  BY <1>1, Types DEF TypeOK, Turn, SegmentsIInv, TurnsInOrder
<1>3. OneTurnInOrder' /\ PlayedAsReceived' /\ HeardWasReceived'
  BY <1>1, ClientQuiet
<1>4. /\ wire' \in Seq(Segment) /\ store' \subseteq Turn \X Seq0
      /\ InSequence(received, wire)'
      /\ \A k \in 1 .. Len(wire') :
            wire'[k].turn = turn \/ (k \in 1 .. Len(wire) /\ wire'[k] = wire[k])
      /\ seen = 0 => Sent' = Sent
      /\ seen # 0 => Sent' = [turn |-> turn, seq |-> seen - 1, final |-> (turn' = 0)]
  <2>1. CASE seen = 0
    <3>1. wire' = wire /\ store' = store
      BY <2>1 DEF Sentence, EndOfReply
    <3>2. InSequence(received, wire)'
      BY <1>1, <3>1 DEF SegmentsIInv, SegmentsInv, HeldOneAhead, InSequence, Follows
    <3> QED
      BY <1>1, <2>1, <3>1, <3>2, Types DEF Sent, TypeOK
  <2>2. CASE seen # 0 /\ Sentence
    <3>1. Emit(seen - 1, FALSE) /\ turn' = turn
      BY <2>2 DEF Sentence
    <3>2. (turn' = 0) = FALSE
      BY <1>1, <3>1
    <3> QED
      BY <1>1, <2>2, <3>1, <3>2, Emitting
  <2>3. CASE seen # 0 /\ EndOfReply
    <3>1. Emit(seen - 1, TRUE)
      BY <2>3 DEF EndOfReply
    <3>2. (turn' = 0) = TRUE
      BY <2>3 DEF EndOfReply
    <3> QED
      BY <1>1, <2>3, <3>1, <3>2, Emitting
  <2> QED
    BY <2>1, <2>2, <2>3
<1>5. \/ turn' = turn /\ seen' = seen + 1 /\ seen < MaxSentences
      \/ turn' = 0 /\ seen' = 0
  BY <1>1 DEF Sentence, EndOfReply
<1>6. TypeOK'
  <2>1. turn' \in 0 .. MaxTurns /\ seen' \in 0 .. MaxSentences
    BY <1>2, <1>5, Types DEF Turn
  <2> QED
    BY <1>1, <1>4, <2>1, Types DEF TypeOK
<1>7. seen # 0 => Sent'.turn = turn /\ Sent'.seq = seen - 1 /\ Sent'.final = (turn' = 0)
  BY <1>4
<1>8. HeldOneAhead'
  <2>1. CASE seen = 0
    <3>1. Sent = None \/ Sent.final
      BY <1>1, <2>1 DEF SegmentsIInv, SegmentsInv, HeldOneAhead
    <3> QED
      BY <1>4, <1>5, <2>1, <3>1 DEF HeldOneAhead
  <2>2. CASE seen # 0 /\ turn' = 0
    BY <1>4, <1>5, <1>7, <2>2 DEF HeldOneAhead
  <2>3. CASE seen # 0 /\ turn' # 0
    <3>1. (turn' = 0) = FALSE /\ Sent' = [turn |-> turn, seq |-> seen - 1, final |-> (turn' = 0)]
      BY <1>4, <2>3
    <3>3. Sent' = [turn |-> turn, seq |-> seen - 1, final |-> FALSE]
      BY <3>1
    <3>2. turn' = turn /\ seen' = seen + 1 /\ seen' - 2 = seen - 1 /\ seen' > 1
      BY <1>2, <1>5, <2>3
    <3>4. Sent' = [turn |-> turn', seq |-> seen' - 2, final |-> FALSE]
      BY <3>2, <3>3
    <3>5. turn' # 0 /\ ~(seen' <= 1)
      BY <1>2, <2>3, <3>2
    <3> QED
      BY <1>4, <1>1, <3>4, <3>5 DEF HeldOneAhead
  <2> QED
    BY <2>1, <2>2, <2>3
<1>9. TurnsInOrder'
  <2>1. Reached' = Reached
    BY <1>1 DEF Reached
  <2>2. Sent'.turn <= Reached /\ (turn' # 0 /\ seen' <= 1 => Sent'.turn < turn')
    <3>1. CASE seen = 0
      BY <1>2, <1>4, <1>5, <3>1 DEF SegmentsIInv, TurnsInOrder
    <3>2. CASE seen # 0
      BY <1>2, <1>5, <1>7, <3>2
    <3> QED
      BY <3>1, <3>2
  <2>3. turn' \in {0, Reached}
    BY <1>2, <1>5
  <2> QED
    BY <1>1, <2>1, <2>2, <2>3 DEF SegmentsIInv, TurnsInOrder
<1>10. OneMessage' /\ DropsNeedBargeIn'
  <2>1. ~barged => /\ turn = asked /\ active \in {0, asked}
                   /\ \A k \in 1 .. Len(inbox) : inbox[k] = asked
                   /\ \A k \in 1 .. Len(wire) : wire[k].turn = asked
    BY <1>1 DEF SegmentsIInv, OneMessage
  <2>2. ~barged => \A k \in 1 .. Len(wire') : wire'[k].turn = asked
    BY <1>4, <2>1
  <2>3. OneMessage'
    BY <1>1, <1>5, <2>1, <2>2 DEF OneMessage
  <2> QED
    BY <1>1, <2>3 DEF SegmentsIInv, SegmentsInv, DropsNeedBargeIn
<1> QED
  BY <1>3, <1>6, <1>8, <1>9, <1>10, Idling DEF SegmentsIInv, SegmentsInv

\* What the server may do next depends on what has reached it and been sent.
LEMMA OrderQuiet ==
    ASSUME SegmentsIInv, UNCHANGED <<asked, inbox, turn, seen>>, Sent' = Sent
    PROVE  TurnsInOrder'
<1>1. Reached' = Reached
  BY DEF Reached
<1> QED
  BY <1>1 DEF SegmentsIInv, TurnsInOrder

LEMMA MessageQuiet ==
    ASSUME SegmentsIInv, UNCHANGED <<asked, inbox, wire, turn, active, barged, dropped>>
    PROVE  OneMessage' /\ DropsNeedBargeIn'
BY DEF SegmentsIInv, SegmentsInv, OneMessage, DropsNeedBargeIn

\* The stream raises, a text expires, a sound begins, or nothing happens.
LEMMA QuietStep ==
    ASSUME SegmentsIInv,
           StreamFails \/ StartSound \/ (\E id \in store : Expire(id)) \/ UNCHANGED vars
    PROVE  SegmentsIInv'
<1>1. UNCHANGED <<asked, inbox, wire, active, queue, current, lastFinal, heard, received, barged, dropped>>
  BY DEF StreamFails, StartSound, Expire, vars, server, client, history
<1>2. OneTurnInOrder' /\ PlayedAsReceived' /\ HeardWasReceived'
  BY <1>1, ClientQuiet
<1>3. TypeOK'
  <2>1. store' \subseteq store
    BY DEF StreamFails, StartSound, Expire, vars, server
  <2>4. open' = FALSE \/ open' = open
    BY DEF StreamFails, StartSound, Expire, vars
  <2>5. (turn' = 0 /\ seen' = 0) \/ (turn' = turn /\ seen' = seen)
    BY DEF StreamFails, StartSound, Expire, vars, server
  <2>6. open' \in BOOLEAN
    BY <2>4, Types DEF TypeOK
  <2>2. open' \in BOOLEAN /\ turn' \in 0 .. MaxTurns /\ seen' \in 0 .. MaxSentences
    BY <2>5, <2>6, Types DEF TypeOK
  <2>3. sounding' \in BOOLEAN
    BY Types DEF StreamFails, StartSound, Expire, vars, client, TypeOK
  <2> QED
    BY <1>1, <2>1, <2>2, <2>3, Types DEF TypeOK
<1>4. Sent' = Sent
  BY <1>1 DEF Sent
<1>5. CASE StreamFails
  <2>1. ~open' /\ turn' = 0 /\ turn \in Turn
    BY <1>5, Types DEF StreamFails, TypeOK, Turn
  <2>2. InSequence(received, wire)'
    BY <1>1 DEF SegmentsIInv, SegmentsInv, HeldOneAhead, InSequence, Follows
  <2>3. HeldOneAhead'
    BY <2>1, <2>2 DEF HeldOneAhead
  <2>4. Reached' = Reached
    BY <1>1 DEF Reached
  <2>5. TurnsInOrder'
    BY <1>1, <1>4, <2>1, <2>4 DEF SegmentsIInv, TurnsInOrder
  <2>6. OneMessage' /\ DropsNeedBargeIn'
    BY <1>1, <2>1 DEF SegmentsIInv, SegmentsInv, OneMessage, DropsNeedBargeIn
  <2> QED
    BY <1>2, <1>3, <2>3, <2>5, <2>6, Idling DEF SegmentsIInv, SegmentsInv
<1>6. CASE ~StreamFails
  <2>1. UNCHANGED <<open, turn, seen>>
    BY <1>6 DEF StartSound, Expire, vars, server
  <2> QED
    BY <1>1, <1>2, <1>3, <1>4, <2>1, ServerQuiet, OrderQuiet, MessageQuiet, Idling
       DEF SegmentsIInv, SegmentsInv
<1> QED
  BY <1>5, <1>6

-----------------------------------------------------------------------------
\* A barge-in: nothing is queued, and when it is not one nothing is under way.
LEMMA BargingIn ==
    ASSUME SegmentsIInv, Stop \/ Send
    PROVE  SegmentsIInv'
<1>1. /\ queue' = <<>> /\ current' = None /\ sounding' = FALSE /\ active' = 0 /\ lastFinal' = FALSE
      /\ barged' = (barged \/ turn # 0 \/ inbox # <<>> \/ wire # <<>>)
      /\ UNCHANGED <<open, wire, turn, seen, store, heard, received, dropped>>
  BY DEF Stop, Send, Interrupt, server
<1>2. \/ asked' = asked /\ inbox' = inbox
      \/ asked' = asked + 1 /\ inbox' = Append(inbox, asked + 1) /\ asked < MaxTurns /\ open
  BY DEF Stop, Send
<1>3. /\ asked' \in 0 .. MaxTurns /\ inbox' \in Seq(Turn) /\ Reached' = Reached
      /\ \A k \in 1 .. Len(inbox') : inbox'[k] = Reached + k
      /\ Len(inbox') \in Nat
  <2>1. CASE asked' = asked /\ inbox' = inbox
    BY <2>1, Types DEF Reached, TypeOK, SegmentsIInv, TurnsInOrder
  <2>2. CASE asked' = asked + 1 /\ inbox' = Append(inbox, asked + 1) /\ asked < MaxTurns
    <3>1. asked + 1 \in Turn
      BY <2>2, Types DEF Turn
    <3>2. /\ inbox' \in Seq(Turn) /\ Len(inbox') = Len(inbox) + 1
          /\ \A k \in 1 .. Len(inbox) : inbox'[k] = inbox[k]
          /\ inbox'[Len(inbox) + 1] = asked + 1
      BY <2>2, <3>1, Types, Appending
    <3>3. Reached' = Reached /\ asked' \in 0 .. MaxTurns
      BY <2>2, <3>2, Types DEF Reached
    <3>4. \A k \in 1 .. Len(inbox') : inbox'[k] = Reached + k
      <4>1. TAKE k \in 1 .. Len(inbox')
      <4>2. CASE k \in 1 .. Len(inbox)
        BY <3>2, <4>2 DEF SegmentsIInv, TurnsInOrder
      <4>3. CASE k = Len(inbox) + 1
        BY <3>2, <4>3, Types DEF Reached
      <4> QED
        BY <3>2, <4>2, <4>3, Types
    <3> QED
      BY <3>2, <3>3, <3>4, Types
  <2> QED
    BY <1>2, <2>1, <2>2
<1>4. TypeOK'
  <2>1. sounding' \in BOOLEAN /\ lastFinal' \in BOOLEAN
    BY <1>1
  <2>2. barged' \in BOOLEAN
    BY <1>1
  <2>3. queue' \in Seq(Segment)
    BY <1>1
  <2> QED
    BY <1>1, <1>3, <2>1, <2>2, <2>3, Types DEF TypeOK
<1>5. HeldOneAhead' /\ Sent' = Sent
  BY <1>1, ServerQuiet
<1>6. TurnsInOrder'
  BY <1>1, <1>3, <1>5 DEF SegmentsIInv, TurnsInOrder
<1>7. OneTurnInOrder'
  BY <1>1 DEF OneTurnInOrder
<1>8. PlayedAsReceived'
  BY <1>1, Types, NoneOrSegment DEF PlayedAsReceived
<1>9. HeardWasReceived'
  BY <1>1 DEF HeardWasReceived, SegmentsIInv, UpTo
<1>10. OneMessage' /\ DropsNeedBargeIn'
  <2>1. DropsNeedBargeIn'
    BY <1>1 DEF SegmentsIInv, SegmentsInv, DropsNeedBargeIn
  <2>2. ~barged' => wire = <<>> /\ turn = 0 /\ inbox = <<>>
    BY <1>1
  <2>3. ~barged' => \A k \in 1 .. Len(inbox') : inbox'[k] = asked'
    <3>1. inbox = <<>> => Len(inbox) = 0
      BY EmptySeq
    <3>2. CASE inbox = <<>>
      <4>1. asked' - Len(inbox') = Reached /\ Reached = asked
        BY <1>3, <3>1, <3>2, Types DEF Reached
      <4>2. asked' = asked + Len(inbox') /\ Len(inbox') <= 1
        BY <1>2, <1>3, <3>1, <3>2, <4>1, Types
      <4>3. Len(inbox') \in Nat /\ Len(inbox') <= 1
        BY <1>3, <4>2
      <4>4. \A k \in 1 .. Len(inbox') : k = 1 /\ Len(inbox') = 1
        <5>1. \A n \in Nat : n <= 1 => \A k \in 1 .. n : k = 1 /\ n = 1
          OBVIOUS
        <5> QED
          BY <4>3, <5>1, Zenon
      <4>5. ASSUME NEW k \in 1 .. Len(inbox') PROVE inbox'[k] = asked'
        <5>1. inbox'[k] = Reached + k
          BY <1>3
        <5>2. k = 1 /\ Len(inbox') = 1
          BY <4>4
        <5>3. Reached = asked /\ asked' = asked + 1
          BY <4>1, <4>2, <5>2
        <5> QED
          BY <5>1, <5>2, <5>3
      <4> QED
        BY <4>5
    <3> QED
      BY <2>2, <3>2
  <2>4. ~barged' => \A k \in 1 .. Len(wire') : wire'[k].turn = asked'
    BY <1>1, <2>2, EmptySeq
  <2> QED
    BY <1>1, <2>1, <2>2, <2>3, <2>4 DEF OneMessage
<1> QED
  BY <1>4, <1>5, <1>6, <1>7, <1>8, <1>9, <1>10, Idling DEF SegmentsIInv, SegmentsInv

-----------------------------------------------------------------------------
\* What is queued, place by place.
LEMMA Queued ==
    ASSUME SegmentsIInv
    PROVE  /\ LastQueued \in Segment \cup {None}
           /\ current = None => queue = <<>> /\ ~lastFinal
           /\ current # None => /\ current \in Segment /\ current.turn = active
                                /\ lastFinal = current.final
                                /\ LastQueued \in Segment /\ LastQueued.turn = active
           /\ \A k \in 1 .. Len(queue) :
                 /\ queue[k] \in Segment /\ queue[k].turn = active
                 /\ Follows(IF k = 1 THEN current ELSE queue[k - 1], queue[k])
           /\ queue # <<>> => Len(queue) \in Nat \ {0} /\ current # None
<1>1. /\ queue # <<>> => current # None
      /\ current # None => current.turn = active /\ lastFinal = current.final
      /\ current = None => ~lastFinal
      /\ \A k \in 1 .. Len(queue) :
            queue[k].turn = active /\ Follows(IF k = 1 THEN current ELSE queue[k - 1], queue[k])
  BY DEF SegmentsIInv, SegmentsInv, OneTurnInOrder
<1>2. \A k \in 1 .. Len(queue) : queue[k] \in Segment
  BY Types, LenProperties
<1>3. queue # <<>> => Len(queue) \in Nat \ {0}
  BY Types, EmptySeq
<1>4. CASE queue = <<>>
  BY <1>1, <1>2, <1>3, <1>4, Types DEF LastQueued
<1>5. CASE queue # <<>>
  <2>1. Len(queue) \in 1 .. Len(queue) /\ LastQueued = queue[Len(queue)]
    BY <1>3, <1>5 DEF LastQueued
  <2> QED
    BY <1>1, <1>2, <1>3, <1>5, <2>1, Types
<1> QED
  BY <1>4, <1>5

\* A segment that follows another is later.
LEMMA FollowsIsLater ==
    ASSUME NEW a \in Segment \cup {None}, NEW b \in Segment, Follows(a, b)
    PROVE  /\ a.turn < b.turn \/ (a.turn = b.turn /\ a.seq < b.seq)
           /\ a # None /\ ~a.final => b.turn = a.turn
           /\ a.final => a.turn < b.turn
BY SegmentFields, NoneOrSegment DEF Follows

\* A sound ends, or a fetch fails: the next segment, or the end of what came.
LEMMA MovingOn ==
    ASSUME SegmentsIInv, current # None, SegmentEnded
    PROVE  SegmentsIInv'
<1>1. /\ sounding' = FALSE
      /\ UNCHANGED <<asked, open, inbox, wire, turn, seen, store, received, barged, dropped>>
  BY DEF SegmentEnded, server, history
<1>2. HeldOneAhead' /\ Sent' = Sent
  BY <1>1, ServerQuiet
<1>3. TurnsInOrder'
  BY <1>1, <1>2, OrderQuiet
<1>4. active' \in {0, active} /\ sounding' \in BOOLEAN
  BY <1>1 DEF SegmentEnded
<1>5. OneMessage' /\ DropsNeedBargeIn'
  BY <1>1, <1>4 DEF SegmentsIInv, SegmentsInv, OneMessage, DropsNeedBargeIn
<1>6. CASE queue # <<>>
  <2>1. /\ current' = Head(queue) /\ heard' = Head(queue) /\ queue' = Tail(queue)
        /\ lastFinal' = Head(queue).final /\ active' = active
    BY <1>6 DEF SegmentEnded
  <2>2. /\ Head(queue) \in Segment /\ Head(queue) = queue[1] /\ queue' \in Seq(Segment)
        /\ Len(queue) \in Nat \ {0} /\ Len(queue') = Len(queue) - 1
        /\ \A k \in 1 .. Len(queue) - 1 : queue'[k] = queue[k + 1]
        /\ queue' = <<>> <=> Len(queue) = 1
    BY <1>6, <2>1, Types, Taking
  <2>3. current' \in Segment /\ current'.turn = active /\ lastFinal' = current'.final
    BY <2>1, <2>2, Queued
  <2>4. current' # None /\ lastFinal' \in BOOLEAN
    BY <2>3, SegmentFields
  <2>5. TypeOK'
    BY <1>1, <1>4, <2>1, <2>2, <2>3, <2>4, Types DEF TypeOK
  <2>6. ASSUME NEW k \in 1 .. Len(queue')
        PROVE  /\ queue'[k].turn = active
               /\ Follows(IF k = 1 THEN current' ELSE queue'[k - 1], queue'[k])
    <3>1. k + 1 \in 1 .. Len(queue) /\ queue'[k] = queue[k + 1]
      BY <2>2
    <3>2. queue[k + 1].turn = active /\ Follows(queue[k], queue[k + 1])
      BY <3>1, Queued
    <3>3. queue[k] = IF k = 1 THEN current' ELSE queue'[k - 1]
      BY <2>1, <2>2
    <3> QED
      BY <3>1, <3>2, <3>3
  <2>7. OneTurnInOrder'
    BY <2>1, <2>3, <2>4, <2>6 DEF OneTurnInOrder, Follows
  <2>8. LastQueued' = LastQueued
    <3>1. CASE Len(queue) = 1
      BY <1>6, <2>1, <2>2, <3>1 DEF LastQueued
    <3>2. CASE Len(queue) > 1
      <4>1. queue' # <<>> /\ queue'[Len(queue) - 1] = queue[Len(queue)]
        BY <2>2, <3>2
      <4> QED
        BY <1>6, <2>2, <4>1 DEF LastQueued
    <3> QED
      BY <2>2, <3>1, <3>2
  <2>9. PlayedAsReceived'
    BY <1>1, <2>1, <2>4, <2>8 DEF SegmentsIInv, PlayedAsReceived
  <2>10. HeardWasReceived'
    <3>1. \A k \in 1 .. Len(queue) : UpTo(queue[k], received)
      BY DEF SegmentsIInv, HeardWasReceived
    <3>4. UpTo(heard', received)
      BY <2>1, <2>2, <3>1
    <3>5. ASSUME NEW k \in 1 .. Len(queue') PROVE UpTo(queue'[k], received)
      BY <2>2, <3>1
    <3>2. UpTo(heard', received) /\ \A k \in 1 .. Len(queue') : UpTo(queue'[k], received)
      BY <3>4, <3>5
    <3> QED
      BY <1>1, <2>1, <3>2 DEF HeardWasReceived, UpTo
  <2> QED
    BY <1>2, <1>3, <1>5, <2>5, <2>7, <2>9, <2>10, Idling DEF SegmentsIInv, SegmentsInv
<1>7. CASE queue = <<>>
  <2>1. /\ current' = None /\ active' = (IF lastFinal THEN 0 ELSE active) /\ lastFinal' = FALSE
        /\ queue' = <<>> /\ heard' = heard
    BY <1>7 DEF SegmentEnded
  <2>2. TypeOK'
    <3>1. lastFinal' \in BOOLEAN
      BY <2>1
    <3>2. active' \in 0 .. MaxTurns
      BY <1>4, Types DEF TypeOK
    <3> QED
      BY <1>1, <1>4, <2>1, <3>1, <3>2, Types DEF TypeOK
  <2>3. OneTurnInOrder'
    BY <2>1 DEF OneTurnInOrder
  <2>4. PlayedAsReceived'
    <3>1. LastQueued = current /\ current.turn = active /\ lastFinal = current.final
      BY <1>7, Queued DEF LastQueued
    <3>2. active' # 0 => ~current.final
      BY <2>1, <3>1
    <3>3. current = received \/ (current.final /\ active < received.turn)
      BY <3>1 DEF SegmentsIInv, PlayedAsReceived
    <3>4. active' <= received.turn
      BY <1>4, Types, NoneOrSegment DEF SegmentsIInv, PlayedAsReceived
    <3>5. active' # 0 => active' = received.turn /\ ~received.final
      BY <2>1, <3>1, <3>2, <3>3
    <3> QED
      BY <1>1, <2>1, <3>4, <3>5 DEF PlayedAsReceived
  <2>5. HeardWasReceived'
    BY <1>1, <2>1, EmptySeq DEF SegmentsIInv, HeardWasReceived, UpTo
  <2> QED
    BY <1>2, <1>3, <1>5, <2>2, <2>3, <2>4, <2>5, Idling DEF SegmentsIInv, SegmentsInv
<1> QED
  BY <1>6, <1>7

\* A segment arrives: it is taken as the next of its turn or the first of one, or
\* it is dropped, the turn that is playing having been received to its end.
LEMMA Arriving ==
    ASSUME SegmentsIInv, ReceiveSegment
    PROVE  SegmentsIInv' /\ (heard' # heard => heard' = Head(wire) /\ current = None)
<1> DEFINE seg == Head(wire)
<1>1. /\ wire # <<>> /\ wire' = Tail(wire) /\ received' = seg
      /\ UNCHANGED <<asked, open, inbox, turn, seen, store, sounding, barged>>
  BY DEF ReceiveSegment, server
<1>2. /\ seg \in Segment /\ seg = wire[1] /\ wire' \in Seq(Segment) /\ Len(wire) \in Nat \ {0}
      /\ Len(wire') = Len(wire) - 1
      /\ \A k \in 1 .. Len(wire) - 1 : wire'[k] = wire[k + 1]
      /\ wire' = <<>> <=> Len(wire) = 1
  BY <1>1, Types, Taking
<1>3. \A k \in 1 .. Len(wire) : Follows(IF k = 1 THEN received ELSE wire[k - 1], wire[k])
  BY DEF SegmentsIInv, SegmentsInv, HeldOneAhead, InSequence
<1>4. Follows(received, seg)
  BY <1>2, <1>3
<1>5. /\ received.turn < seg.turn \/ (received.turn = seg.turn /\ received.seq < seg.seq)
      /\ received # None /\ ~received.final => seg.turn = received.turn
      /\ received.final => received.turn < seg.turn
  BY <1>2, <1>4, Types, FollowsIsLater
<1>6. Sent' = Sent
  <2>1. CASE Len(wire) = 1
    BY <1>1, <1>2, <2>1 DEF Sent
  <2>2. CASE Len(wire) > 1
    <3>1. wire' # <<>> /\ wire'[Len(wire) - 1] = wire[Len(wire)]
      BY <1>2, <2>2
    <3> QED
      BY <1>1, <1>2, <3>1 DEF Sent
  <2> QED
    BY <1>2, <2>1, <2>2
<1>7. HeldOneAhead'
  <2>1. ASSUME NEW k \in 1 .. Len(wire')
        PROVE  Follows(IF k = 1 THEN received' ELSE wire'[k - 1], wire'[k])
    <3>1. k + 1 \in 1 .. Len(wire) /\ wire'[k] = wire[k + 1]
      BY <1>2
    <3>2. Follows(wire[k], wire[k + 1])
      BY <1>3, <3>1
    <3>3. wire[k] = IF k = 1 THEN received' ELSE wire'[k - 1]
      BY <1>1, <1>2
    <3> QED
      BY <3>1, <3>2, <3>3
  <2>2. InSequence(received, wire)'
    BY <2>1 DEF InSequence, Follows
  <2> QED
    BY <1>1, <1>6, <2>2 DEF SegmentsIInv, SegmentsInv, HeldOneAhead
<1>8. TurnsInOrder'
  BY <1>1, <1>6, OrderQuiet
<1>9. seg.turn \in Nat \ {0} /\ seg.turn \in 0 .. MaxTurns /\ seg.final \in BOOLEAN /\ seg # None
  BY <1>2, SegmentFields, Types DEF Turn
<1>10. /\ active \in Nat /\ received.turn \in Nat /\ active <= received.turn
       /\ active = 0 => current = None
  BY Types, NoneOrSegment, Queued, SegmentFields DEF TypeOK, SegmentsIInv, PlayedAsReceived
<1>11. ~barged => seg.turn = asked /\ \A k \in 1 .. Len(wire') : wire'[k].turn = asked
  BY <1>2 DEF SegmentsIInv, OneMessage
<1>12. ASSUME NEW t \in {0, active, seg.turn}, active' = t, dropped' = dropped \/ barged
       PROVE  OneMessage' /\ DropsNeedBargeIn'
  BY <1>1, <1>11, <1>12 DEF SegmentsIInv, SegmentsInv, OneMessage, DropsNeedBargeIn
<1>13. \A k \in 1 .. Len(queue) : UpTo(queue[k], seg)
  <2>1. TAKE k \in 1 .. Len(queue)
  <2>2. UpTo(queue[k], received) /\ queue[k].turn \in Nat /\ queue[k].seq \in Nat
    BY Queued, SegmentFields DEF SegmentsIInv, HeardWasReceived
  <2>3. /\ received.turn \in Nat /\ received.seq \in Nat
        /\ seg.turn \in Nat /\ seg.seq \in Nat
    BY <1>2, Types, NoneOrSegment, SegmentFields
  <2>4. UpTo(received, seg)
    BY <1>5, <2>3 DEF UpTo
  <2> HIDE DEF seg
  <2> QED
    BY <2>2, <2>3, <2>4 DEF UpTo
<1>14. UpTo(heard, seg)
  <2>1. UpTo(heard, received)
    BY DEF SegmentsIInv, HeardWasReceived
  <2> QED
    BY <1>2, <1>5, <2>1, Types, NoneOrSegment, SegmentFields DEF UpTo
<1>15. CASE current = None /\ (active = 0 \/ seg.turn = active)
  <2>1. queue = <<>>
    BY <1>15, Queued
  <2>2. /\ current' = seg /\ heard' = seg /\ queue' = <<>> /\ lastFinal' = seg.final
        /\ active' = seg.turn /\ dropped' = dropped
    <3>1. Head(Append(queue, seg)) = seg /\ Tail(Append(queue, seg)) = <<>>
      BY <1>2, <2>1
    <3> QED
      BY <1>15, <2>1, <3>1 DEF ReceiveSegment, Pump
  <2>3. TypeOK'
    <3>1. queue' \in Seq(Segment) /\ active' \in 0 .. MaxTurns /\ lastFinal' \in BOOLEAN
      BY <1>9, <2>2
    <3> QED
      BY <1>1, <1>2, <2>2, <3>1, Types DEF TypeOK
  <2>4. OneTurnInOrder'
    BY <1>9, <2>2, EmptySeq DEF OneTurnInOrder
  <2>5. PlayedAsReceived'
    BY <1>1, <1>9, <2>2 DEF PlayedAsReceived, LastQueued
  <2>6. HeardWasReceived'
    BY <1>1, <1>9, <1>2, <2>2, SegmentFields, EmptySeq DEF HeardWasReceived, UpTo
  <2>7. OneMessage' /\ DropsNeedBargeIn'
    BY <1>12, <2>2 DEF SegmentsIInv, SegmentsInv, DropsNeedBargeIn
  <2> QED
    BY <1>7, <1>8, <1>15, <2>2, <2>3, <2>4, <2>5, <2>6, <2>7, Idling DEF SegmentsIInv, SegmentsInv
<1>16. CASE current # None /\ seg.turn = active
  <2>1. /\ queue' = Append(queue, seg) /\ active' = active
        /\ UNCHANGED <<current, heard, lastFinal, dropped>>
    BY <1>16 DEF ReceiveSegment, Pump
  <2>2. /\ queue' \in Seq(Segment) /\ queue' # <<>> /\ Len(queue') = Len(queue) + 1
        /\ Len(queue) \in Nat
        /\ \A k \in 1 .. Len(queue) : queue'[k] = queue[k]
        /\ queue'[Len(queue) + 1] = seg
    BY <1>2, <2>1, Types, Appending
  <2>3. TypeOK'
    BY <1>1, <1>2, <2>1, <2>2, Types DEF TypeOK
  <2>4. LastQueued = received
    BY <1>5, <1>9, <1>10, <1>16 DEF SegmentsIInv, PlayedAsReceived
  <2>5. ASSUME NEW k \in 1 .. Len(queue')
        PROVE  /\ queue'[k].turn = active
               /\ Follows(IF k = 1 THEN current ELSE queue'[k - 1], queue'[k])
    <3>1. CASE k \in 1 .. Len(queue)
      <4>1. queue'[k] = queue[k] /\ (k # 1 => queue'[k - 1] = queue[k - 1])
        BY <2>2, <3>1
      <4> QED
        BY <3>1, <4>1, Queued
    <3>2. CASE k = Len(queue) + 1
      <4>1. (IF k = 1 THEN current ELSE queue'[k - 1]) = LastQueued
        <5>1. CASE queue = <<>>
          BY <2>2, <3>2, <5>1, EmptySeq DEF LastQueued
        <5>2. CASE queue # <<>>
          BY <2>2, <3>2, <5>2, Queued DEF LastQueued
        <5> QED
          BY <5>1, <5>2
      <4> QED
        BY <1>4, <1>16, <2>2, <2>4, <3>2, <4>1
    <3> QED
      BY <2>2, <3>1, <3>2
  <2>6. OneTurnInOrder'
    BY <1>16, <2>1, <2>5, Queued DEF OneTurnInOrder, Follows
  <2>7. LastQueued' = seg
    BY <2>2 DEF LastQueued
  <2>8. PlayedAsReceived'
    BY <1>1, <1>9, <1>16, <2>1, <2>7 DEF PlayedAsReceived
  <2>9. HeardWasReceived'
    <3>1. ASSUME NEW k \in 1 .. Len(queue') PROVE UpTo(queue'[k], seg)
      <4>1. CASE k \in 1 .. Len(queue)
        BY <1>13, <2>2, <4>1
      <4>2. CASE k = Len(queue) + 1
        BY <1>2, <2>2, <4>2, SegmentFields DEF UpTo
      <4> QED
        BY <2>2, <4>1, <4>2
    <3>2. current # None => heard = current
      BY DEF SegmentsIInv, HeardWasReceived
    <3> QED
      BY <1>1, <1>14, <2>1, <3>1, <3>2 DEF HeardWasReceived, UpTo
  <2>10. OneMessage' /\ DropsNeedBargeIn'
    BY <1>12, <2>1 DEF SegmentsIInv, SegmentsInv, DropsNeedBargeIn
  <2> QED
    BY <1>7, <1>8, <2>1, <2>3, <2>6, <2>8, <2>9, <2>10, Idling DEF SegmentsIInv, SegmentsInv
<1>17. CASE active # 0 /\ seg.turn # active
  <2>1. dropped' = TRUE /\ UNCHANGED <<active, queue, current, lastFinal, heard>>
    BY <1>17 DEF ReceiveSegment
  <2>2. TypeOK'
    <3>1. dropped' \in BOOLEAN
      BY <2>1
    <3> QED
      BY <1>1, <1>2, <2>1, <3>1, Types DEF TypeOK
  <2>3. OneTurnInOrder'
    BY <2>1 DEF SegmentsIInv, SegmentsInv, OneTurnInOrder, Follows
  <2>4. current # None => LastQueued.final /\ active < seg.turn
    <3>1. SUFFICES ASSUME current # None PROVE LastQueued.final /\ active < seg.turn
      OBVIOUS
    <3>2. LastQueued = received \/ (LastQueued.final /\ active < received.turn)
      BY <3>1 DEF SegmentsIInv, PlayedAsReceived
    <3>3. LastQueued \in Segment /\ LastQueued.turn = active /\ LastQueued # None
      BY <3>1, Queued, SegmentFields
    <3> QED
      BY <1>5, <1>9, <1>10, <1>17, <3>2, <3>3
  <2>5. current # None
    <3>1. current = None => active = received.turn /\ ~received.final
      BY <1>17 DEF SegmentsIInv, PlayedAsReceived
    <3>2. active = received.turn => received # None
      BY <1>17, SegmentFields
    <3> QED
      BY <1>5, <1>17, <3>1, <3>2
  <2>6. PlayedAsReceived'
    <3>1. LastQueued' = LastQueued
      BY <2>1 DEF LastQueued
    <3> QED
      BY <1>1, <1>9, <1>10, <2>1, <2>4, <2>5, <3>1 DEF PlayedAsReceived
  <2>7. HeardWasReceived'
    BY <1>1, <1>13, <1>14, <2>1 DEF SegmentsIInv, HeardWasReceived, UpTo
  <2>8. barged
    BY <1>11, <1>17 DEF SegmentsIInv, OneMessage
  <2>9. OneMessage' /\ DropsNeedBargeIn'
    BY <1>1, <2>1, <2>8 DEF OneMessage, DropsNeedBargeIn
  <2> QED
    BY <1>7, <1>8, <2>1, <2>2, <2>3, <2>6, <2>7, <2>9, Idling DEF SegmentsIInv, SegmentsInv
<1> QED
  BY <1>10, <1>15, <1>16, <1>17

\* b comes later than a in the order of turns and sentences.
Later(a, b) == b.turn > a.turn \/ (b.turn = a.turn /\ b.seq > a.seq)

\* What starts to play is the segment that arrives at an idle client, or the one
\* that follows in the queue.
LEMMA HeardLater ==
    ASSUME SegmentsIInv, Next, heard' # heard
    PROVE  Later(heard, heard')
<1>1. ReceiveSegment \/ (current # None /\ SegmentEnded)
  BY DEF Next, Serve, Play, ReceiveMessage, Sentence, EndOfReply, StreamFails, StartSound,
         EndSound, FailSound, Stop, Send, Interrupt, Expire, client
<1>2. CASE ReceiveSegment
  <2>1. wire # <<>> /\ heard' = Head(wire)
    BY <1>2, Arriving DEF ReceiveSegment
  <2>2. Head(wire) \in Segment /\ Head(wire) = wire[1] /\ Len(wire) \in Nat \ {0}
    BY <2>1, Types, Taking
  <2>3. Follows(received, Head(wire))
    BY <2>2 DEF SegmentsIInv, SegmentsInv, HeldOneAhead, InSequence
  <2>4. Later(received, Head(wire))
    BY <2>2, <2>3, Types, FollowsIsLater, SegmentFields, NoneOrSegment DEF Later
  <2>5. UpTo(heard, received)
    BY DEF SegmentsIInv, HeardWasReceived
  <2>6. /\ heard.turn \in Nat /\ heard.seq \in Nat /\ received.turn \in Nat /\ received.seq \in Nat
        /\ Head(wire).turn \in Nat /\ Head(wire).seq \in Nat
    BY <2>2, Types, NoneOrSegment, SegmentFields DEF TypeOK
  <2> QED
    BY <2>1, <2>4, <2>5, <2>6 DEF Later, UpTo
<1>3. CASE current # None /\ SegmentEnded
  <2>1. queue # <<>> /\ heard' = Head(queue)
    BY <1>3 DEF SegmentEnded
  <2>2. Head(queue) \in Segment /\ Head(queue) = queue[1] /\ Len(queue) \in Nat \ {0}
    BY <2>1, Types, Taking
  <2>3. Follows(current, Head(queue)) /\ current \in Segment
    BY <1>3, <2>2, Queued
  <2>4. heard = current
    BY <1>3 DEF SegmentsIInv, HeardWasReceived
  <2>5. Head(queue).turn \in Nat /\ Head(queue).seq \in Nat /\ current.turn \in Nat /\ current.seq \in Nat
    BY <2>2, <2>3, SegmentFields
  <2> QED
    BY <2>1, <2>2, <2>3, <2>4, <2>5, FollowsIsLater DEF Later
<1> QED
  BY <1>1, <1>2, <1>3

-----------------------------------------------------------------------------
\* The strengthening holds in every reachable state: the client's queue, what it
\* received and what the server has sent fit together (SegmentedStream, pumpQueue).
THEOREM SegmentsIInvThm == Spec => []SegmentsIInv
<1>1. Init => SegmentsIInv
  <2> SUFFICES ASSUME Init PROVE SegmentsIInv
    OBVIOUS
  <2>1. TypeOK
    <3>1. open \in BOOLEAN /\ sounding \in BOOLEAN /\ lastFinal \in BOOLEAN
          /\ barged \in BOOLEAN /\ dropped \in BOOLEAN
      BY Zenon DEF Init
    <3>2. inbox \in Seq(Turn) /\ wire \in Seq(Segment) /\ queue \in Seq(Segment)
      BY DEF Init
    <3>3. asked \in 0 .. MaxTurns /\ turn \in 0 .. MaxTurns /\ active \in 0 .. MaxTurns
          /\ seen \in 0 .. MaxSentences
      BY VoiceAssumption DEF Init
    <3>4. store \subseteq Turn \X Seq0
      BY DEF Init
    <3>5. /\ current \in Segment \cup {None} /\ received \in Segment \cup {None}
          /\ heard \in Segment \cup {None}
      BY DEF Init
    <3> QED
      BY <3>1, <3>2, <3>3, <3>4, <3>5 DEF TypeOK
  <2>2. Len(wire) = 0 /\ Len(queue) = 0 /\ Len(inbox) = 0 /\ Sent = None /\ Reached = 0
    <3>1. Len(wire) = 0 /\ Len(queue) = 0 /\ Len(inbox) = 0 /\ asked = 0
      BY EmptySeq DEF Init
    <3>2. wire = <<>> /\ received = None
      BY DEF Init
    <3> QED
      BY <3>1, <3>2 DEF Sent, Reached
  <2>3. HeldOneAhead /\ OneTurnInOrder /\ DropsNeedBargeIn /\ IdleWhenDone
    BY <2>2 DEF Init, HeldOneAhead, InSequence, OneTurnInOrder, DropsNeedBargeIn, IdleWhenDone
  <2>4. TurnsInOrder
    BY <2>2, SegmentFields DEF Init, TurnsInOrder
  <2>5. PlayedAsReceived /\ OneMessage /\ HeardWasReceived
    BY <2>2, SegmentFields DEF Init, PlayedAsReceived, OneMessage, HeardWasReceived, UpTo
  <2> QED
    BY <2>1, <2>3, <2>4, <2>5 DEF SegmentsIInv, SegmentsInv
<1>2. SegmentsIInv /\ [Next]_vars => SegmentsIInv'
  BY ReceivingMessage, Streaming, QuietStep, BargingIn, MovingOn, Arriving
     DEF Next, Serve, Play, EndSound, FailSound
<1> QED
  BY <1>1, <1>2, PTL DEF Spec

\* Whatever is interrupted, expires, fails or raises: each segment is flagged as
\* last exactly if it is (SegmentedStream), the client plays one turn in its
\* order (onSpeakSegment, pumpQueue), drops nothing before a barge-in, and is
\* idle when a reply is over (onSegmentEnded).
THEOREM SegmentsThm == Spec => []SegmentsInv
<1>1. SegmentsIInv => SegmentsInv
  BY DEF SegmentsIInv
<1> QED
  BY <1>1, SegmentsIInvThm, PTL

\* Segments are heard in the order of turns and sentences and none twice: after a
\* barge-in too, when the client adopts what the old stream still delivers.
THEOREM HeardThm == Spec => HeardInOrder
<1>1. SegmentsIInv /\ [Next]_vars =>
        [heard' # heard =>
            \/ heard'.turn > heard.turn
            \/ heard'.turn = heard.turn /\ heard'.seq > heard.seq]_vars
  BY HeardLater DEF Later, vars
<1> QED
  BY <1>1, SegmentsIInvThm, PTL DEF Spec, HeardInOrder
=============================================================================
