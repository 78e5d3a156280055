------------------------- MODULE GatewaySessionProofs -------------------------
(***************************************************************************)
(* Proofs about GatewaySession, for any connections, turns, uses and       *)
(* rounds: however the turns of a session interleave and break off, a use  *)
(* is parted from its results only by an overlap or a cut, what Hermes did *)
(* comes on record, and each turn for itself is a Dialogue.                *)
(***************************************************************************)
EXTENDS GatewaySession, SequenceTheorems, FiniteSetTheorems, TLAPS

UseIdent == Nat \X Nat \X Nat
Messages == [turn : Nat, kind : {"user", "uses", "results", "text"}, ids : Seq(UseIdent)]

\* The turn of c has uses that wait for their results.
Working(c) == pc[c] \in {"tool_call", "confirm", "hermes", "tool_result"}

Typed ==
    /\ conv \in Seq(Messages)
    /\ \A i \in DOMAIN conv : conv[i].turn \in 1 .. turns
    /\ pc \in [Conn -> {"idle", "llm", "tool_call", "confirm", "hermes", "tool_result", "final"}]
    /\ turn \in [Conn -> 0 .. turns]
    /\ round \in [Conn -> 0 .. MaxRounds - 1]
    /\ reply \in [Conn -> 0 .. MaxUses]
    /\ sink \in [Conn -> Seq(UseIdent)]
    /\ turns \in 0 .. MaxTurns

\* sink[c] holds the results of the first uses of the reply, in order.
Sinks ==
    \A c \in Conn :
       /\ Len(sink[c]) <= reply[c]
       /\ Working(c) =>
             /\ pc[c] # "tool_result" => Len(sink[c]) < reply[c]
             /\ \A i \in 1 .. Len(sink[c]) : sink[c][i] = <<turn[c], round[c], i>>

\* Every turn runs on one connection, and only a turn that no longer runs was cut.
Owners ==
    /\ \A c \in Busy : turn[c] # 0 /\ turn[c] \notin cut
    /\ \A c, d \in Busy : c # d => turn[c] # turn[d] /\ overlapped
    /\ \A k \in cut : k \in 0 .. turns

\* The three fates of a message with uses: its results follow; another turn came
\* between; or it is the last message so far, its turn at work or cut off.
Answered(i) ==
    i < Len(conv) /\ conv[i + 1].kind = "results" /\ conv[i + 1].ids = conv[i].ids
Torn(i) ==
    i < Len(conv) /\ conv[i + 1].turn # conv[i].turn /\ (overlapped \/ conv[i].turn \in cut)
Owed(m) ==
    m.turn \in cut \/ \E c \in Conn : Working(c) /\ turn[c] = m.turn /\ m.ids = UseIds(c, reply[c])

Fates ==
    \A i \in DOMAIN conv :
       conv[i].kind = "uses" => Answered(i) \/ Torn(i) \/ (i = Len(conv) /\ Owed(conv[i]))

SomeTorn == unpaired # {} => \E i \in DOMAIN conv : conv[i].kind = "uses" /\ Torn(i)

\* What Hermes has run is in a sink whose turn is at work, or its turn was cut.
Recorded ==
    \A id \in unrecorded :
       id[1] \in cut \/ \E c \in Conn : Working(c) /\ id \in ToSet(sink[c])

SessionIInv == Typed /\ Sinks /\ Owners /\ Fates /\ SomeTorn /\ Recorded
-----------------------------------------------------------------------------
(* Types. *)

\* The ids of the uses of a reply are a sequence of their places.
LEMMA Ids ==
    ASSUME Typed, NEW c \in Conn, NEW n \in Nat
    PROVE  /\ UseIds(c, n) \in Seq(UseIdent) /\ Len(UseIds(c, n)) = n
           /\ \A i \in 1 .. n : UseIds(c, n)[i] = <<turn[c], round[c], i>>
<1>1. turn[c] \in Nat /\ round[c] \in Nat
  BY SessionAssumption DEF Typed
<1>2. PICK u : u = UseIds(c, n)
  OBVIOUS
<1>3. u \in [1 .. n -> UseIdent] /\ \A i \in 1 .. n : u[i] = <<turn[c], round[c], i>>
  BY <1>1, <1>2 DEF UseIds, UseIdent
<1>4. u \in Seq(UseIdent)
  BY <1>3, SeqDef
<1>5. Len(u) = n
  BY <1>3, <1>4, LenProperties
<1> QED
  BY <1>2, <1>3, <1>4, <1>5

\* A full sink holds just what the reply asked for.
LEMMA FullSink ==
    ASSUME Typed, Sinks, NEW c \in Conn, Working(c), Len(sink[c]) = reply[c]
    PROVE  sink[c] = UseIds(c, reply[c])
<1>1. PICK s \in Seq(UseIdent) : s = sink[c]
  BY DEF Typed
<1>2. PICK n \in Nat : n = reply[c]
  BY SessionAssumption DEF Typed
<1>3. PICK u : u = UseIds(c, n)
  OBVIOUS
<1>4. u \in Seq(UseIdent) /\ Len(u) = n /\ \A i \in 1 .. n : u[i] = <<turn[c], round[c], i>>
  BY <1>3, Ids
<1>5. Len(s) = n /\ \A i \in 1 .. n : s[i] = <<turn[c], round[c], i>>
  BY <1>1, <1>2 DEF Sinks
<1>6. s = u
  BY <1>4, <1>5, SeqEqual
<1> QED
  BY <1>1, <1>2, <1>3, <1>6

\* A message of a turn that has begun.
LEMMA AMessage ==
    \A k \in Nat, kind \in {"user", "uses", "results", "text"}, ids \in Seq(UseIdent) :
       /\ Message(k, kind, ids) \in Messages
       /\ Message(k, kind, ids).turn = k /\ Message(k, kind, ids).kind = kind
       /\ Message(k, kind, ids).ids = ids
BY DEF Message, Messages

\* Ending a turn.
LEMMA Endings ==
    ASSUME Typed, NEW c \in Conn, Ends(c)
    PROVE  /\ pc' = [pc EXCEPT ![c] = "idle"] /\ turn' = [turn EXCEPT ![c] = 0]
           /\ round' = [round EXCEPT ![c] = 0] /\ reply' = [reply EXCEPT ![c] = 0]
           /\ sink' = [sink EXCEPT ![c] = <<>>]
BY DEF Ends, Goes

\* What Append and \o leave as it was.
LEMMA Grown ==
    ASSUME Typed, NEW m \in Messages,
           \/ conv' = Append(conv, m)
           \/ \E k \in Messages : conv' = conv \o <<m, k>> /\ k.kind = "text" /\ k.turn = m.turn
    PROVE  /\ conv' \in Seq(Messages) /\ Len(conv) \in Nat /\ Len(conv') \in Nat
           /\ Len(conv') > Len(conv) /\ DOMAIN conv = 1 .. Len(conv) /\ DOMAIN conv' = 1 .. Len(conv')
           /\ \A i \in 1 .. Len(conv) : conv'[i] = conv[i]
           /\ conv'[Len(conv) + 1] = m
           /\ \A i \in 1 .. Len(conv') :
                 i <= Len(conv) \/ i = Len(conv) + 1 \/ (conv'[i].kind = "text" /\ conv'[i].turn = m.turn)
           /\ Len(conv') = Len(conv) + 1 \/ conv'[Len(conv')].kind = "text"
<1>1. conv \in Seq(Messages) /\ Len(conv) \in Nat /\ DOMAIN conv = 1 .. Len(conv)
  BY LenProperties DEF Typed
<1>2. CASE conv' = Append(conv, m)
  <2>1. PICK s : s = Append(conv, m)
    OBVIOUS
  <2>2. /\ s \in Seq(Messages) /\ Len(s) = Len(conv) + 1 /\ s[Len(conv) + 1] = m
        /\ \A i \in 1 .. Len(conv) : s[i] = conv[i]
    BY <1>1, <2>1, AppendProperties
  <2>3. DOMAIN s = 1 .. Len(s)
    BY <2>2, LenProperties
  <2>4. conv' = s
    BY <1>2, <2>1
  <2>5. Len(s) > Len(conv) /\ Len(s) \in Nat /\ \A i \in 1 .. Len(s) : i <= Len(conv) \/ i = Len(conv) + 1
    BY <1>1, <2>2
  <2> QED
    BY <1>1, <2>2, <2>3, <2>4, <2>5
<1>3. ASSUME NEW k \in Messages, conv' = conv \o <<m, k>>, k.kind = "text", k.turn = m.turn
      PROVE  /\ conv' \in Seq(Messages) /\ Len(conv') = Len(conv) + 2 /\ DOMAIN conv' = 1 .. Len(conv')
             /\ \A i \in 1 .. Len(conv) : conv'[i] = conv[i]
             /\ conv'[Len(conv) + 1] = m /\ conv'[Len(conv) + 2] = k
  <2>1. PICK s : s = conv \o <<m, k>>
    OBVIOUS
  <2>2. <<m, k>> \in Seq(Messages) /\ Len(<<m, k>>) = 2 /\ <<m, k>>[1] = m /\ <<m, k>>[2] = k
    OBVIOUS
  <2>3. /\ s \in Seq(Messages) /\ Len(s) = Len(conv) + 2
        /\ \A i \in 1 .. Len(conv) + 2 : s[i] = IF i <= Len(conv) THEN conv[i] ELSE <<m, k>>[i - Len(conv)]
    BY <1>1, <2>1, <2>2, ConcatProperties
  <2>4. \A i \in 1 .. Len(conv) : s[i] = conv[i]
    BY <1>1, <2>3
  <2>5. s[Len(conv) + 1] = m
    <3>1. Len(conv) + 1 \in 1 .. Len(conv) + 2 /\ ~(Len(conv) + 1 <= Len(conv)) /\ (Len(conv) + 1) - Len(conv) = 1
      BY <1>1
    <3> QED
      BY <2>2, <2>3, <3>1
  <2>6. s[Len(conv) + 2] = k
    <3>1. Len(conv) + 2 \in 1 .. Len(conv) + 2 /\ ~(Len(conv) + 2 <= Len(conv)) /\ (Len(conv) + 2) - Len(conv) = 2
      BY <1>1
    <3> QED
      BY <2>2, <2>3, <3>1
  <2>7. DOMAIN s = 1 .. Len(s)
    BY <2>3, LenProperties
  <2> QED
    BY <1>3, <2>1, <2>3, <2>4, <2>5, <2>6, <2>7
<1>4. ASSUME NEW k \in Messages, conv' = conv \o <<m, k>>, k.kind = "text", k.turn = m.turn
      PROVE  /\ Len(conv') > Len(conv) /\ Len(conv') \in Nat
             /\ \A i \in 1 .. Len(conv') :
                   i <= Len(conv) \/ i = Len(conv) + 1 \/ (conv'[i].kind = "text" /\ conv'[i].turn = m.turn)
             /\ conv'[Len(conv')].kind = "text"
  <2>1. PICK n : n = Len(conv')
    OBVIOUS
  <2>2. n = Len(conv) + 2
    BY <1>3, <1>4, <2>1
  <2>3. n > Len(conv) /\ n \in Nat /\ \A i \in 1 .. n : i <= Len(conv) \/ i = Len(conv) + 1 \/ i = Len(conv) + 2
    BY <1>1, <2>2
  <2> QED
    BY <1>3, <1>4, <2>1, <2>2, <2>3
<1> QED
  BY <1>1, <1>2, <1>3, <1>4

-----------------------------------------------------------------------------
(* What happens to a use. *)

\* Turns that do not touch the conversation: whoever is at work stays at work, or
\* is cut off.
LEMMA FatesQuiet ==
    ASSUME Fates, SomeTorn, conv' = conv, cut \subseteq cut', overlapped => overlapped', unpaired' \subseteq unpaired,
           \A c \in Conn : Working(c) => \/ turn[c] \in cut'
                                         \/ Working(c)' /\ turn'[c] = turn[c] /\ round'[c] = round[c] /\ reply'[c] = reply[c]
    PROVE  Fates' /\ SomeTorn'
<1>1. \A i \in DOMAIN conv : Answered(i) => Answered(i)'
  BY DEF Answered
<1>2. \A i \in DOMAIN conv : Torn(i) => Torn(i)'
  BY DEF Torn
<1>3. ASSUME NEW i \in DOMAIN conv, Owed(conv[i]) PROVE Owed(conv[i])'
  <2>1. PICK m : m = conv[i]
    OBVIOUS
  <2>2. CASE m.turn \in cut
    BY <2>1, <2>2 DEF Owed
  <2>3. CASE \E c \in Conn : Working(c) /\ turn[c] = m.turn /\ m.ids = UseIds(c, reply[c])
    <3>1. PICK c \in Conn : Working(c) /\ turn[c] = m.turn /\ m.ids = UseIds(c, reply[c])
      BY <2>3
    <3>2. CASE turn[c] \in cut'
      BY <2>1, <3>1, <3>2 DEF Owed
    <3>3. CASE Working(c)' /\ turn'[c] = turn[c] /\ round'[c] = round[c] /\ reply'[c] = reply[c]
      <4>1. UseIds(c, reply[c])' = UseIds(c, reply[c])
        BY <3>3 DEF UseIds
      <4> QED
        BY <2>1, <3>1, <3>3, <4>1 DEF Owed
    <3> QED
      BY <3>1, <3>2, <3>3
  <2> QED
    BY <1>3, <2>1, <2>2, <2>3 DEF Owed
<1>4. Fates'
  BY <1>1, <1>2, <1>3 DEF Fates
<1>5. SomeTorn'
  BY <1>2 DEF SomeTorn
<1> QED
  BY <1>4, <1>5

\* The conversation grows by a message m of connection c (and the answer after
\* it): a use that was the last message gets its results, or is torn apart.
LEMMA FatesGrow ==
    ASSUME Typed, Owners, Fates, NEW c \in Conn, NEW m \in Messages,
           \/ conv' = Append(conv, m)
           \/ \E k \in Messages : conv' = conv \o <<m, k>> /\ k.kind = "text" /\ k.turn = m.turn,
           cut' = cut, overlapped => overlapped',
           Busy \ {c} # {} => overlapped',
           m.turn \notin cut, \A d \in Busy : d # c => turn[d] # m.turn,
           Working(c) => (m.kind = "results" /\ m.turn = turn[c] /\ m.ids = UseIds(c, reply[c])),
           m.kind = "uses" => Owed(m)' /\ Len(conv') = Len(conv) + 1
    PROVE  /\ Fates'
           /\ \A i \in DOMAIN conv : Torn(i) => Torn(i)' /\ i \in DOMAIN conv'
           /\ conv'[Len(conv')].kind = "uses" => m.kind = "uses"
<1>0. PICK n, l : n = Len(conv) /\ l = Len(conv')
  OBVIOUS
<1>a. n \in Nat /\ l \in Nat /\ l > n
  BY <1>0, Grown
<1>1. /\ n \in Nat /\ Len(conv') \in Nat /\ Len(conv') > n /\ DOMAIN conv = 1 .. n /\ DOMAIN conv' = 1 .. Len(conv')
      /\ \A i \in 1 .. n : conv'[i] = conv[i]
      /\ conv'[n + 1] = m
      /\ \A i \in 1 .. Len(conv') : i <= n \/ i = n + 1 \/ conv'[i].kind = "text"
      /\ Len(conv') = n + 1 \/ conv'[Len(conv')].kind = "text"
  BY <1>0, Grown
<1>2. ASSUME NEW i \in 1 .. n - 1
      PROVE  /\ i \in 1 .. n /\ i + 1 \in 1 .. n /\ i < n /\ i < Len(conv') /\ i \in DOMAIN conv'
             /\ conv'[i] = conv[i] /\ conv'[i + 1] = conv[i + 1]
  <2>1. i \in 1 .. n /\ i + 1 \in 1 .. n /\ i < n /\ i < l /\ i \in 1 .. l
    BY <1>a
  <2> QED
    BY <1>0, <1>1, <2>1
<1>3. \A i \in DOMAIN conv : (Answered(i) \/ Torn(i)) => i \in 1 .. n - 1
  <2>1. \A i \in 1 .. n : i < n => i \in 1 .. n - 1
    BY <1>a
  <2> QED
    BY <1>0, <1>1, <2>1 DEF Answered, Torn
<1>4. \A i \in DOMAIN conv : Torn(i) => Torn(i)' /\ i \in DOMAIN conv'
  BY <1>2, <1>3 DEF Torn
<1>5. \A i \in DOMAIN conv : Answered(i) => Answered(i)'
  BY <1>2, <1>3 DEF Answered
<1>6. ASSUME n \in DOMAIN conv, conv[n].kind = "uses", Owed(conv[n])
      PROVE  Answered(n)' \/ Torn(n)'
  <2>1. n < Len(conv') /\ conv'[n + 1] = m /\ conv'[n] = conv[n]
    BY <1>1, <1>6
  <2>2. CASE conv[n].turn \in cut
    BY <2>1, <2>2 DEF Torn
  <2>3. ASSUME NEW d \in Conn, Working(d), turn[d] = conv[n].turn, conv[n].ids = UseIds(d, reply[d])
        PROVE  Answered(n)' \/ Torn(n)'
    <3>1. CASE d = c
      BY <2>1, <2>3, <3>1 DEF Answered
    <3>2. CASE d # c
      <4>1. d \in Busy
        BY <2>3 DEF Working, Busy
      <4> QED
        BY <2>1, <2>3, <3>2, <4>1 DEF Torn
    <3> QED
      BY <3>1, <3>2
  <2> QED
    BY <1>6, <2>2, <2>3 DEF Owed
<1>7. ASSUME NEW i \in DOMAIN conv', conv'[i].kind = "uses"
      PROVE  Answered(i)' \/ Torn(i)' \/ (i = Len(conv') /\ Owed(conv[i])')
  <2>1. i \in 1 .. Len(conv') /\ (i <= n \/ i = n + 1)
    BY <1>1, <1>7
  <2>2. CASE i <= n
    <3>1. i \in DOMAIN conv /\ conv[i].kind = "uses"
      <4>1. i \in 1 .. n
        BY <1>0, <1>a, <2>1, <2>2
      <4> QED
        BY <1>1, <1>7, <4>1
    <3> QED
      BY <1>0, <1>4, <1>5, <1>6, <3>1 DEF Fates
  <2>3. CASE i = n + 1
    <3>1. conv'[i] = m /\ m.kind = "uses"
      BY <1>1, <1>7, <2>3
    <3>2. i = Len(conv')
      BY <1>0, <2>3, <3>1
    <3>3. Owed(conv[i])'
      BY <3>1 DEF Owed
    <3> QED
      BY <3>2, <3>3
  <2> QED
    BY <2>1, <2>2, <2>3
<1>8. Fates'
  BY <1>7 DEF Fates
<1>9. conv'[Len(conv')].kind = "uses" => m.kind = "uses"
  BY <1>1
<1> QED
  BY <1>4, <1>8, <1>9

\* The model is sent a torn use only if there is one.
LEMMA SentTorn ==
    ASSUME conv' \in Seq(Messages), Fates', conv'[Len(conv')].kind # "uses", ~WellPaired(conv')
    PROVE  \E i \in DOMAIN conv' : conv'[i].kind = "uses" /\ Torn(i)'
<1>1. PICK i \in DOMAIN conv' :
         conv'[i].kind = "uses" /\ ~(/\ i < Len(conv')
                                     /\ conv'[i + 1].kind = "results" /\ conv'[i + 1].ids = conv'[i].ids)
  BY DEF WellPaired
<1>2. ~Answered(i)' /\ i # Len(conv')
  BY <1>1 DEF Answered
<1> QED
  BY <1>1, <1>2 DEF Fates
-----------------------------------------------------------------------------
(* The actions. *)

\* A turn that is at work has run no use, or one more.
LEMMA Works ==
    ASSUME Typed, Sinks, NEW c \in Conn,
           ToolCalled(c) \/ (\E approved \in BOOLEAN : Confirmed(c, approved)) \/ HermesDone(c) \/ NextTool(c)
    PROVE  /\ Working(c) /\ Len(sink[c]) < reply[c]
           /\ UNCHANGED <<conv, turn, round, reply, turns, unpaired, overlapped, cut>>
           /\ \/ sink' = sink /\ \E p \in {"tool_call", "confirm", "hermes"} : pc' = [pc EXCEPT ![c] = p]
              \/ sink' = [sink EXCEPT ![c] = Append(@, UseId(c))] /\ pc' = [pc EXCEPT ![c] = "tool_result"]
           /\ \/ unrecorded' = unrecorded
              \/ /\ unrecorded' = unrecorded \cup {UseId(c)}
                 /\ sink' = [sink EXCEPT ![c] = Append(@, UseId(c))]
<1>1. UNCHANGED <<conv, turn, round, reply, turns, unpaired, overlapped, cut>>
  BY DEF ToolCalled, Confirmed, HermesDone, NextTool, history
<1>2. Working(c)
  BY DEF ToolCalled, Confirmed, HermesDone, NextTool, Working
<1>3. Len(sink[c]) < reply[c]
  <2>1. CASE NextTool(c)
    BY <2>1 DEF NextTool
  <2>2. CASE ~NextTool(c)
    <3>1. pc[c] # "tool_result"
      BY <2>2 DEF ToolCalled, Confirmed, HermesDone
    <3> QED
      BY <1>2, <3>1 DEF Sinks
  <2> QED
    BY <2>1, <2>2
<1>4. \/ sink' = sink /\ \E p \in {"tool_call", "confirm", "hermes"} : pc' = [pc EXCEPT ![c] = p]
      \/ sink' = [sink EXCEPT ![c] = Append(@, UseId(c))] /\ pc' = [pc EXCEPT ![c] = "tool_result"]
  BY DEF ToolCalled, Confirmed, HermesDone, NextTool, TryTask, GiveResult, Goes
<1>5. \/ unrecorded' = unrecorded
      \/ /\ unrecorded' = unrecorded \cup {UseId(c)}
         /\ sink' = [sink EXCEPT ![c] = Append(@, UseId(c))]
  BY DEF ToolCalled, Confirmed, HermesDone, NextTool, GiveResult, history
<1> QED
  BY <1>1, <1>2, <1>3, <1>4, <1>5

\* One more result.
LEMMA OneMore ==
    ASSUME Typed, Sinks, NEW c \in Conn, Working(c), Len(sink[c]) < reply[c]
    PROVE  LET s == Append(sink[c], UseId(c))
           IN  /\ s \in Seq(UseIdent) /\ Len(s) = Len(sink[c]) + 1 /\ Len(s) <= reply[c]
               /\ \A i \in 1 .. Len(s) : s[i] = <<turn[c], round[c], i>>
               /\ ToSet(s) = ToSet(sink[c]) \cup {UseId(c)}
<1>1. PICK q \in Seq(UseIdent) : q = sink[c]
  BY DEF Typed
<1>2. Len(q) \in Nat /\ reply[c] \in Nat /\ turn[c] \in Nat /\ round[c] \in Nat /\ DOMAIN q = 1 .. Len(q)
  BY LenProperties, SessionAssumption DEF Typed
<1>3. PICK u \in UseIdent : u = <<turn[c], round[c], Len(q) + 1>>
  <2>1. PICK k \in Nat, r \in Nat, n \in Nat : k = turn[c] /\ r = round[c] /\ n = Len(q) + 1
    BY <1>2
  <2>2. <<k, r, n>> \in UseIdent
    BY DEF UseIdent
  <2> QED
    BY <2>1, <2>2
<1>4. UseId(c) = u
  BY <1>1, <1>3 DEF UseId, Place
<1>5. PICK s : s = Append(q, u)
  OBVIOUS
<1>6. /\ s \in Seq(UseIdent) /\ Len(s) = Len(q) + 1
      /\ \A i \in 1 .. Len(q) : s[i] = q[i]
      /\ s[Len(q) + 1] = u
  BY <1>5, AppendProperties
<1>7. \A i \in 1 .. Len(q) : q[i] = <<turn[c], round[c], i>>
  BY <1>1 DEF Sinks
<1>8. \A i \in 1 .. Len(s) : i \in 1 .. Len(q) \/ i = Len(q) + 1
  BY <1>2, <1>6
<1>9. \A i \in 1 .. Len(s) : s[i] = <<turn[c], round[c], i>>
  BY <1>3, <1>6, <1>7, <1>8
<1>10. Len(s) <= reply[c]
  BY <1>1, <1>2, <1>6
<1>11. ToSet(s) = ToSet(q) \cup {u}
  <2>1. DOMAIN s = 1 .. Len(s) /\ (\A i \in 1 .. Len(q) : i \in 1 .. Len(s)) /\ Len(q) + 1 \in 1 .. Len(s)
    BY <1>2, <1>6, LenProperties
  <2> QED
    BY <1>2, <1>6, <1>8, <2>1 DEF ToSet
<1> QED
  BY <1>1, <1>4, <1>5, <1>6, <1>9, <1>10, <1>11

\* What the actions that speak append, and to whom.
LEMMA Speaks ==
    ASSUME Typed, Sinks, NEW c \in Conn,
           \/ StartTurn(c) \/ StoreAnswer(c) \/ StoreResults(c) \/ RunOut(c)
           \/ \E n \in 1 .. MaxUses - round[c] : StoreUses(c, n)
    PROVE  \E m \in Messages :
              /\ \/ conv' = Append(conv, m)
                 \/ /\ RunOut(c)
                    /\ \E k \in Messages : conv' = conv \o <<m, k>> /\ k.kind = "text" /\ k.turn = m.turn
              /\ IF StartTurn(c) THEN m.turn = turns + 1 /\ m.kind = "user" ELSE m.turn = turn[c]
              /\ Working(c) => m.kind = "results" /\ m.ids = UseIds(c, reply[c])
              /\ m.kind = "uses" =>
                    \E n \in 1 .. MaxUses - round[c] : StoreUses(c, n) /\ m.ids = UseIds(c, n)
<1>0. turns \in Nat /\ turn[c] \in Nat /\ <<>> \in Seq(UseIdent)
  BY SessionAssumption DEF Typed
<1>t. PICK t \in Nat, b \in Nat, e \in Seq(UseIdent) : t = turn[c] /\ b = turns + 1 /\ e = <<>>
  <2>1. turns + 1 \in Nat
    BY <1>0
  <2> QED
    BY <1>0, <2>1, Zenon
<1>1. CASE StartTurn(c)
  <2>1. PICK m \in Messages : m = Message(turns + 1, "user", <<>>) /\ m.turn = turns + 1 /\ m.kind = "user"
    <3>1. Message(b, "user", e) \in Messages /\ Message(b, "user", e).turn = b
          /\ Message(b, "user", e).kind = "user" /\ Message(b, "user", e).ids = e
      BY AMessage
    <3> QED
      BY <1>t, <3>1
  <2>2. conv' = Append(conv, m) /\ turns' = turns + 1 /\ ~Working(c)
    BY <1>1, <2>1 DEF StartTurn, Working
  <2> QED
    BY <1>1, <2>1, <2>2
<1>2. CASE StoreAnswer(c)
  <2>1. PICK m \in Messages : m = Message(turn[c], "text", <<>>) /\ m.turn = turn[c] /\ m.kind = "text"
    <3>1. Message(t, "text", e) \in Messages /\ Message(t, "text", e).turn = t
          /\ Message(t, "text", e).kind = "text" /\ Message(t, "text", e).ids = e
      BY AMessage
    <3> QED
      BY <1>t, <3>1
  <2>2. conv' = Append(conv, m) /\ ~Working(c) /\ ~StartTurn(c)
    BY <1>2, <2>1 DEF StoreAnswer, StartTurn, Working
  <2> QED
    BY <2>1, <2>2
<1>3. ASSUME StoreResults(c) \/ RunOut(c)
      PROVE  \E m \in Messages : /\ m = Message(turn[c], "results", sink[c]) /\ m.turn = turn[c] /\ m.kind = "results"
                                 /\ m.ids = UseIds(c, reply[c]) /\ ~StartTurn(c)
  <2>1. Working(c) /\ Len(sink[c]) = reply[c] /\ ~StartTurn(c)
    BY <1>3 DEF StoreResults, RunOut, StartTurn, Working
  <2>2. sink[c] = UseIds(c, reply[c])
    BY <2>1, FullSink
  <2>3. PICK s \in Seq(UseIdent) : s = sink[c]
    BY DEF Typed
  <2>4. PICK m \in Messages : m = Message(turn[c], "results", s) /\ m.turn = turn[c] /\ m.kind = "results" /\ m.ids = s
    <3>1. Message(t, "results", s) \in Messages /\ Message(t, "results", s).turn = t
          /\ Message(t, "results", s).kind = "results" /\ Message(t, "results", s).ids = s
      BY AMessage
    <3> QED
      BY <1>t, <3>1
  <2> QED
    BY <2>1, <2>2, <2>3, <2>4
<1>4. CASE StoreResults(c)
  <2>1. PICK m \in Messages : /\ m = Message(turn[c], "results", sink[c]) /\ m.turn = turn[c] /\ m.kind = "results"
                              /\ m.ids = UseIds(c, reply[c]) /\ ~StartTurn(c)
    BY <1>3, <1>4
  <2>2. conv' = Append(conv, m)
    BY <1>4, <2>1 DEF StoreResults
  <2> QED
    BY <2>1, <2>2
<1>5. CASE RunOut(c)
  <2>1. PICK m \in Messages : /\ m = Message(turn[c], "results", sink[c]) /\ m.turn = turn[c] /\ m.kind = "results"
                              /\ m.ids = UseIds(c, reply[c]) /\ ~StartTurn(c)
    BY <1>3, <1>5
  <2>2. PICK k \in Messages : k = Message(turn[c], "text", <<>>) /\ k.turn = turn[c] /\ k.kind = "text"
    <3>1. Message(t, "text", e) \in Messages /\ Message(t, "text", e).turn = t
          /\ Message(t, "text", e).kind = "text" /\ Message(t, "text", e).ids = e
      BY AMessage
    <3> QED
      BY <1>t, <3>1
  <2>3. conv' = conv \o <<m, k>>
    BY <1>5, <2>1, <2>2 DEF RunOut
  <2> QED
    BY <1>5, <2>1, <2>2, <2>3
<1>6. ASSUME NEW n \in 1 .. MaxUses - round[c], StoreUses(c, n)
      PROVE  \E m \in Messages : /\ conv' = Append(conv, m) /\ m.turn = turn[c] /\ m.ids = UseIds(c, n)
                                 /\ ~Working(c) /\ ~StartTurn(c)
  <2>1. PICK u \in Seq(UseIdent) : u = UseIds(c, n)
    BY Ids
  <2>2. PICK m \in Messages : m = Message(turn[c], "uses", u) /\ m.turn = turn[c] /\ m.ids = u
    <3>1. Message(t, "uses", u) \in Messages /\ Message(t, "uses", u).turn = t
          /\ Message(t, "uses", u).kind = "uses" /\ Message(t, "uses", u).ids = u
      BY AMessage
    <3> QED
      BY <1>t, <3>1
  <2> QED
    BY <1>6, <2>1, <2>2 DEF StoreUses, StartTurn, Working
<1> QED
  BY <1>1, <1>2, <1>4, <1>5, <1>6-----------------------------------------------------------------------------
(* Every step keeps the parts of the invariant. *)

\* What everyone who is busy counts on.
LEMMA Numbers ==
    ASSUME Typed
    PROVE  /\ turns \in Nat /\ MaxTurns \in Nat /\ MaxUses \in Nat /\ MaxRounds \in Nat /\ MaxRounds > 0
           /\ \A c \in Conn : turn[c] \in Nat /\ round[c] \in Nat /\ reply[c] \in Nat /\ Len(sink[c]) \in Nat
<1>1. \A c \in Conn : Len(sink[c]) \in Nat
  BY LenProperties DEF Typed
<1> QED
  BY <1>1, SessionAssumption DEF Typed

\* Who speaks is not working, or stops to.
LEMMA TypedSpeak ==
    ASSUME Typed, Sinks, Owners, NEW c \in Conn,
           \/ StartTurn(c) \/ StoreAnswer(c) \/ StoreResults(c) \/ RunOut(c)
           \/ \E n \in 1 .. MaxUses - round[c] : StoreUses(c, n)
    PROVE  Typed'
<1>1. turns' \in 0 .. MaxTurns /\ turns' >= turns /\ turns' \in Nat /\ turns \in Nat
  BY Numbers DEF StartTurn, StoreAnswer, StoreResults, RunOut, StoreUses, Typed
<1>2. PICK m \in Messages :
         /\ \/ conv' = Append(conv, m)
            \/ \E k \in Messages : conv' = conv \o <<m, k>> /\ k.kind = "text" /\ k.turn = m.turn
         /\ IF StartTurn(c) THEN m.turn = turns + 1 /\ m.kind = "user" ELSE m.turn = turn[c]
  BY Speaks
<1>3. m.turn \in 1 .. turns'
  <2>1. CASE StartTurn(c)
    BY <1>1, <1>2, <2>1 DEF StartTurn
  <2>2. CASE ~StartTurn(c)
    <3>1. c \in Busy
      BY <2>2 DEF Busy, StoreAnswer, StoreResults, RunOut, StoreUses
    <3>2. turn[c] # 0 /\ turn[c] \in 0 .. turns
      BY <3>1 DEF Owners, Typed
    <3> QED
      BY <1>1, <1>2, <2>2, <3>2
  <2> QED
    BY <2>1, <2>2
<1>4. /\ conv' \in Seq(Messages) /\ DOMAIN conv = 1 .. Len(conv) /\ DOMAIN conv' = 1 .. Len(conv')
      /\ \A i \in 1 .. Len(conv) : conv'[i] = conv[i]
      /\ conv'[Len(conv) + 1] = m /\ Len(conv) \in Nat
      /\ \A i \in 1 .. Len(conv') :
            i <= Len(conv) \/ i = Len(conv) + 1 \/ (conv'[i].kind = "text" /\ conv'[i].turn = m.turn)
  BY <1>2, Grown
<1>5. ASSUME NEW i \in DOMAIN conv' PROVE conv'[i].turn \in 1 .. turns'
  <2>1. CASE i <= Len(conv)
    <3>1. i \in 1 .. Len(conv)
      BY <1>4, <2>1
    <3>2. conv[i].turn \in 1 .. turns /\ conv'[i] = conv[i]
      BY <1>4, <3>1 DEF Typed
    <3>3. conv'[i].turn \in 1 .. turns
      BY <3>2
    <3> QED
      BY <1>1, <3>3
  <2>2. CASE i = Len(conv) + 1
    BY <1>3, <1>4, <2>2
  <2>3. CASE conv'[i].turn = m.turn
    BY <1>3, <2>3
  <2> QED
    BY <1>4, <2>1, <2>2, <2>3
<1>6. pc' \in [Conn -> {"idle", "llm", "tool_call", "confirm", "hermes", "tool_result", "final"}]
  BY DEF StartTurn, StoreAnswer, StoreResults, RunOut, StoreUses, CallLlm, Goes, Typed
<1>7. turn' \in [Conn -> 0 .. turns']
  <2>1. turn \in [Conn -> 0 .. turns']
    BY <1>1 DEF Typed
  <2>2. StartTurn(c) => turns + 1 \in 0 .. turns'
    BY <1>1 DEF StartTurn
  <2> QED
    BY <2>1, <2>2 DEF StartTurn, StoreAnswer, StoreResults, RunOut, StoreUses
<1>8. round' \in [Conn -> 0 .. MaxRounds - 1]
  <2>1. CASE StoreResults(c)
    <3>1. round[c] \in 0 .. MaxRounds - 1 /\ round[c] + 1 # MaxRounds
      BY <2>1 DEF StoreResults, LastRound, Typed
    <3>2. round[c] + 1 \in 0 .. MaxRounds - 1
      BY <3>1, Numbers
    <3> QED
      BY <2>1, <3>2 DEF StoreResults, Typed
  <2> QED
    BY <2>1 DEF StartTurn, StoreAnswer, RunOut, StoreUses, Typed
<1>9. reply' \in [Conn -> 0 .. MaxUses] /\ sink' \in [Conn -> Seq(UseIdent)]
  <2>1. ASSUME NEW n \in 1 .. MaxUses - round[c] PROVE n \in 0 .. MaxUses
    BY Numbers
  <2>2. <<>> \in Seq(UseIdent)
    OBVIOUS
  <2> QED
    BY <2>1, <2>2 DEF StartTurn, StoreAnswer, StoreResults, RunOut, StoreUses, Typed
<1> QED
  BY <1>1, <1>4, <1>5, <1>6, <1>7, <1>8, <1>9 DEF Typed

\* Working and ending keep the types and the order in the sinks.
LEMMA TypedWork ==
    ASSUME Typed, Sinks, NEW c \in Conn,
           ToolCalled(c) \/ (\E approved \in BOOLEAN : Confirmed(c, approved)) \/ HermesDone(c) \/ NextTool(c)
    PROVE  Typed' /\ Sinks'
<1>1. /\ Working(c) /\ Len(sink[c]) < reply[c]
      /\ UNCHANGED <<conv, turn, round, reply, turns>>
      /\ \/ sink' = sink /\ \E p \in {"tool_call", "confirm", "hermes"} : pc' = [pc EXCEPT ![c] = p]
         \/ sink' = [sink EXCEPT ![c] = Append(@, UseId(c))] /\ pc' = [pc EXCEPT ![c] = "tool_result"]
  BY Works
<1>2. PICK s : s = Append(sink[c], UseId(c))
  OBVIOUS
<1>3. /\ s \in Seq(UseIdent) /\ Len(s) <= reply[c]
      /\ \A i \in 1 .. Len(s) : s[i] = <<turn[c], round[c], i>>
  BY <1>1, <1>2, OneMore
<1>4. pc' \in [Conn -> {"idle", "llm", "tool_call", "confirm", "hermes", "tool_result", "final"}]
  BY <1>1 DEF Typed
<1>5. sink' \in [Conn -> Seq(UseIdent)]
  BY <1>1, <1>2, <1>3 DEF Typed
<1>6. Typed'
  BY <1>1, <1>4, <1>5 DEF Typed
<1>7. ASSUME NEW d \in Conn, d # c PROVE pc'[d] = pc[d] /\ sink'[d] = sink[d]
  BY <1>1, <1>7 DEF Typed
<1>8. CASE sink' = sink /\ \E p \in {"tool_call", "confirm", "hermes"} : pc' = [pc EXCEPT ![c] = p]
  <2>1. \A i \in 1 .. Len(sink[c]) : sink[c][i] = <<turn[c], round[c], i>>
    BY <1>1 DEF Sinks
  <2>2. \A d \in Conn : d # c => Working(d)' = Working(d)
    BY <1>7 DEF Working
  <2>3. Len(sink[c]) <= reply[c]
    BY DEF Sinks
  <2> QED
    BY <1>1, <1>6, <1>7, <1>8, <2>1, <2>2, <2>3 DEF Sinks
<1>9. CASE sink' = [sink EXCEPT ![c] = Append(@, UseId(c))] /\ pc' = [pc EXCEPT ![c] = "tool_result"]
  <2>1. sink'[c] = s /\ pc'[c] = "tool_result"
    BY <1>2, <1>9 DEF Typed
  <2>2. \A d \in Conn : d # c => Working(d)' = Working(d)
    BY <1>7 DEF Working
  <2> QED
    BY <1>1, <1>3, <1>6, <1>7, <2>1, <2>2 DEF Sinks
<1> QED
  BY <1>1, <1>8, <1>9

LEMMA TypedEnd ==
    ASSUME Typed, Sinks, NEW c \in Conn, Finish(c) \/ Cut(c)
    PROVE  Typed' /\ Sinks'
<1>1. /\ conv' = conv /\ turns' = turns
      /\ pc' = [pc EXCEPT ![c] = "idle"] /\ turn' = [turn EXCEPT ![c] = 0]
      /\ round' = [round EXCEPT ![c] = 0] /\ reply' = [reply EXCEPT ![c] = 0]
      /\ sink' = [sink EXCEPT ![c] = <<>>]
  BY Endings DEF Finish, Cut
<1>2. Typed'
  <2>1. <<>> \in Seq(UseIdent) /\ 0 \in 0 .. turns /\ 0 \in 0 .. MaxRounds - 1 /\ 0 \in 0 .. MaxUses
    BY Numbers
  <2> QED
    BY <1>1, <2>1 DEF Typed
<1>3. \A d \in Conn : d # c => /\ pc'[d] = pc[d] /\ sink'[d] = sink[d] /\ turn'[d] = turn[d]
                               /\ round'[d] = round[d] /\ reply'[d] = reply[d]
  BY <1>1 DEF Typed
<1>4. pc'[c] = "idle" /\ sink'[c] = <<>> /\ reply'[c] = 0
  BY <1>1 DEF Typed
<1>5. Len(sink'[c]) <= reply'[c] /\ ~Working(c)'
  BY <1>4 DEF Working
<1>6. \A d \in Conn : d # c => Working(d)' = Working(d)
  BY <1>3 DEF Working
<1> QED
  BY <1>2, <1>3, <1>5, <1>6 DEF Sinks

\* A new reply starts with an empty sink; who is not at work may keep his.
LEMMA SinksSpeak ==
    ASSUME Typed, Sinks, NEW c \in Conn,
           \/ StartTurn(c) \/ StoreAnswer(c) \/ StoreResults(c) \/ RunOut(c)
           \/ \E n \in 1 .. MaxUses - round[c] : StoreUses(c, n)
    PROVE  Sinks'
<1>1. \A d \in Conn : d # c => /\ pc'[d] = pc[d] /\ sink'[d] = sink[d] /\ turn'[d] = turn[d]
                               /\ round'[d] = round[d] /\ reply'[d] = reply[d]
  BY DEF StartTurn, StoreAnswer, StoreResults, RunOut, StoreUses, CallLlm, Goes, Typed
<1>2. \A d \in Conn : d # c => Working(d)' = Working(d)
  BY <1>1 DEF Working
<1>3. CASE StartTurn(c) \/ StoreAnswer(c) \/ StoreResults(c) \/ RunOut(c)
  <2>1. reply' = reply /\ sink' = sink /\ pc'[c] \in {"llm", "final"}
    BY <1>3 DEF StartTurn, StoreAnswer, StoreResults, RunOut, CallLlm, Goes, Typed
  <2>2. ~Working(c)'
    BY <2>1 DEF Working
  <2> QED
    BY <1>1, <1>2, <2>1, <2>2 DEF Sinks
<1>4. ASSUME NEW n \in 1 .. MaxUses - round[c], StoreUses(c, n) PROVE Sinks'
  <2>1. reply'[c] = n /\ sink'[c] = <<>> /\ n > 0
    BY <1>4, Numbers DEF StoreUses, Typed
  <2>2. Len(sink'[c]) = 0
    BY <2>1
  <2>3. Len(sink'[c]) < reply'[c] /\ Len(sink'[c]) <= reply'[c] /\ \A i \in 1 .. Len(sink'[c]) : FALSE
    BY <2>1, <2>2, Numbers
  <2> QED
    BY <1>1, <1>2, <2>3 DEF Sinks
<1> QED
  BY <1>3, <1>4\* A turn that begins has a number of its own; one that ends takes it along.
LEMMA OwnersStep ==
    ASSUME Typed, Sinks, Owners, Next
    PROVE  Owners'
<1>0. PICK c \in Conn : StartTurn(c) \/ TurnStep(c) \/ (\E approved \in BOOLEAN : Confirmed(c, approved)) \/ Cut(c)
  BY DEF Next
<1>1. CASE StartTurn(c)
  <2>1. /\ turns' = turns + 1 /\ turn' = [turn EXCEPT ![c] = turns + 1] /\ cut' = cut
        /\ overlapped' = (overlapped \/ Busy # {}) /\ c \notin Busy
        /\ pc' = [pc EXCEPT ![c] = "llm"]
    BY <1>1 DEF StartTurn, CallLlm, Goes, Busy
  <2>2. turn'[c] = turns + 1 /\ \A d \in Busy : d # c /\ turn'[d] = turn[d] /\ turn[d] \in 0 .. turns
    BY <2>1 DEF Typed, Busy
  <2>3. Busy' = Busy \cup {c}
    BY <2>1 DEF Typed, Busy
  <2>4. turns \in Nat /\ (\A k \in 0 .. turns : k # turns + 1 /\ k \in 0 .. turns + 1) /\ turns + 1 # 0
    BY Numbers
  <2>5. \A d \in Busy' : turn'[d] # 0 /\ turn'[d] \notin cut'
    BY <2>1, <2>2, <2>3, <2>4 DEF Owners
  <2>6. \A d, e \in Busy' : d # e => turn'[d] # turn'[e] /\ overlapped'
    <3>1. \A d \in Busy : turn'[d] # turn'[c] /\ overlapped'
      BY <2>1, <2>2, <2>4
    <3>2. \A d, e \in Busy : d # e => turn'[d] # turn'[e] /\ overlapped'
      BY <2>1, <2>2 DEF Owners
    <3> QED
      BY <2>3, <3>1, <3>2
  <2>7. \A k \in cut' : k \in 0 .. turns'
    BY <2>1, <2>4 DEF Owners
  <2> QED
    BY <2>5, <2>6, <2>7 DEF Owners
<1>2. CASE Finish(c) \/ Cut(c)
  <2>1. /\ pc' = [pc EXCEPT ![c] = "idle"] /\ turn' = [turn EXCEPT ![c] = 0] /\ turns' = turns
        /\ overlapped' = overlapped /\ c \in Busy
        /\ cut' = cut \/ cut' = cut \cup {turn[c]}
    BY <1>2, Endings DEF Finish, Cut, Busy
  <2>2. Busy' = Busy \ {c} /\ \A d \in Busy' : turn'[d] = turn[d] /\ d # c
    BY <2>1 DEF Typed, Busy
  <2>3. turn[c] \in 0 .. turns
    BY DEF Typed
  <2> QED
    BY <2>1, <2>2, <2>3 DEF Owners
<1>3. ASSUME UNCHANGED <<turn, turns, cut, overlapped>>, Busy' = Busy PROVE Owners'
  BY <1>3 DEF Owners
<1>4. CASE \/ StoreAnswer(c) \/ StoreResults(c) \/ RunOut(c)
           \/ \E n \in 1 .. MaxUses - round[c] : StoreUses(c, n)
  <2>1. UNCHANGED <<turn, turns, cut, overlapped>> /\ pc[c] # "idle"
    BY <1>4 DEF StoreAnswer, StoreResults, RunOut, StoreUses, history
  <2>2. \E p \in {"llm", "tool_call", "final"} : pc' = [pc EXCEPT ![c] = p]
    BY <1>4 DEF StoreAnswer, StoreResults, RunOut, StoreUses, CallLlm, Goes
  <2>3. Busy' = Busy
    BY <2>1, <2>2 DEF Busy, Typed
  <2> QED
    BY <1>3, <2>1, <2>3
<1>5. CASE ToolCalled(c) \/ (\E approved \in BOOLEAN : Confirmed(c, approved)) \/ HermesDone(c) \/ NextTool(c)
  <2>1. UNCHANGED <<turn, turns, cut, overlapped>> /\ Working(c)
        /\ \E p \in {"tool_call", "confirm", "hermes", "tool_result"} : pc' = [pc EXCEPT ![c] = p]
    BY <1>5, Works
  <2>2. Busy' = Busy
    BY <2>1 DEF Busy, Typed, Working
  <2> QED
    BY <1>3, <2>1, <2>2
<1> QED
  BY <1>0, <1>1, <1>2, <1>4, <1>5 DEF TurnStep

\* Each action leaves each use to one of its fates.
LEMMA FatesSpeak ==
    ASSUME Typed, Sinks, Owners, Fates, SomeTorn, NEW c \in Conn,
           \/ StartTurn(c) \/ StoreAnswer(c) \/ StoreResults(c) \/ RunOut(c)
           \/ \E n \in 1 .. MaxUses - round[c] : StoreUses(c, n)
    PROVE  Fates' /\ SomeTorn'
<1>1. PICK m \in Messages :
         /\ \/ conv' = Append(conv, m)
            \/ /\ RunOut(c)
               /\ \E k \in Messages : conv' = conv \o <<m, k>> /\ k.kind = "text" /\ k.turn = m.turn
         /\ IF StartTurn(c) THEN m.turn = turns + 1 /\ m.kind = "user" ELSE m.turn = turn[c]
         /\ Working(c) => m.kind = "results" /\ m.ids = UseIds(c, reply[c])
         /\ m.kind = "uses" => \E n \in 1 .. MaxUses - round[c] : StoreUses(c, n) /\ m.ids = UseIds(c, n)
  BY Speaks
<1>2. cut' = cut
  BY DEF StartTurn, StoreAnswer, StoreResults, RunOut, StoreUses, history
<1>3. StartTurn(c) => c \notin Busy /\ ~Working(c) /\ overlapped' = (overlapped \/ Busy # {})
  BY DEF StartTurn, Busy, Working
<1>4. ~StartTurn(c) => c \in Busy /\ overlapped' = overlapped
  BY DEF StoreAnswer, StoreResults, RunOut, StoreUses, history, Busy
<1>5. overlapped => overlapped'
  BY <1>3, <1>4
<1>6. Busy \ {c} # {} => overlapped'
  <2> SUFFICES ASSUME NEW d \in Busy, d # c PROVE overlapped'
    OBVIOUS
  <2>1. CASE StartTurn(c)
    BY <1>3, <2>1, Zenon
  <2>2. CASE ~StartTurn(c)
    <3>1. overlapped
      BY <1>4, <2>2 DEF Owners
    <3> QED
      BY <1>4, <2>2, <3>1, Zenon
  <2> QED
    BY <2>1, <2>2
<1>7. m.turn \notin cut /\ \A d \in Busy : d # c => turn[d] # m.turn
  <2>1. CASE StartTurn(c)
    <3>1. \A k \in 0 .. turns : k # turns + 1
      BY Numbers
    <3>2. \A d \in Busy : turn[d] \in 0 .. turns
      BY DEF Typed, Busy
    <3> QED
      BY <1>1, <2>1, <3>1, <3>2 DEF Owners
  <2>2. CASE ~StartTurn(c)
    BY <1>1, <1>4, <2>2 DEF Owners
  <2> QED
    BY <2>1, <2>2
<1>8. Working(c) => m.kind = "results" /\ m.turn = turn[c] /\ m.ids = UseIds(c, reply[c])
  BY <1>1, <1>3
<1>9. ASSUME m.kind = "uses" PROVE Owed(m)' /\ Len(conv') = Len(conv) + 1
  <2>1. PICK n \in 1 .. MaxUses - round[c] : StoreUses(c, n) /\ m.ids = UseIds(c, n)
    BY <1>1, <1>9
  <2>2. /\ pc'[c] = "tool_call" /\ turn' = turn /\ round' = round /\ reply'[c] = n
        /\ ~RunOut(c) /\ ~StartTurn(c)
    BY <2>1 DEF StoreUses, RunOut, StartTurn, Goes, Typed
  <2>3. conv' = Append(conv, m) /\ m.turn = turn[c]
    BY <1>1, <2>2
  <2>4. Len(conv') = Len(conv) + 1
    BY <2>3, AppendProperties DEF Typed
  <2>5. UseIds(c, reply[c])' = UseIds(c, n)
    BY <2>2 DEF UseIds
  <2>6. Working(c)'
    BY <2>2 DEF Working
  <2> QED
    BY <2>1, <2>2, <2>3, <2>4, <2>5, <2>6 DEF Owed
<1>10. \/ conv' = Append(conv, m)
       \/ \E k \in Messages : conv' = conv \o <<m, k>> /\ k.kind = "text" /\ k.turn = m.turn
  BY <1>1
<1>11. /\ Fates'
       /\ \A i \in DOMAIN conv : Torn(i) => Torn(i)' /\ i \in DOMAIN conv'
       /\ conv'[Len(conv')].kind = "uses" => m.kind = "uses"
  BY <1>2, <1>5, <1>6, <1>7, <1>8, <1>9, <1>10, FatesGrow
<1>12. conv' \in Seq(Messages) /\ \A i \in DOMAIN conv : conv'[i] = conv[i]
  BY <1>10, Grown
<1>13. unpaired # {} => \E i \in DOMAIN conv' : conv'[i].kind = "uses" /\ Torn(i)'
  BY <1>11, <1>12 DEF SomeTorn
<1>14. CASE StartTurn(c) \/ StoreResults(c)
  <2>1. unpaired' = IF WellPaired(conv') THEN unpaired \ {c} ELSE unpaired \cup {c}
    BY <1>14 DEF StartTurn, StoreResults, CallLlm
  <2>2. m.kind # "uses"
    BY <1>1, <1>14 DEF StartTurn, StoreResults, StoreUses
  <2>3. ~WellPaired(conv') => \E i \in DOMAIN conv' : conv'[i].kind = "uses" /\ Torn(i)'
    BY <1>11, <1>12, <2>2, SentTorn
  <2>4. unpaired' # {} => \E i \in DOMAIN conv' : conv'[i].kind = "uses" /\ Torn(i)'
    BY <1>13, <2>1, <2>3
  <2> QED
    BY <1>11, <2>4 DEF SomeTorn
<1>15. CASE StoreAnswer(c) \/ RunOut(c) \/ \E n \in 1 .. MaxUses - round[c] : StoreUses(c, n)
  <2>1. unpaired' = unpaired
    BY <1>15 DEF StoreAnswer, RunOut, StoreUses, history
  <2> QED
    BY <1>11, <1>13, <2>1 DEF SomeTorn
<1> QED
  BY <1>14, <1>15

LEMMA FatesRest ==
    ASSUME Typed, Sinks, Fates, SomeTorn, NEW c \in Conn,
           \/ ToolCalled(c) \/ (\E approved \in BOOLEAN : Confirmed(c, approved)) \/ HermesDone(c) \/ NextTool(c)
           \/ Finish(c) \/ Cut(c)
    PROVE  Fates' /\ SomeTorn'
<1>1. CASE ToolCalled(c) \/ (\E approved \in BOOLEAN : Confirmed(c, approved)) \/ HermesDone(c) \/ NextTool(c)
  <2>1. UNCHANGED <<conv, turn, round, reply, unpaired, overlapped, cut>>
        /\ \E p \in {"tool_call", "confirm", "hermes", "tool_result"} : pc' = [pc EXCEPT ![c] = p]
    BY <1>1, Works
  <2>2. \A d \in Conn : Working(d) => Working(d)'
    BY <2>1 DEF Working, Typed
  <2> QED
    BY <2>1, <2>2, FatesQuiet
<1>2. CASE Finish(c) \/ Cut(c)
  <2>1. /\ conv' = conv /\ overlapped' = overlapped /\ unpaired' = unpaired \ {c}
        /\ pc' = [pc EXCEPT ![c] = "idle"] /\ turn' = [turn EXCEPT ![c] = 0]
        /\ round' = [round EXCEPT ![c] = 0] /\ reply' = [reply EXCEPT ![c] = 0]
    BY <1>2, Endings DEF Finish, Cut, Ends
  <2>2. \A d \in Conn : d # c => /\ pc'[d] = pc[d] /\ turn'[d] = turn[d] /\ round'[d] = round[d]
                                 /\ reply'[d] = reply[d]
    BY <2>1 DEF Typed
  <2>3. \A d \in Conn : d # c /\ Working(d) => Working(d)'
    BY <2>2 DEF Working
  <2>4. cut \subseteq cut' /\ (Working(c) => turn[c] \in cut')
    BY <1>2 DEF Finish, Cut, Working
  <2> QED
    BY <2>1, <2>2, <2>3, <2>4, FatesQuiet
<1> QED
  BY <1>1, <1>2\* Results leave the sink for the conversation, or go with a turn that is cut off.
LEMMA RecordedStep ==
    ASSUME Typed, Sinks, Owners, Recorded, Next
    PROVE  Recorded'
<1>0. PICK c \in Conn : StartTurn(c) \/ TurnStep(c) \/ (\E approved \in BOOLEAN : Confirmed(c, approved)) \/ Cut(c)
  BY DEF Next
<1>1. ASSUME cut' = cut, unrecorded' \subseteq unrecorded, ~Working(c) \/ unrecorded' = unrecorded \ ToSet(sink[c]),
             \A d \in Conn : d # c => pc'[d] = pc[d] /\ sink'[d] = sink[d]
      PROVE  Recorded'
  <2> SUFFICES ASSUME NEW id \in unrecorded', id[1] \notin cut
               PROVE  \E d \in Conn : Working(d)' /\ id \in ToSet(sink[d])'
    BY <1>1 DEF Recorded
  <2>1. PICK d \in Conn : Working(d) /\ id \in ToSet(sink[d])
    BY <1>1 DEF Recorded
  <2>2. d # c
    BY <1>1, <2>1
  <2>3. ToSet(sink[d])' = ToSet(sink[d]) /\ Working(d)' = Working(d)
    BY <1>1, <2>2 DEF ToSet, Working
  <2> QED
    BY <2>1, <2>3
<1>2. CASE StartTurn(c) \/ StoreAnswer(c) \/ \E n \in 1 .. MaxUses - round[c] : StoreUses(c, n)
  <2>1. cut' = cut /\ unrecorded' = unrecorded /\ ~Working(c)
    BY <1>2 DEF StartTurn, StoreAnswer, StoreUses, history, Working
  <2>2. \A d \in Conn : d # c => pc'[d] = pc[d] /\ sink'[d] = sink[d]
    BY <1>2 DEF StartTurn, StoreAnswer, StoreUses, CallLlm, Goes, Typed
  <2> QED
    BY <1>1, <2>1, <2>2
<1>3. CASE StoreResults(c) \/ RunOut(c)
  <2>1. cut' = cut /\ unrecorded' = unrecorded \ ToSet(sink[c])
    BY <1>3 DEF StoreResults, RunOut
  <2>2. \A d \in Conn : d # c => pc'[d] = pc[d] /\ sink'[d] = sink[d]
    BY <1>3 DEF StoreResults, RunOut, CallLlm, Goes, Typed
  <2> QED
    BY <1>1, <2>1, <2>2
<1>4. CASE Finish(c)
  <2>1. cut' = cut /\ unrecorded' = unrecorded /\ ~Working(c)
    BY <1>4 DEF Finish, Working
  <2>2. \A d \in Conn : d # c => pc'[d] = pc[d] /\ sink'[d] = sink[d]
    BY <1>4, Endings DEF Finish, Typed
  <2> QED
    BY <1>1, <2>1, <2>2
<1>5. CASE Cut(c)
  <2>1. /\ cut' = cut \cup {turn[c]} /\ unrecorded' = unrecorded
        /\ \A d \in Conn : d # c => pc'[d] = pc[d] /\ sink'[d] = sink[d]
    BY <1>5, Endings DEF Cut, Typed
  <2>2. ASSUME NEW id \in unrecorded', id[1] \notin cut'
        PROVE  \E d \in Conn : Working(d)' /\ id \in ToSet(sink[d])'
    <3>1. PICK d \in Conn : Working(d) /\ id \in ToSet(sink[d])
      BY <2>1, <2>2 DEF Recorded
    <3>2. CASE d = c
      <4>1. PICK s \in Seq(UseIdent) : s = sink[c]
        BY DEF Typed
      <4>2. DOMAIN s = 1 .. Len(s)
        BY LenProperties
      <4>3. \A i \in 1 .. Len(s) : s[i] = <<turn[c], round[c], i>>
        BY <3>1, <3>2, <4>1 DEF Sinks
      <4>4. PICK i \in 1 .. Len(s) : id = s[i]
        BY <3>1, <3>2, <4>1, <4>2 DEF ToSet
      <4>5. id[1] = turn[c]
        BY <4>3, <4>4
      <4> QED
        BY <2>1, <2>2, <4>5
    <3>3. CASE d # c
      <4>1. ToSet(sink[d])' = ToSet(sink[d]) /\ Working(d)' = Working(d)
        BY <2>1, <3>3 DEF ToSet, Working
      <4> QED
        BY <3>1, <4>1
    <3> QED
      BY <3>2, <3>3
  <2> QED
    BY <2>2 DEF Recorded
<1>6. CASE ToolCalled(c) \/ (\E approved \in BOOLEAN : Confirmed(c, approved)) \/ HermesDone(c) \/ NextTool(c)
  <2>1. /\ Working(c) /\ Len(sink[c]) < reply[c] /\ cut' = cut
        /\ \/ sink' = sink /\ \E p \in {"tool_call", "confirm", "hermes"} : pc' = [pc EXCEPT ![c] = p]
           \/ sink' = [sink EXCEPT ![c] = Append(@, UseId(c))] /\ pc' = [pc EXCEPT ![c] = "tool_result"]
        /\ \/ unrecorded' = unrecorded
           \/ /\ unrecorded' = unrecorded \cup {UseId(c)}
              /\ sink' = [sink EXCEPT ![c] = Append(@, UseId(c))]
    BY <1>6, Works
  <2>2. PICK s : s = Append(sink[c], UseId(c))
    OBVIOUS
  <2>3. ToSet(s) = ToSet(sink[c]) \cup {UseId(c)}
    BY <2>1, <2>2, OneMore
  <2>4. \A d \in Conn : Working(d) => Working(d)'
    BY <2>1 DEF Working, Typed
  <2>5. \A d \in Conn : sink'[d] = sink[d] \/ (d = c /\ sink'[d] = s)
    BY <2>1, <2>2 DEF Typed
  <2>6. \A d \in Conn : ToSet(sink[d]) \subseteq ToSet(sink[d])'
    <3> SUFFICES ASSUME NEW d \in Conn PROVE ToSet(sink[d]) \subseteq ToSet(sink'[d])
      BY DEF ToSet
    <3> QED
      BY <2>3, <2>5
  <2>7. ASSUME NEW id \in unrecorded', id \notin unrecorded PROVE id \in ToSet(sink'[c])
    <3>1. id = UseId(c) /\ sink'[c] = s
      BY <2>1, <2>2, <2>7 DEF Typed
    <3> QED
      BY <2>3, <3>1
  <2>8. ASSUME NEW id \in unrecorded', id[1] \notin cut
        PROVE  \E d \in Conn : Working(d)' /\ id \in ToSet(sink'[d])
    <3>1. CASE id \in unrecorded
      <4>1. PICK d \in Conn : Working(d) /\ id \in ToSet(sink[d])
        BY <2>8, <3>1 DEF Recorded
      <4> QED
        BY <2>4, <2>6, <4>1 DEF ToSet
    <3>2. CASE id \notin unrecorded
      BY <2>1, <2>4, <2>7, <3>2
    <3> QED
      BY <3>1, <3>2
  <2> QED
    BY <2>1, <2>8 DEF Recorded, ToSet
<1> QED
  BY <1>0, <1>2, <1>3, <1>4, <1>5, <1>6 DEF TurnStep

-----------------------------------------------------------------------------
LEMMA SessionStart ==
    ASSUME Init
    PROVE  SessionIInv
<1>1. Typed
  <2>1. 0 \in 0 .. MaxRounds - 1 /\ 0 \in 0 .. MaxUses /\ 0 \in 0 .. MaxTurns /\ 0 \in 0 .. 0
    BY SessionAssumption
  <2>2. <<>> \in Seq(UseIdent) /\ <<>> \in Seq(Messages) /\ DOMAIN <<>> = {}
    BY EmptySeq
  <2>3. conv \in Seq(Messages) /\ \A i \in DOMAIN conv : conv[i].turn \in 1 .. turns
    BY <2>2 DEF Init
  <2> QED
    BY <2>1, <2>2, <2>3 DEF Init, Typed
<1>2. Sinks
  <2>1. \A c \in Conn : ~Working(c) /\ sink[c] = <<>> /\ reply[c] = 0
    BY DEF Init, Working
  <2>2. Len(<<>>) <= 0
    OBVIOUS
  <2> QED
    BY <2>1, <2>2 DEF Sinks
<1>3. Owners
  BY DEF Init, Owners, Busy
<1>4. Fates /\ SomeTorn /\ Recorded
  <2>1. \A i \in DOMAIN conv : FALSE
    BY DEF Init
  <2> QED
    BY <2>1 DEF Init, Fates, SomeTorn, Recorded
<1> QED
  BY <1>1, <1>2, <1>3, <1>4 DEF SessionIInv

LEMMA SessionStep ==
    ASSUME SessionIInv, [Next]_vars
    PROVE  SessionIInv'
<1>0. Typed /\ Sinks /\ Owners /\ Fates /\ SomeTorn /\ Recorded
  BY DEF SessionIInv
<1>1. CASE Next
  <2>1. PICK c \in Conn : StartTurn(c) \/ TurnStep(c) \/ (\E approved \in BOOLEAN : Confirmed(c, approved)) \/ Cut(c)
    BY <1>1 DEF Next
  <2>2. Owners' /\ Recorded'
    BY <1>0, <1>1, OwnersStep, RecordedStep
  <2>3. CASE \/ StartTurn(c) \/ StoreAnswer(c) \/ StoreResults(c) \/ RunOut(c)
             \/ \E n \in 1 .. MaxUses - round[c] : StoreUses(c, n)
    <3>1. Typed' /\ Sinks'
      BY <1>0, <2>3, TypedSpeak, SinksSpeak
    <3>2. Fates' /\ SomeTorn'
      BY <1>0, <2>3, FatesSpeak
    <3> QED
      BY <2>2, <3>1, <3>2 DEF SessionIInv
  <2>4. CASE \/ ToolCalled(c) \/ (\E approved \in BOOLEAN : Confirmed(c, approved)) \/ HermesDone(c) \/ NextTool(c)
             \/ Finish(c) \/ Cut(c)
    <3>1. Typed' /\ Sinks'
      BY <1>0, <2>4, TypedWork, TypedEnd
    <3>2. Fates' /\ SomeTorn'
      BY <1>0, <2>4, FatesRest
    <3> QED
      BY <2>2, <3>1, <3>2 DEF SessionIInv
  <2> QED
    BY <2>1, <2>3, <2>4 DEF TurnStep
<1>2. CASE UNCHANGED vars
  <2>1. UNCHANGED <<conv, pc, turn, round, reply, sink, turns, unpaired, overlapped, cut, unrecorded>>
    BY <1>2 DEF vars, turnVars, history
  <2>2. Typed' /\ Owners'
    BY <1>0, <2>1 DEF Typed, Owners, Busy
  <2>3. Sinks' /\ Recorded'
    BY <1>0, <2>1 DEF Sinks, Recorded, Working, ToSet
  <2>4. \A d \in Conn : Working(d) => Working(d)'
    BY <2>1 DEF Working
  <2>5. Fates' /\ SomeTorn'
    BY <1>0, <2>1, <2>4, FatesQuiet
  <2> QED
    BY <2>2, <2>3, <2>5 DEF SessionIInv
<1> QED
  BY <1>1, <1>2

\* The invariant that carries the rest: at every await each use of the session is
\* answered, torn apart by an overlap or a cut, or the last message and owed.
THEOREM SessionIInvThm == Spec => []SessionIInv
<1>1. Init => SessionIInv
  BY SessionStart
<1>2. SessionIInv /\ [Next]_vars => SessionIInv'
  BY SessionStep
<1> QED
  BY <1>1, <1>2, PTL DEF Spec

\* run_events keeps uses and results together except where turns of one session
\* overlap or are cut off, and what Hermes did comes on record.
THEOREM SessionThm == Spec => []SessionInv
<1>1. SessionIInv => SessionInv
  <2> SUFFICES ASSUME SessionIInv PROVE SessionInv
    OBVIOUS
  <2>0. Typed /\ Sinks /\ Owners /\ SomeTorn /\ Recorded
    BY DEF SessionIInv
  <2>1. TypeOK
    <3>1. \A c \in Conn : reply[c] \in 0 .. MaxUses /\ Len(sink[c]) \in Nat /\ Len(sink[c]) <= reply[c]
      BY <2>0, Numbers DEF Typed, Sinks
    <3>2. \A c \in Conn : reply[c] \in 0 .. MaxUses /\ Len(sink[c]) <= MaxUses
      BY <3>1, SessionAssumption
    <3>3. turn \in [Conn -> 0 .. MaxTurns]
      <4>1. \A c \in Conn : turn[c] \in 0 .. turns /\ turns \in 0 .. MaxTurns
        BY <2>0 DEF Typed
      <4>2. \A c \in Conn : turn[c] \in 0 .. MaxTurns
        BY <4>1, SessionAssumption
      <4> QED
        BY <2>0, <4>2 DEF Typed
    <3>4. \A i \in DOMAIN conv :
             conv[i].turn \in 1 .. turns /\ conv[i].kind \in {"user", "uses", "results", "text"}
      <4>1. \A i \in DOMAIN conv : conv[i] \in Messages
        BY <2>0, LenProperties DEF Typed
      <4> QED
        BY <2>0, <4>1 DEF Typed, Messages
    <3> QED
      BY <2>0, <3>2, <3>3, <3>4 DEF Typed, TypeOK
  <2>2. CallsArePaired
    <3> SUFFICES ASSUME unpaired # {}
                 PROVE  \E i \in 1 .. Len(conv) - 1 :
                           /\ conv[i].kind = "uses" /\ conv[i + 1].turn # conv[i].turn
                           /\ overlapped \/ conv[i].turn \in cut
      BY DEF CallsArePaired
    <3>1. PICK i \in DOMAIN conv : conv[i].kind = "uses" /\ Torn(i)
      BY <2>0 DEF SomeTorn
    <3>2. DOMAIN conv = 1 .. Len(conv) /\ Len(conv) \in Nat
      BY <2>0, LenProperties DEF Typed
    <3>3. i < Len(conv)
      BY <3>1 DEF Torn
    <3>4. i \in 1 .. Len(conv) - 1
      BY <3>2, <3>3
    <3> QED
      BY <3>1, <3>4 DEF Torn
  <2>3. WorkOnRecord
    BY <2>0 DEF Recorded, WorkOnRecord, Busy, Working
  <2> QED
    BY <2>1, <2>2, <2>3 DEF SessionInv
<1> QED
  BY <1>1, SessionIInvThm, PTL

-----------------------------------------------------------------------------
(* Each turn for itself. *)

Entry == [kind : {"user", "uses", "results", "text"}, ids : Seq(UseIdent)]

\* The positions of what turn k said, and how many of them come up to i.
Of(s, k) == {i \in DOMAIN s : s[i].turn = k}
UpTo(s, k, i) == {j \in Of(s, k) : j <= i}

\* Every number has its message.
Counted(s, k) ==
    \A n \in 1 .. Cardinality(Of(s, k)) : \E i \in Of(s, k) : Cardinality(UpTo(s, k, i)) = n

Nth(s, k, n) == CHOOSE i \in Of(s, k) : Cardinality(UpTo(s, k, i)) = n

Entered(m) == [kind |-> m.kind, ids |-> m.ids]

LEMMA OfFinite ==
    ASSUME NEW s \in Seq(Messages), NEW k \in Nat
    PROVE  /\ IsFiniteSet(Of(s, k)) /\ Cardinality(Of(s, k)) \in Nat
           /\ \A i \in Of(s, k) : /\ IsFiniteSet(UpTo(s, k, i)) /\ Cardinality(UpTo(s, k, i)) \in Nat
                                  /\ Cardinality(UpTo(s, k, i)) <= Cardinality(Of(s, k))
<1>1. DOMAIN s = 1 .. Len(s) /\ Len(s) \in Nat
  BY LenProperties
<1>2. IsFiniteSet(1 .. Len(s))
  BY <1>1, FS_Interval
<1>3. Of(s, k) \subseteq 1 .. Len(s)
  BY <1>1 DEF Of
<1>4. IsFiniteSet(Of(s, k))
  BY <1>2, <1>3, FS_Subset
<1>5. \A i \in Of(s, k) : UpTo(s, k, i) \subseteq Of(s, k)
  BY DEF UpTo
<1>6. \A i \in Of(s, k) : IsFiniteSet(UpTo(s, k, i)) /\ Cardinality(UpTo(s, k, i)) <= Cardinality(Of(s, k))
  BY <1>4, <1>5, FS_Subset
<1> QED
  BY <1>4, <1>6, FS_CardinalityType

\* What turn k said, in its order.
LEMMA SaidTyped ==
    ASSUME NEW s \in Seq(Messages), NEW k \in Nat, Counted(s, k)
    PROVE  /\ Said(s, k) \in Seq(Entry) /\ Len(Said(s, k)) = Cardinality(Of(s, k))
           /\ \A n \in 1 .. Cardinality(Of(s, k)) :
                 /\ Nth(s, k, n) \in Of(s, k) /\ Cardinality(UpTo(s, k, Nth(s, k, n))) = n
                 /\ Said(s, k)[n] = Entered(s[Nth(s, k, n)])
<1>1. \A n \in 1 .. Cardinality(Of(s, k)) :
         Nth(s, k, n) \in Of(s, k) /\ Cardinality(UpTo(s, k, Nth(s, k, n))) = n
  <2> SUFFICES ASSUME NEW n \in 1 .. Cardinality(Of(s, k))
               PROVE  Nth(s, k, n) \in Of(s, k) /\ Cardinality(UpTo(s, k, Nth(s, k, n))) = n
    OBVIOUS
  <2>1. \E i \in Of(s, k) : Cardinality(UpTo(s, k, i)) = n
    BY DEF Counted
  <2> QED
    BY <2>1, Zenon DEF Nth
<1>2. PICK c \in Nat : c = Cardinality(Of(s, k))
  BY OfFinite
<1>3. PICK q : q = Said(s, k)
  OBVIOUS
<1>4. q = [n \in 1 .. c |-> Entered(s[Nth(s, k, n)])]
  BY <1>2, <1>3, Zenon DEF Said, Of, UpTo, Nth, Entered
<1>5. \A i \in Of(s, k) : s[i] \in Messages
  BY LenProperties DEF Of
<1>6. \A n \in 1 .. c : Entered(s[Nth(s, k, n)]) \in Entry
  BY <1>1, <1>2, <1>5 DEF Entered, Entry, Messages
<1>7. q \in [1 .. c -> Entry] /\ \A n \in 1 .. c : q[n] = Entered(s[Nth(s, k, n)])
  BY <1>4, <1>6
<1>8. q \in Seq(Entry)
  BY <1>2, <1>7, SeqDef
<1>9. Len(q) = c
  BY <1>2, <1>7, <1>8, LenProperties
<1> QED
  BY <1>1, <1>2, <1>3, <1>7, <1>8, <1>9

\* One more message is one more thing said by its turn, and by no other.
LEMMA SaidGrows ==
    ASSUME NEW s \in Seq(Messages), NEW m \in Messages, NEW k \in Nat, Counted(s, k)
    PROVE  /\ Counted(Append(s, m), k)
           /\ m.turn # k => Said(Append(s, m), k) = Said(s, k)
           /\ m.turn = k => Said(Append(s, m), k) = Append(Said(s, k), Entered(m))
<1>1. PICK t : t = Append(s, m)
  OBVIOUS
<1>2. PICK N \in Nat : N = Len(s)
  BY LenProperties
<1>3. /\ t \in Seq(Messages) /\ Len(t) = N + 1 /\ t[N + 1] = m /\ \A i \in 1 .. N : t[i] = s[i]
      /\ DOMAIN t = 1 .. N + 1 /\ DOMAIN s = 1 .. N
  BY <1>1, <1>2, AppendProperties, LenProperties
<1>4. PICK O, c : O = Of(s, k) /\ c = Cardinality(O)
  OBVIOUS
<1>5. IsFiniteSet(O) /\ c \in Nat /\ O \subseteq 1 .. N
  BY <1>3, <1>4, OfFinite DEF Of
<1>6. \A i \in 1 .. N + 1 : i = N + 1 \/ i \in 1 .. N
  OBVIOUS
<1>7. \A i \in 1 .. N : i \in 1 .. N + 1 /\ ~(N + 1 <= i) /\ i <= N + 1 /\ i # N + 1
  OBVIOUS
<1>8. /\ Said(s, k) \in Seq(Entry) /\ Len(Said(s, k)) = c
      /\ \A n \in 1 .. c :
            /\ Nth(s, k, n) \in O /\ Cardinality(UpTo(s, k, Nth(s, k, n))) = n
            /\ Said(s, k)[n] = Entered(s[Nth(s, k, n)])
  BY <1>4, SaidTyped
<1>9. ASSUME m.turn # k PROVE Counted(t, k) /\ Said(t, k) = Said(s, k)
  <2>1. Of(t, k) = O
    BY <1>3, <1>4, <1>6, <1>7, <1>9 DEF Of
  <2>2. \A i \in O : UpTo(t, k, i) = UpTo(s, k, i)
    BY <1>4, <2>1 DEF UpTo
  <2>3. Counted(t, k)
    BY <1>4, <2>1, <2>2 DEF Counted
  <2>4. /\ Said(t, k) \in Seq(Entry) /\ Len(Said(t, k)) = c
        /\ \A n \in 1 .. c :
              /\ Nth(t, k, n) \in O /\ Cardinality(UpTo(t, k, Nth(t, k, n))) = n
              /\ Said(t, k)[n] = Entered(t[Nth(t, k, n)])
    BY <1>3, <1>4, <2>1, <2>3, SaidTyped
  <2>5. \A n \in 1 .. c : Nth(t, k, n) = Nth(s, k, n)
    BY <1>4, <2>1, <2>2, Zenon DEF Nth, UpTo
  <2>6. \A n \in 1 .. c : Said(t, k)[n] = Said(s, k)[n]
    BY <1>3, <1>5, <1>8, <2>4, <2>5
  <2> QED
    BY <1>8, <2>3, <2>4, <2>6, SeqEqual
<1>10. ASSUME m.turn = k PROVE Counted(t, k) /\ Said(t, k) = Append(Said(s, k), Entered(m))
  <2>1. Of(t, k) = O \cup {N + 1} /\ N + 1 \notin O
    BY <1>3, <1>4, <1>5, <1>6, <1>7, <1>10 DEF Of
  <2>2. Cardinality(Of(t, k)) = c + 1
    BY <1>4, <1>5, <2>1, FS_AddElement
  <2>3. \A i \in O : UpTo(t, k, i) = UpTo(s, k, i)
    BY <1>4, <1>5, <1>7, <2>1 DEF UpTo
  <2>4. UpTo(t, k, N + 1) = Of(t, k)
    <3>1. \A j \in Of(t, k) : j <= N + 1
      <4>1. N + 1 <= N + 1
        OBVIOUS
      <4>2. \A j \in O : j <= N + 1
        BY <1>5, <1>7
      <4> QED
        BY <2>1, <4>1, <4>2
    <3> QED
      BY <3>1 DEF UpTo
  <2>5. \A n \in 1 .. c + 1 : n \in 1 .. c \/ n = c + 1
    BY <1>5
  <2>6. Counted(t, k)
    <3>1. ASSUME NEW n \in 1 .. c PROVE \E i \in Of(t, k) : Cardinality(UpTo(t, k, i)) = n
      BY <1>8, <2>1, <2>3
    <3>2. \E i \in Of(t, k) : Cardinality(UpTo(t, k, i)) = c + 1
      BY <2>1, <2>2, <2>4
    <3> QED
      BY <2>2, <2>5, <3>1, <3>2 DEF Counted
  <2>7. /\ Said(t, k) \in Seq(Entry) /\ Len(Said(t, k)) = c + 1
        /\ \A n \in 1 .. c + 1 :
              /\ Nth(t, k, n) \in Of(t, k) /\ Cardinality(UpTo(t, k, Nth(t, k, n))) = n
              /\ Said(t, k)[n] = Entered(t[Nth(t, k, n)])
    BY <1>3, <2>2, <2>6, SaidTyped
  <2>8. \A i \in O : Cardinality(UpTo(s, k, i)) <= c /\ Cardinality(UpTo(s, k, i)) \in Nat
    BY <1>4, OfFinite
  <2>9. Nth(t, k, c + 1) = N + 1
    <3>1. PICK x : x = Nth(t, k, c + 1)
      OBVIOUS
    <3>2. c + 1 \in 1 .. c + 1
      BY <1>5
    <3>3. x \in Of(t, k) /\ Cardinality(UpTo(t, k, x)) = c + 1
      BY <2>7, <3>1, <3>2
    <3>4. x \notin O
      <4>1. SUFFICES ASSUME x \in O PROVE FALSE
        OBVIOUS
      <4>2. Cardinality(UpTo(s, k, x)) = c + 1 /\ Cardinality(UpTo(s, k, x)) <= c
        BY <2>3, <2>8, <3>3, <4>1
      <4> QED
        BY <1>5, <4>2
    <3> QED
      BY <2>1, <3>1, <3>3, <3>4
  <2>10. ASSUME NEW n \in 1 .. c PROVE Nth(t, k, n) = Nth(s, k, n)
    <3>1. Cardinality(UpTo(t, k, N + 1)) # n
      BY <1>5, <2>2, <2>4
    <3>2. \A i : (i \in Of(t, k) /\ Cardinality(UpTo(t, k, i)) = n) <=> (i \in Of(s, k) /\ Cardinality(UpTo(s, k, i)) = n)
      BY <1>4, <2>1, <2>3, <3>1
    <3> QED
      BY <3>2, Zenon DEF Nth
  <2>11. PICK q \in Seq(Entry) : q = Said(s, k)
    BY <1>8
  <2>12. Entered(m) \in Entry
    BY DEF Entered, Entry, Messages
  <2>13. PICK r : r = Append(q, Entered(m))
    OBVIOUS
  <2>14. /\ r \in Seq(Entry) /\ Len(r) = c + 1 /\ r[c + 1] = Entered(m)
         /\ \A n \in 1 .. c : r[n] = q[n]
    BY <1>8, <2>11, <2>12, <2>13, AppendProperties
  <2>15. \A n \in 1 .. c : Said(t, k)[n] = r[n]
    <3> SUFFICES ASSUME NEW n \in 1 .. c PROVE Said(t, k)[n] = r[n]
      OBVIOUS
    <3>1. Said(t, k)[n] = Entered(t[Nth(s, k, n)]) /\ n \in 1 .. c + 1
      BY <1>5, <2>7, <2>10
    <3>2. Nth(s, k, n) \in 1 .. N
      BY <1>5, <1>8
    <3> QED
      BY <1>3, <1>8, <2>11, <2>14, <3>1, <3>2
  <2>16. Said(t, k)[c + 1] = r[c + 1]
    <3>1. c + 1 \in 1 .. c + 1
      BY <1>5
    <3> QED
      BY <1>3, <2>7, <2>9, <2>14, <3>1
  <2>17. Said(t, k) = r
    BY <2>5, <2>7, <2>14, <2>15, <2>16, SeqEqual
  <2> QED
    BY <2>6, <2>11, <2>13, <2>17
<1> QED
  BY <1>1, <1>9, <1>10
-----------------------------------------------------------------------------
(* Each turn is a dialogue. *)

\* Where the turn of c is in its dialogue.
InStep(c) ==
    /\ pc[c] = "idle" => round[c] = 0
    /\ pc[c] = "llm" => /\ Len(Sayings[turn[c]]) = 2 * round[c] + 1
                        /\ Last(Sayings[turn[c]]).kind \in {"user", "results"}
    /\ Working(c) => /\ Len(Sayings[turn[c]]) = 2 * round[c] + 2
                     /\ Last(Sayings[turn[c]]) = [kind |-> "uses", ids |-> UseIds(c, reply[c])]

SaidInv ==
    /\ \A k \in Turn : Counted(conv, k) /\ (k > turns => Sayings[k] = <<>>)
    /\ \A c \in Conn : InStep(c)

\* A sequence that grows at its end.
LEMMA Grows ==
    ASSUME NEW S, NEW q \in Seq(S), NEW e \in S
    PROVE  /\ Append(q, e) \in Seq(S) /\ Append(q, e) # <<>> /\ Last(Append(q, e)) = e
           /\ Len(Append(q, e)) = Len(q) + 1 /\ Len(q) \in Nat
<1>1. PICK s : s = Append(q, e)
  OBVIOUS
<1>2. s \in Seq(S) /\ Len(s) = Len(q) + 1 /\ s[Len(q) + 1] = e /\ Len(q) \in Nat
  BY <1>1, AppendProperties, LenProperties
<1>3. s # <<>>
  BY <1>2, EmptySeq
<1>4. Last(s) = e
  BY <1>2 DEF Last
<1> QED
  BY <1>1, <1>2, <1>3, <1>4

LEMMA GrowsTwice ==
    ASSUME NEW S, NEW q \in Seq(S), NEW a \in S, NEW b \in S
    PROVE  q \o <<a, b>> = Append(Append(q, a), b)
<1>1. PICK s, r, n : s = q \o <<a, b>> /\ r = Append(q, a) /\ n = Len(q)
  OBVIOUS
<1>2. PICK t : t = Append(r, b)
  OBVIOUS
<1>3. <<a, b>> \in Seq(S) /\ Len(<<a, b>>) = 2 /\ <<a, b>>[1] = a /\ <<a, b>>[2] = b
  OBVIOUS
<1>4. n \in Nat
  BY <1>1, LenProperties
<1>5. /\ r \in Seq(S) /\ Len(r) = n + 1 /\ r[n + 1] = a /\ \A i \in 1 .. n : r[i] = q[i]
  BY <1>1, AppendProperties
<1>6. t \in Seq(S) /\ Len(t) = n + 2 /\ t[n + 2] = b /\ \A i \in 1 .. n + 1 : t[i] = r[i]
  <2>1. t \in Seq(S) /\ Len(t) = Len(r) + 1 /\ t[Len(r) + 1] = b /\ \A i \in 1 .. Len(r) : t[i] = r[i]
    BY <1>2, <1>5, AppendProperties
  <2> QED
    BY <1>4, <1>5, <2>1
<1>7. /\ s \in Seq(S) /\ Len(s) = n + 2
      /\ \A i \in 1 .. n + 2 : s[i] = IF i <= n THEN q[i] ELSE <<a, b>>[i - n]
  BY <1>1, <1>3, ConcatProperties
<1>8. \A i \in 1 .. n + 2 : \/ i \in 1 .. n /\ i \in 1 .. n + 1 /\ i <= n
                            \/ i = n + 1 /\ i \in 1 .. n + 1 /\ ~(i <= n) /\ i - n = 1
                            \/ i = n + 2 /\ ~(i <= n) /\ i - n = 2
  BY <1>4
<1>9. ASSUME NEW i \in 1 .. n + 2 PROVE s[i] = t[i]
  <2>1. CASE i \in 1 .. n /\ i \in 1 .. n + 1 /\ i <= n
    BY <1>5, <1>6, <1>7, <2>1
  <2>2. CASE i = n + 1 /\ i \in 1 .. n + 1 /\ ~(i <= n) /\ i - n = 1
    BY <1>3, <1>5, <1>6, <1>7, <2>2
  <2>3. CASE i = n + 2 /\ ~(i <= n) /\ i - n = 2
    BY <1>3, <1>6, <1>7, <2>3
  <2> QED
    BY <1>8, <2>1, <2>2, <2>3
<1>10. s = t
  BY <1>6, <1>7, <1>9, SeqEqual
<1> QED
  BY <1>1, <1>2, <1>10

All(s) == [j \in Turn |-> Said(s, j)]

\* A message of turn k is one more thing said by it.
LEMMA SaysMore ==
    ASSUME NEW s \in Seq(Messages), NEW m \in Messages, m.turn \in Turn, \A j \in Turn : Counted(s, j)
    PROVE  /\ Append(s, m) \in Seq(Messages) /\ \A j \in Turn : Counted(Append(s, m), j)
           /\ All(s) \in [Turn -> Seq(Entry)] /\ Entered(m) \in Entry
           /\ All(Append(s, m)) = [All(s) EXCEPT ![m.turn] = Append(@, Entered(m))]
<1>1. Turn \subseteq Nat
  BY SessionAssumption DEF Turn
<1>2. PICK t : t = Append(s, m)
  OBVIOUS
<1>3. t \in Seq(Messages)
  BY <1>2, AppendProperties
<1>4. \A j \in Turn : /\ Counted(t, j)
                      /\ m.turn # j => Said(t, j) = Said(s, j)
                      /\ m.turn = j => Said(t, j) = Append(Said(s, j), Entered(m))
  BY <1>1, <1>2, SaidGrows
<1>5. \A j \in Turn : Said(s, j) \in Seq(Entry)
  BY <1>1, SaidTyped
<1>6. Entered(m) \in Entry
  BY DEF Entered, Entry, Messages
<1>7. All(t) = [All(s) EXCEPT ![m.turn] = Append(@, Entered(m))]
  BY <1>4 DEF All
<1>8. All(s) \in [Turn -> Seq(Entry)]
  BY <1>5 DEF All
<1> QED
  BY <1>2, <1>3, <1>4, <1>6, <1>7, <1>8
\* One message: its turn says one more thing, and the others nothing.
LEMMA OneSaid ==
    ASSUME Typed, SaidInv, NEW m \in Messages, m.turn \in Turn, conv' = Append(conv, m)
    PROVE  /\ \A j \in Turn : Counted(conv', j)
           /\ \A j \in Turn : j # m.turn => Sayings'[j] = Sayings[j]
           /\ Sayings'[m.turn] # <<>> /\ Last(Sayings'[m.turn]) = Entered(m)
           /\ Len(Sayings[m.turn]) \in Nat /\ Len(Sayings'[m.turn]) = Len(Sayings[m.turn]) + 1
           /\ Turns!Says(m.turn, m.kind)
<1>1. PICK s \in Seq(Messages) : s = conv
  BY DEF Typed
<1>2. PICK k \in Turn : k = m.turn
  OBVIOUS
<1>3. PICK f, g : f = Sayings /\ g = Sayings'
  OBVIOUS
<1>4. f = All(s) /\ g = All(Append(s, m)) /\ \A j \in Turn : Counted(s, j)
  BY <1>1, <1>3 DEF SaidInv, Sayings, All
<1>5. /\ Append(s, m) \in Seq(Messages) /\ \A j \in Turn : Counted(Append(s, m), j)
      /\ f \in [Turn -> Seq(Entry)] /\ Entered(m) \in Entry
      /\ g = [f EXCEPT ![k] = Append(@, Entered(m))]
  BY <1>2, <1>4, SaysMore
<1>6. PICK q \in Seq(Entry), e \in Entry : q = f[k] /\ e = Entered(m)
  BY <1>5
<1>7. /\ Append(q, e) # <<>> /\ Last(Append(q, e)) = e
      /\ Len(Append(q, e)) = Len(q) + 1 /\ Len(q) \in Nat
  BY Grows
<1>8. g[k] = Append(q, e) /\ \A j \in Turn : j # k => g[j] = f[j]
  BY <1>5, <1>6
<1>9. g[k] # <<>> /\ Last(g[k]) = e /\ Len(g[k]) = Len(f[k]) + 1 /\ Len(f[k]) \in Nat
  BY <1>6, <1>7, <1>8
<1>10. e.kind = m.kind
  BY <1>6 DEF Entered
<1>11. g = [f EXCEPT ![k] = Append(@, Last(g[k]))]
  BY <1>5, <1>6, <1>9
<1>12. Turns!Says(m.turn, m.kind)
  <2>1. Last(g[k]).kind = m.kind
    BY <1>9, <1>10
  <2>2. Turns!Last(g[k]) = Last(g[k])
    BY DEF Turns!Last, Last
  <2>3. Turns!Says(k, m.kind)
    BY <1>3, <1>9, <1>11, <2>1, <2>2, Zenon DEF Turns!Says
  <2> QED
    BY <1>2, <2>3
<1> QED
  BY <1>1, <1>2, <1>3, <1>5, <1>6, <1>8, <1>9, <1>12

\* Two messages of one turn.
LEMMA TwoSaid ==
    ASSUME Typed, SaidInv, NEW m \in Messages, NEW n \in Messages, m.turn \in Turn, n.turn = m.turn,
           conv' = conv \o <<m, n>>
    PROVE  /\ \A j \in Turn : Counted(conv', j)
           /\ \A j \in Turn : j # m.turn => Sayings'[j] = Sayings[j]
           /\ Sayings' = [Sayings EXCEPT ![m.turn] = @ \o <<Entered(m), Entered(n)>>]
           /\ Len(Sayings[m.turn]) \in Nat /\ Len(Sayings'[m.turn]) = Len(Sayings[m.turn]) + 2
           /\ Sayings'[m.turn][Len(Sayings[m.turn]) + 1] = Entered(m) /\ Last(Sayings'[m.turn]) = Entered(n)
<1>1. PICK s \in Seq(Messages) : s = conv
  BY DEF Typed
<1>2. PICK k \in Turn : k = m.turn
  OBVIOUS
<1>3. PICK r : r = Append(s, m)
  OBVIOUS
<1>4. PICK f, g : f = Sayings /\ g = All(r)
  OBVIOUS
<1>5. PICK h : h = Sayings'
  OBVIOUS
<1>6. conv' = Append(r, n)
  BY <1>1, <1>3, GrowsTwice
<1>7. f = All(s) /\ h = All(Append(r, n)) /\ \A j \in Turn : Counted(s, j)
  BY <1>1, <1>4, <1>5, <1>6 DEF SaidInv, Sayings, All
<1>8. /\ r \in Seq(Messages) /\ \A j \in Turn : Counted(r, j)
      /\ f \in [Turn -> Seq(Entry)] /\ Entered(m) \in Entry
      /\ g = [f EXCEPT ![k] = Append(@, Entered(m))]
  BY <1>2, <1>3, <1>4, <1>7, SaysMore
<1>9. /\ \A j \in Turn : Counted(Append(r, n), j)
      /\ Entered(n) \in Entry
      /\ h = [g EXCEPT ![k] = Append(@, Entered(n))]
  <2>1. n.turn \in Turn /\ n.turn = k
    BY <1>2
  <2>2. /\ \A j \in Turn : Counted(Append(r, n), j)
        /\ Entered(n) \in Entry
        /\ All(Append(r, n)) = [All(r) EXCEPT ![n.turn] = Append(@, Entered(n))]
    BY <1>8, <2>1, SaysMore
  <2> QED
    BY <1>4, <1>7, <2>1, <2>2
<1>10. PICK q \in Seq(Entry), a \in Entry, b \in Entry : q = f[k] /\ a = Entered(m) /\ b = Entered(n)
  BY <1>8, <1>9
<1>11. PICK u : u = Append(q, a)
  OBVIOUS
<1>12. h = [f EXCEPT ![k] = Append(u, b)]
  BY <1>8, <1>9, <1>10, <1>11
<1>13. u \in Seq(Entry) /\ Len(u) = Len(q) + 1 /\ Last(u) = a /\ Len(q) \in Nat
  BY <1>11, Grows
<1>14. PICK v : v = Append(u, b)
  OBVIOUS
<1>15. v \in Seq(Entry) /\ Len(v) = Len(u) + 1 /\ Last(v) = b /\ \A i \in 1 .. Len(u) : v[i] = u[i]
  BY <1>13, <1>14, Grows, AppendProperties
<1>16. v = q \o <<a, b>>
  BY <1>11, <1>14, GrowsTwice
<1>17. v[Len(q) + 1] = a
  BY <1>13, <1>15 DEF Last
<1>18. Len(v) = Len(q) + 2
  BY <1>13, <1>15
<1>19. h[k] = v /\ f[k] = q /\ \A j \in Turn : j # k => h[j] = f[j]
  BY <1>8, <1>10, <1>12, <1>14
<1>20. h = [f EXCEPT ![k] = @ \o <<a, b>>]
  BY <1>10, <1>12, <1>14, <1>16
<1>21. Len(q) \in Nat /\ Last(v) = b
  BY <1>13, <1>15
<1>22. /\ \A j \in Turn : Counted(conv', j)
       /\ \A j \in Turn : j # m.turn => Sayings'[j] = Sayings[j]
  BY <1>2, <1>4, <1>5, <1>6, <1>9, <1>19
<1>23. Sayings' = [Sayings EXCEPT ![m.turn] = @ \o <<Entered(m), Entered(n)>>]
  BY <1>2, <1>4, <1>5, <1>10, <1>20
<1>24. Sayings[m.turn] = q /\ Sayings'[m.turn] = v
  BY <1>2, <1>4, <1>5, <1>19
<1> QED
  BY <1>10, <1>17, <1>18, <1>21, <1>22, <1>23, <1>24

\* Whoever does not take the step is where it was.
LEMMA OthersInStep ==
    ASSUME SaidInv, NEW c \in Conn, NEW k,
           \A d \in Conn : d # c => /\ pc'[d] = pc[d] /\ turn'[d] = turn[d]
                                    /\ round'[d] = round[d] /\ reply'[d] = reply[d],
           \A d \in Busy : d # c => turn[d] # k /\ turn[d] \in Turn,
           \A j \in Turn : j # k => Sayings'[j] = Sayings[j],
           InStep(c)'
    PROVE  \A d \in Conn : InStep(d)'
<1>1. ASSUME NEW d \in Conn, d # c PROVE InStep(d)'
  <2>1. pc'[d] = pc[d] /\ turn'[d] = turn[d] /\ round'[d] = round[d] /\ reply'[d] = reply[d]
    BY <1>1
  <2>2. InStep(d)
    BY DEF SaidInv
  <2>3. UseIds(d, reply[d])' = UseIds(d, reply[d]) /\ Working(d)' = Working(d)
    BY <2>1, Zenon DEF UseIds, Working
  <2>4. CASE d \in Busy
    <3>1. Sayings'[turn'[d]] = Sayings[turn[d]]
      BY <1>1, <2>1, <2>4
    <3> QED
      BY <2>1, <2>2, <2>3, <3>1 DEF InStep
  <2>5. CASE d \notin Busy
    <3>1. pc[d] = "idle" /\ ~Working(d)
      BY <2>5 DEF Busy, Working
    <3> QED
      BY <2>1, <2>2, <2>3, <3>1 DEF InStep
  <2> QED
    BY <2>4, <2>5
<1> QED
  BY <1>1
\* The turn of a busy connection is its own.
LEMMA OwnTurn ==
    ASSUME Typed, Owners, NEW c \in Busy
    PROVE  /\ turn[c] \in Turn /\ turn[c] <= turns /\ c \in Conn
           /\ \A d \in Busy : d # c => turn[d] # turn[c] /\ turn[d] \in Turn
<1>1. \A d \in Busy : turn[d] \in 0 .. turns /\ turn[d] # 0 /\ d \in Conn
  BY DEF Typed, Owners, Busy
<1>2. turns \in 0 .. MaxTurns /\ MaxTurns \in Nat
  BY SessionAssumption DEF Typed
<1>3. \A k \in 0 .. turns : k # 0 => k \in 1 .. MaxTurns /\ k <= turns
  BY <1>2
<1>4. \A d \in Busy : turn[d] \in Turn /\ turn[d] <= turns
  BY <1>1, <1>3 DEF Turn
<1> QED
  BY <1>1, <1>4 DEF Owners

\* A step in which only the turn of c may have said something.
LEMMA SaidStays ==
    ASSUME Typed, SaidInv, NEW c \in Conn, NEW k \in Turn, k <= turns', turns' >= turns, turns' \in Nat,
           \A j \in Turn : Counted(conv', j),
           \A j \in Turn : j # k => Sayings'[j] = Sayings[j],
           \A d \in Conn : d # c => /\ pc'[d] = pc[d] /\ turn'[d] = turn[d]
                                    /\ round'[d] = round[d] /\ reply'[d] = reply[d],
           \A d \in Busy : d # c => turn[d] # k /\ turn[d] \in Turn,
           InStep(c)'
    PROVE  SaidInv'
<1>1. \A d \in Conn : InStep(d)'
  BY OthersInStep
<1>2. ASSUME NEW j \in Turn, j > turns' PROVE Sayings'[j] = <<>>
  <2>1. j > turns /\ j # k
    BY <1>2, SessionAssumption, Numbers DEF Turn
  <2> QED
    BY <2>1 DEF SaidInv
<1>3. Turn' = Turn
  BY DEF Turn
<1> QED
  BY <1>1, <1>2, <1>3 DEF SaidInv

\* Before a reply, the dialogue is open; its length tells the round.
LEMMA Opened ==
    ASSUME Typed, Owners, SaidInv, NEW c \in Conn, pc[c] = "llm"
    PROVE  Turns!Open(turn[c]) /\ Len(Sayings[turn[c]]) = 2 * round[c] + 1
<1>1. PICK k \in Turn : k = turn[c]
  BY OwnTurn DEF Busy
<1>2. Len(Sayings[k]) = 2 * round[c] + 1 /\ Last(Sayings[k]).kind \in {"user", "results"}
  BY <1>1 DEF SaidInv, InStep
<1>3. round[c] \in Nat
  BY Numbers
<1>4. Sayings[k] # <<>>
  BY <1>2, <1>3
<1>5. Turns!Last(Sayings[k]) = Last(Sayings[k])
  BY DEF Turns!Last, Last
<1> QED
  BY <1>1, <1>2, <1>4, <1>5 DEF Turns!Open

\* While its uses are run, the uses are the last thing the turn has said.
LEMMA Used ==
    ASSUME Typed, Owners, SaidInv, NEW c \in Conn, Working(c)
    PROVE  /\ Sayings[turn[c]] # <<>> /\ Len(Sayings[turn[c]]) = 2 * round[c] + 2
           /\ Turns!Last(Sayings[turn[c]]).kind = "uses"
           /\ Turns!Last(Sayings[turn[c]]).ids = UseIds(c, reply[c])
<1>1. /\ Len(Sayings[turn[c]]) = 2 * round[c] + 2
      /\ Last(Sayings[turn[c]]) = [kind |-> "uses", ids |-> UseIds(c, reply[c])]
  BY DEF SaidInv, InStep
<1>2. round[c] \in Nat
  BY Numbers
<1>3. Sayings[turn[c]] # <<>>
  BY <1>1, <1>2
<1>4. Turns!Last(Sayings[turn[c]]) = Last(Sayings[turn[c]])
  BY DEF Turns!Last, Last
<1> QED
  BY <1>1, <1>3, <1>4

\* The dialogue begins.
LEMMA SaidStart ==
    ASSUME Typed, Owners, SaidInv, NEW c \in Conn, StartTurn(c)
    PROVE  SaidInv' /\ Turns!Next
<1>1. turns \in Nat /\ MaxTurns \in Nat /\ turns < MaxTurns /\ pc[c] = "idle"
  BY Numbers DEF StartTurn
<1>2. PICK k \in Turn : k = turns + 1
  BY <1>1 DEF Turn
<1>3. PICK m \in Messages : m = Message(turns + 1, "user", <<>>) /\ m.turn = k /\ m.kind = "user"
  <2>0. <<>> \in Seq(UseIdent)
    OBVIOUS
  <2>1. PICK e \in Seq(UseIdent) : e = <<>>
    BY <2>0, Zenon
  <2>2. k \in Nat
    BY <1>1, <1>2
  <2>3. Message(k, "user", e) \in Messages /\ Message(k, "user", e).turn = k /\ Message(k, "user", e).kind = "user"
    BY <2>2, AMessage
  <2> QED
    BY <1>2, <2>1, <2>3, Zenon
<1>4. /\ conv' = Append(conv, m) /\ turns' = turns + 1
      /\ pc' = [pc EXCEPT ![c] = "llm"] /\ turn' = [turn EXCEPT ![c] = turns + 1]
      /\ round' = round /\ reply' = reply
  BY <1>3 DEF StartTurn, CallLlm, Goes
<1>5. Sayings[k] = <<>>
  BY <1>1, <1>2 DEF SaidInv
<1>6. /\ \A j \in Turn : Counted(conv', j)
      /\ \A j \in Turn : j # k => Sayings'[j] = Sayings[j]
      /\ Sayings'[k] # <<>> /\ Last(Sayings'[k]) = Entered(m)
      /\ Len(Sayings'[k]) = Len(Sayings[k]) + 1
      /\ Turns!Says(k, "user")
  BY <1>3, <1>4, OneSaid
<1>7. Len(Sayings'[k]) = 1
  BY <1>5, <1>6
<1>8. InStep(c)'
  <2>1. pc'[c] = "llm" /\ turn'[c] = k /\ round'[c] = 0
    BY <1>1, <1>2, <1>4 DEF Typed, SaidInv, InStep
  <2>2. Last(Sayings'[k]).kind = "user"
    BY <1>3, <1>6 DEF Entered
  <2> QED
    BY <1>7, <2>1, <2>2 DEF InStep, Working
<1>9. \A d \in Busy : d # c => turn[d] # k /\ turn[d] \in Turn
  <2>1. \A d \in Busy : turn[d] <= turns /\ turn[d] \in Turn
    BY OwnTurn
  <2> QED
    BY <1>1, <1>2, <2>1
<1>10. turns' >= turns /\ turns' \in Nat /\ k <= turns'
  BY <1>1, <1>2, <1>4
<1>11. \A d \in Conn : d # c => /\ pc'[d] = pc[d] /\ turn'[d] = turn[d]
                                /\ round'[d] = round[d] /\ reply'[d] = reply[d]
  BY <1>4 DEF Typed
<1>12. SaidInv'
  BY <1>6, <1>8, <1>9, <1>10, <1>11, SaidStays
<1>13. Turns!Begin(k)
  BY <1>5, <1>6 DEF Turns!Begin
<1> QED
  BY <1>12, <1>13 DEF Turns!Next

\* An answer ends the dialogue.
LEMMA SaidAnswer ==
    ASSUME Typed, Owners, SaidInv, NEW c \in Conn, StoreAnswer(c)
    PROVE  SaidInv' /\ Turns!Next
<1>1. pc[c] = "llm" /\ c \in Busy
  BY DEF StoreAnswer, Busy
<1>2. PICK k \in Turn : k = turn[c] /\ k <= turns /\ \A d \in Busy : d # c => turn[d] # k /\ turn[d] \in Turn
  BY <1>1, OwnTurn
<1>3. PICK m \in Messages : m = Message(turn[c], "text", <<>>) /\ m.turn = k /\ m.kind = "text"
  <2>0. <<>> \in Seq(UseIdent)
    OBVIOUS
  <2>1. PICK e \in Seq(UseIdent) : e = <<>>
    BY <2>0, Zenon
  <2>2. k \in Nat
    BY <1>2, Numbers
  <2>3. Message(k, "text", e) \in Messages /\ Message(k, "text", e).turn = k /\ Message(k, "text", e).kind = "text"
    BY <2>2, AMessage
  <2> QED
    BY <1>2, <2>1, <2>3, Zenon
<1>4. /\ conv' = Append(conv, m) /\ turns' = turns
      /\ pc' = [pc EXCEPT ![c] = "final"] /\ turn' = turn /\ round' = round /\ reply' = reply
  BY <1>3 DEF StoreAnswer, Goes
<1>5. /\ \A j \in Turn : Counted(conv', j)
      /\ \A j \in Turn : j # k => Sayings'[j] = Sayings[j]
      /\ Turns!Says(k, "text")
  BY <1>3, <1>4, OneSaid
<1>6. InStep(c)'
  BY <1>4 DEF Typed, InStep, Working
<1>7. turns' >= turns /\ turns' \in Nat /\ k <= turns'
  BY <1>2, <1>4, Numbers
<1>8. \A d \in Conn : d # c => /\ pc'[d] = pc[d] /\ turn'[d] = turn[d]
                               /\ round'[d] = round[d] /\ reply'[d] = reply[d]
  BY <1>4 DEF Typed
<1>9. SaidInv'
  BY <1>2, <1>5, <1>6, <1>7, <1>8, SaidStays
<1>10. Turns!Open(k)
  BY <1>1, <1>2, Opened
<1>11. Turns!Answer(k)
  BY <1>5, <1>10 DEF Turns!Answer
<1> QED
  BY <1>9, <1>11 DEF Turns!Next
\* A round begins.
LEMMA SaidUses ==
    ASSUME Typed, Owners, SaidInv, NEW c \in Conn, NEW n \in 1 .. MaxUses - round[c], StoreUses(c, n)
    PROVE  SaidInv' /\ Turns!Next
<1>1. pc[c] = "llm" /\ c \in Busy
  BY DEF StoreUses, Busy
<1>2. PICK k \in Turn : k = turn[c] /\ k <= turns /\ \A d \in Busy : d # c => turn[d] # k /\ turn[d] \in Turn
  BY <1>1, OwnTurn
<1>3. PICK u \in Seq(UseIdent) : u = UseIds(c, n)
  <2>1. n \in Nat
    BY Numbers
  <2> QED
    BY <2>1, Ids
<1>4. PICK m \in Messages : m = Message(turn[c], "uses", UseIds(c, n)) /\ m.turn = k /\ m.kind = "uses" /\ m.ids = u
  <2>1. k \in Nat
    BY <1>2, Numbers
  <2>2. /\ Message(k, "uses", u) \in Messages /\ Message(k, "uses", u).turn = k
        /\ Message(k, "uses", u).kind = "uses" /\ Message(k, "uses", u).ids = u
    BY <2>1, AMessage
  <2> QED
    BY <1>2, <1>3, <2>2, Zenon
<1>5. /\ conv' = Append(conv, m) /\ turns' = turns /\ turn' = turn /\ round' = round
      /\ pc' = [pc EXCEPT ![c] = "tool_call"] /\ reply' = [reply EXCEPT ![c] = n]
  BY <1>4 DEF StoreUses, Goes
<1>6. /\ \A j \in Turn : Counted(conv', j)
      /\ \A j \in Turn : j # k => Sayings'[j] = Sayings[j]
      /\ Last(Sayings'[k]) = Entered(m) /\ Len(Sayings'[k]) = Len(Sayings[k]) + 1
      /\ Turns!Says(k, "uses")
  BY <1>4, <1>5, OneSaid
<1>7. Turns!Open(k) /\ Len(Sayings[k]) = 2 * round[c] + 1
  BY <1>1, <1>2, Opened
<1>8. PICK r : r = round[c]
  OBVIOUS
<1>9. r \in 0 .. MaxRounds - 1 /\ MaxRounds \in Nat
  BY <1>8, Numbers DEF Typed
<1>10. 2 * r + 1 < 2 * MaxRounds /\ (2 * r + 1) + 1 = 2 * r + 2
  BY <1>9
<1>11. InStep(c)'
  <2>1. pc'[c] = "tool_call" /\ turn'[c] = k /\ round'[c] = r /\ reply'[c] = n
    BY <1>2, <1>5, <1>8 DEF Typed
  <2>2. Len(Sayings'[k]) = 2 * r + 2
    BY <1>6, <1>7, <1>8, <1>10
  <2>3. UseIds(c, reply[c])' = u
    <3>1. turn'[c] = turn[c] /\ round'[c] = round[c]
      BY <1>5
    <3> QED
      BY <1>3, <2>1, <3>1, Zenon DEF UseIds
  <2>4. Last(Sayings'[k]) = [kind |-> "uses", ids |-> u]
    BY <1>4, <1>6 DEF Entered
  <2> QED
    BY <2>1, <2>2, <2>3, <2>4 DEF InStep
<1>12. turns' >= turns /\ turns' \in Nat /\ k <= turns'
  BY <1>2, <1>5, Numbers
<1>13. \A d \in Conn : d # c => /\ pc'[d] = pc[d] /\ turn'[d] = turn[d]
                                /\ round'[d] = round[d] /\ reply'[d] = reply[d]
  BY <1>5 DEF Typed
<1>14. SaidInv'
  BY <1>2, <1>6, <1>11, <1>12, <1>13, SaidStays
<1>15. Turns!Use(k)
  BY <1>6, <1>7, <1>8, <1>10 DEF Turns!Use
<1> QED
  BY <1>14, <1>15 DEF Turns!Next

\* The message with the results of all uses of the round.
LEMMA ResultsOf ==
    ASSUME Typed, Sinks, NEW c \in Conn, StoreResults(c) \/ RunOut(c)
    PROVE  /\ Working(c) /\ c \in Busy
           /\ \E m \in Messages : /\ m = Message(turn[c], "results", sink[c])
                                  /\ m.turn = turn[c] /\ m.kind = "results" /\ m.ids = UseIds(c, reply[c])
<1>1. Working(c) /\ Len(sink[c]) = reply[c]
  BY DEF StoreResults, RunOut, Working
<1>2. sink[c] = UseIds(c, reply[c])
  BY <1>1, FullSink
<1>3. PICK s \in Seq(UseIdent) : s = sink[c]
  BY DEF Typed
<1>4. PICK k \in Nat : k = turn[c]
  BY Numbers
<1>5. /\ Message(k, "results", s) \in Messages /\ Message(k, "results", s).turn = k
      /\ Message(k, "results", s).kind = "results" /\ Message(k, "results", s).ids = s
  BY AMessage
<1> QED
  BY <1>1, <1>2, <1>3, <1>4, <1>5 DEF Busy, Working

\* A round ends.
LEMMA SaidResults ==
    ASSUME Typed, Sinks, Owners, SaidInv, NEW c \in Conn, StoreResults(c)
    PROVE  SaidInv' /\ Turns!Next
<1>1. Working(c) /\ c \in Busy
  BY ResultsOf
<1>2. PICK k \in Turn : k = turn[c] /\ k <= turns /\ \A d \in Busy : d # c => turn[d] # k /\ turn[d] \in Turn
  BY <1>1, OwnTurn
<1>3. PICK m \in Messages : m = Message(turn[c], "results", sink[c]) /\ m.turn = k /\ m.kind = "results" /\ m.ids = UseIds(c, reply[c])
  BY <1>2, ResultsOf
<1>4. /\ conv' = Append(conv, m) /\ turns' = turns /\ turn' = turn /\ reply' = reply
      /\ pc' = [pc EXCEPT ![c] = "llm"] /\ round' = [round EXCEPT ![c] = @ + 1]
  BY <1>3 DEF StoreResults, CallLlm, Goes
<1>5. /\ \A j \in Turn : Counted(conv', j)
      /\ \A j \in Turn : j # k => Sayings'[j] = Sayings[j]
      /\ Last(Sayings'[k]) = Entered(m) /\ Len(Sayings'[k]) = Len(Sayings[k]) + 1
      /\ Turns!Says(k, "results")
  BY <1>3, <1>4, OneSaid
<1>6. /\ Sayings[k] # <<>> /\ Len(Sayings[k]) = 2 * round[c] + 2
      /\ Turns!Last(Sayings[k]).kind = "uses" /\ Turns!Last(Sayings[k]).ids = UseIds(c, reply[c])
  BY <1>1, <1>2, Used
<1>7. PICK r : r = round[c]
  OBVIOUS
<1>8. r \in Nat
  BY <1>7, Numbers
<1>9. (2 * r + 2) + 1 = 2 * (r + 1) + 1
  BY <1>8
<1>10. Last(Sayings'[k]).kind = "results" /\ Last(Sayings'[k]).ids = UseIds(c, reply[c])
  BY <1>3, <1>5 DEF Entered
<1>11. InStep(c)'
  <2>1. pc'[c] = "llm" /\ turn'[c] = k /\ round'[c] = r + 1
    BY <1>2, <1>4, <1>7 DEF Typed
  <2>2. Len(Sayings'[k]) = 2 * (r + 1) + 1
    BY <1>5, <1>6, <1>7, <1>9
  <2> QED
    BY <1>10, <2>1, <2>2 DEF InStep, Working
<1>12. turns' >= turns /\ turns' \in Nat /\ k <= turns'
  BY <1>2, <1>4, Numbers
<1>13. \A d \in Conn : d # c => /\ pc'[d] = pc[d] /\ turn'[d] = turn[d]
                                /\ round'[d] = round[d] /\ reply'[d] = reply[d]
  BY <1>4 DEF Typed
<1>14. SaidInv'
  BY <1>2, <1>5, <1>11, <1>12, <1>13, SaidStays
<1>15. Turns!Last(Sayings'[k]) = Last(Sayings'[k])
  BY DEF Turns!Last, Last
<1>16. Turns!Result(k)
  BY <1>5, <1>6, <1>10, <1>15, Zenon DEF Turns!Result
<1> QED
  BY <1>14, <1>16 DEF Turns!Next

\* The rounds run out.
LEMMA SaidRunOut ==
    ASSUME Typed, Sinks, Owners, SaidInv, NEW c \in Conn, RunOut(c)
    PROVE  SaidInv' /\ Turns!Next
<1>1. Working(c) /\ c \in Busy
  BY ResultsOf
<1>2. PICK k \in Turn : k = turn[c] /\ k <= turns /\ \A d \in Busy : d # c => turn[d] # k /\ turn[d] \in Turn
  BY <1>1, OwnTurn
<1>3. PICK m \in Messages : m = Message(turn[c], "results", sink[c]) /\ m.turn = k /\ m.kind = "results" /\ m.ids = UseIds(c, reply[c])
  BY <1>2, ResultsOf
<1>4. PICK n \in Messages : n = Message(turn[c], "text", <<>>) /\ n.turn = k /\ n.kind = "text"
  <2>0. <<>> \in Seq(UseIdent)
    OBVIOUS
  <2>1. PICK e \in Seq(UseIdent) : e = <<>>
    BY <2>0, Zenon
  <2>2. k \in Nat
    BY <1>2, Numbers
  <2>3. Message(k, "text", e) \in Messages /\ Message(k, "text", e).turn = k /\ Message(k, "text", e).kind = "text"
    BY <2>2, AMessage
  <2> QED
    BY <1>2, <2>1, <2>3, Zenon
<1>5. /\ conv' = conv \o <<m, n>> /\ turns' = turns /\ turn' = turn /\ round' = round /\ reply' = reply
      /\ pc' = [pc EXCEPT ![c] = "final"] /\ round[c] + 1 = MaxRounds
  BY <1>3, <1>4 DEF RunOut, LastRound, Goes
<1>6. /\ \A j \in Turn : Counted(conv', j)
      /\ \A j \in Turn : j # k => Sayings'[j] = Sayings[j]
      /\ Sayings' = [Sayings EXCEPT ![k] = @ \o <<Entered(m), Entered(n)>>]
      /\ Len(Sayings'[k]) = Len(Sayings[k]) + 2
      /\ Sayings'[k][Len(Sayings[k]) + 1] = Entered(m) /\ Last(Sayings'[k]) = Entered(n)
  <2>1. k = m.turn /\ m.turn \in Turn /\ n.turn = m.turn /\ conv' = conv \o <<m, n>>
    BY <1>3, <1>4, <1>5
  <2>2. /\ \A j \in Turn : Counted(conv', j)
        /\ \A j \in Turn : j # m.turn => Sayings'[j] = Sayings[j]
        /\ Sayings' = [Sayings EXCEPT ![m.turn] = @ \o <<Entered(m), Entered(n)>>]
        /\ Len(Sayings'[m.turn]) = Len(Sayings[m.turn]) + 2
        /\ Sayings'[m.turn][Len(Sayings[m.turn]) + 1] = Entered(m) /\ Last(Sayings'[m.turn]) = Entered(n)
    BY <2>1, TwoSaid
  <2> QED
    BY <2>1, <2>2, Zenon
<1>7. /\ Len(Sayings[k]) = 2 * round[c] + 2
      /\ Turns!Last(Sayings[k]).kind = "uses" /\ Turns!Last(Sayings[k]).ids = UseIds(c, reply[c])
  BY <1>1, <1>2, Used
<1>8. Len(Sayings[k]) = 2 * MaxRounds
  <2>1. PICK r \in Nat : r = round[c]
    BY Numbers
  <2>2. r + 1 = MaxRounds
    BY <1>5, <2>1
  <2>3. 2 * r + 2 = 2 * MaxRounds
    BY <2>2
  <2> QED
    BY <1>7, <2>1, <2>3
<1>9. InStep(c)'
  BY <1>5 DEF Typed, InStep, Working
<1>10. turns' >= turns /\ turns' \in Nat /\ k <= turns'
  BY <1>2, <1>5, Numbers
<1>11. \A d \in Conn : d # c => /\ pc'[d] = pc[d] /\ turn'[d] = turn[d]
                                /\ round'[d] = round[d] /\ reply'[d] = reply[d]
  BY <1>5 DEF Typed
<1>12. SaidInv'
  BY <1>2, <1>6, <1>9, <1>10, <1>11, SaidStays
<1>13. Turns!Last(Sayings'[k]) = Last(Sayings'[k])
  BY DEF Turns!Last, Last
<1>14. Entered(m).kind = "results" /\ Entered(m).ids = UseIds(c, reply[c]) /\ Entered(n).kind = "text"
  BY <1>3, <1>4 DEF Entered
<1>15. Turns!RunOut(k)
  <2>1. PICK a, b, l : a = Entered(m) /\ b = Entered(n) /\ l = Len(Sayings[k]) + 1
    OBVIOUS
  <2>2. Sayings'[k][l] = a /\ Turns!Last(Sayings'[k]) = b
    BY <1>6, <1>13, <2>1
  <2>3. Sayings' = [Sayings EXCEPT ![k] = @ \o <<Sayings'[k][l], Turns!Last(Sayings'[k])>>]
    BY <1>6, <2>1, <2>2
  <2>4. Sayings'[k][l].kind = "results" /\ Sayings'[k][l].ids = Turns!Last(Sayings[k]).ids
    BY <1>7, <1>14, <2>1, <2>2
  <2>5. Turns!Last(Sayings'[k]).kind = "text"
    BY <1>14, <2>1, <2>2
  <2>6. Len(Sayings[k]) = 2 * MaxRounds /\ Turns!Last(Sayings[k]).kind = "uses"
        /\ Len(Sayings'[k]) = Len(Sayings[k]) + 2
    BY <1>6, <1>7, <1>8
  <2> QED
    BY <2>1, <2>3, <2>4, <2>5, <2>6, Zenon DEF Turns!RunOut
<1> QED
  BY <1>12, <1>15 DEF Turns!Next

\* A step that says nothing.
LEMMA SaidNothing ==
    ASSUME Typed, Sinks, Owners, SaidInv, NEW c \in Conn,
           \/ ToolCalled(c) \/ (\E approved \in BOOLEAN : Confirmed(c, approved)) \/ HermesDone(c) \/ NextTool(c)
           \/ Finish(c) \/ Cut(c)
    PROVE  SaidInv' /\ Sayings' = Sayings
<1>1. conv' = conv /\ turns' = turns
  BY DEF ToolCalled, Confirmed, HermesDone, NextTool, Finish, Cut
<1>2. Sayings' = Sayings /\ \A j \in Turn : Counted(conv', j)
  BY <1>1 DEF Sayings, Turn, SaidInv
<1>3. c \in Busy
  BY DEF ToolCalled, Confirmed, HermesDone, NextTool, Finish, Cut, Busy
<1>4. PICK k \in Turn : k = turn[c] /\ k <= turns /\ \A d \in Busy : d # c => turn[d] # k /\ turn[d] \in Turn
  BY <1>3, OwnTurn
<1>5. turns' >= turns /\ turns' \in Nat /\ k <= turns'
  BY <1>1, <1>4, Numbers
<1>6. CASE Finish(c) \/ Cut(c)
  <2>1. /\ pc' = [pc EXCEPT ![c] = "idle"] /\ turn' = [turn EXCEPT ![c] = 0]
        /\ round' = [round EXCEPT ![c] = 0] /\ reply' = [reply EXCEPT ![c] = 0]
    BY <1>6, Endings DEF Finish, Cut
  <2>2. \A d \in Conn : d # c => /\ pc'[d] = pc[d] /\ turn'[d] = turn[d]
                                 /\ round'[d] = round[d] /\ reply'[d] = reply[d]
    BY <2>1 DEF Typed
  <2>3. InStep(c)'
    BY <2>1 DEF Typed, InStep, Working
  <2> QED
    BY <1>2, <1>4, <1>5, <2>2, <2>3, SaidStays
<1>7. CASE ToolCalled(c) \/ (\E approved \in BOOLEAN : Confirmed(c, approved)) \/ HermesDone(c) \/ NextTool(c)
  <2>1. /\ Working(c) /\ UNCHANGED <<turn, round, reply>>
        /\ \E p \in {"tool_call", "confirm", "hermes", "tool_result"} : pc' = [pc EXCEPT ![c] = p]
    BY <1>7, Works
  <2>2. \A d \in Conn : d # c => /\ pc'[d] = pc[d] /\ turn'[d] = turn[d]
                                 /\ round'[d] = round[d] /\ reply'[d] = reply[d]
    BY <2>1 DEF Typed
  <2>3. InStep(c)'
    <3>1. pc'[c] \notin {"idle", "llm"}
      BY <2>1 DEF Typed
    <3>2. UseIds(c, reply[c])' = UseIds(c, reply[c]) /\ InStep(c)
      BY <2>1, Zenon DEF UseIds, SaidInv
    <3> QED
      BY <1>2, <2>1, <3>1, <3>2 DEF InStep
  <2> QED
    BY <1>2, <1>4, <1>5, <2>2, <2>3, SaidStays
<1> QED
  BY <1>2, <1>6, <1>7
\* Every step is a step of a dialogue, or says nothing.
LEMMA SaidStep ==
    ASSUME SessionIInv, SaidInv, [Next]_vars
    PROVE  SaidInv' /\ [Turns!Next]_Sayings
<1>0. Typed /\ Sinks /\ Owners
  BY DEF SessionIInv
<1>1. CASE Next
  <2>1. PICK c \in Conn : StartTurn(c) \/ TurnStep(c) \/ (\E approved \in BOOLEAN : Confirmed(c, approved)) \/ Cut(c)
    BY <1>1 DEF Next
  <2>2. CASE StartTurn(c)
    BY <1>0, <2>2, SaidStart
  <2>3. CASE StoreAnswer(c)
    BY <1>0, <2>3, SaidAnswer
  <2>4. CASE \E n \in 1 .. MaxUses - round[c] : StoreUses(c, n)
    BY <1>0, <2>4, SaidUses
  <2>5. CASE StoreResults(c)
    BY <1>0, <2>5, SaidResults
  <2>6. CASE RunOut(c)
    BY <1>0, <2>6, SaidRunOut
  <2>7. CASE \/ ToolCalled(c) \/ (\E approved \in BOOLEAN : Confirmed(c, approved)) \/ HermesDone(c) \/ NextTool(c)
             \/ Finish(c) \/ Cut(c)
    BY <1>0, <2>7, SaidNothing
  <2> QED
    BY <2>1, <2>2, <2>3, <2>4, <2>5, <2>6, <2>7 DEF TurnStep
<1>2. CASE UNCHANGED vars
  <2>1. UNCHANGED <<conv, pc, turn, round, reply, turns>>
    BY <1>2 DEF vars, turnVars
  <2>2. Sayings' = Sayings
    BY <2>1 DEF Sayings, Turn
  <2>3. \A c \in Conn : InStep(c)'
    <3>1. \A c \in Conn : InStep(c) /\ (UseIds(c, reply[c])' = UseIds(c, reply[c]))
      BY <2>1 DEF SaidInv, UseIds
    <3> QED
      BY <2>1, <2>2, <3>1 DEF InStep, Working
  <2>4. \A k \in Turn : Counted(conv', k) /\ (k > turns' => Sayings'[k] = <<>>)
    BY <2>1, <2>2 DEF SaidInv
  <2>5. Turn' = Turn
    BY DEF Turn
  <2> QED
    BY <2>2, <2>3, <2>4, <2>5 DEF SaidInv
<1> QED
  BY <1>1, <1>2

\* Nothing has been said.
LEMMA SaidFirst ==
    ASSUME Init
    PROVE  SaidInv /\ Turns!Init
<1>1. conv = <<>> /\ turns = 0 /\ pc = [c \in Conn |-> "idle"] /\ round = [c \in Conn |-> 0]
  BY DEF Init
<1>2. ASSUME NEW k \in Turn PROVE Counted(conv, k) /\ Said(conv, k) = <<>>
  <2>0. <<>> \in Seq(Messages)
    OBVIOUS
  <2>1. PICK s \in Seq(Messages) : s = conv
    BY <1>1, <2>0, Zenon
  <2>2. k \in Nat /\ Of(s, k) = {} /\ Cardinality(Of(s, k)) = 0
    BY <1>1, <2>1, FS_EmptySet DEF Of, Turn
  <2>3. Counted(s, k)
    BY <2>2 DEF Counted
  <2>4. Said(s, k) \in Seq(Entry) /\ Len(Said(s, k)) = 0
    BY <2>2, <2>3, SaidTyped
  <2> QED
    BY <2>1, <2>3, <2>4, EmptySeq
<1>3. Sayings = [k \in Turn |-> <<>>]
  BY <1>2 DEF Sayings
<1>4. \A c \in Conn : InStep(c)
  BY <1>1 DEF InStep, Working
<1>5. Turns!Init
  BY <1>3 DEF Turns!Init
<1> QED
  BY <1>2, <1>3, <1>4, <1>5 DEF SaidInv

\* What run_events appends is for each turn a dialogue of its own, as Dialogue
\* promises it, whatever other turns put between: the uses of a round and then
\* their results, max_tool_rounds at the most, and an answer, unless it breaks off.
THEOREM TurnsThm == Spec => TurnsAreDialogues
<1>1. Init => SaidInv /\ Turns!Init
  BY SaidFirst
<1>2. SessionIInv /\ SaidInv /\ [Next]_vars => SaidInv' /\ [Turns!Next]_Sayings
  BY SaidStep
<1>3. Spec => [][Turns!Next]_Sayings
  BY <1>1, <1>2, SessionIInvThm, PTL DEF Spec
<1>4. Spec => Turns!Init
  BY <1>1, PTL DEF Spec
<1> QED
  BY <1>3, <1>4, PTL DEF TurnsAreDialogues, Turns!Spec
=============================================================================
