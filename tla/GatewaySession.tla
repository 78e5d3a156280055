---------------------------- MODULE GatewaySession ----------------------------
(***************************************************************************)
(* One session of the gateway (gateway/orchestrator.py, server.py): a      *)
(* conversation that every connection naming it shares.  run_events is an  *)
(* async generator without a lock: from one await to the next it runs      *)
(* alone, and at an await, or at a yield, which waits for send_json,       *)
(* turns of other connections go on.                                       *)
(*                                                                         *)
(* Each action is such a stretch.  POST /api/chat collects the events and  *)
(* waits at fewer points; it is a websocket that never disconnects.  Texts *)
(* are left out; of the tool uses of a reply their number is kept, and     *)
(* whether a task is empty is drawn where it is asked.  The id of a use,   *)
(* which the model makes up afresh, is <<turn, round, place>>.             *)
(***************************************************************************)
EXTENDS Integers, Sequences, SequencesExt, FiniteSets

CONSTANTS
    Conn,           \* connections to this session
    MaxTurns,       \* bound: user messages
    MaxUses,        \* bound: tool uses in the first reply, one less in the next
    MaxRounds       \* max_tool_rounds

ASSUME SessionAssumption == MaxTurns \in Nat /\ MaxUses \in Nat /\ MaxRounds \in Nat \ {0}

VARIABLES
    conv,           \* the conversation: [turn, kind, ids]
    gated,          \* there is a confirm_cb
    pc,             \* pc[c]: what the turn of c waits for
    turn, round,    \* its number; round_no
    reply,          \* the number of tool uses in the reply
    sink,           \* tool_results: ids of the uses that have a result
    turns,          \* user messages so far
    \* history
    unpaired,       \* those whose model was sent a use without its result
    overlapped,     \* two turns ran at once
    cut,            \* turns ended by an exception
    unrecorded      \* uses that Hermes has run, with no result on record yet

turnVars == <<pc, turn, round, reply, sink>>
history == <<unpaired, overlapped, cut, unrecorded>>
vars == <<conv, gated, turnVars, turns, history>>

Turn == 1 .. MaxTurns

Init ==
    /\ conv = <<>>
    /\ gated \in BOOLEAN
    /\ pc = [c \in Conn |-> "idle"]
    /\ turn = [c \in Conn |-> 0] /\ round = [c \in Conn |-> 0]
    /\ reply = [c \in Conn |-> 0] /\ sink = [c \in Conn |-> <<>>]
    /\ turns = 0
    /\ unpaired = {}
    /\ overlapped = FALSE /\ cut = {} /\ unrecorded = {}

Busy == {c \in Conn : pc[c] # "idle"}

Message(k, kind, ids) == [turn |-> k, kind |-> kind, ids |-> ids]

UseIds(c, n) == [i \in 1 .. n |-> <<turn[c], round[c], i>>]

\* Every tool_use is followed by its tool_result: what the messages API asks
\* for, and append_voice_cue takes care not to break.
WellPaired(messages) ==
    \A i \in DOMAIN messages :
       messages[i].kind = "uses" =>
          /\ i < Len(messages)
          /\ messages[i + 1].kind = "results" /\ messages[i + 1].ids = messages[i].ids

Goes(c, to) == pc' = [pc EXCEPT ![c] = to]

\* The generator of c is gone, with what it knew.
Ends(c) ==
    /\ Goes(c, "idle")
    /\ turn' = [turn EXCEPT ![c] = 0] /\ round' = [round EXCEPT ![c] = 0]
    /\ reply' = [reply EXCEPT ![c] = 0] /\ sink' = [sink EXCEPT ![c] = <<>>]
    /\ unpaired' = unpaired \ {c}

\* messages_for_api in _call_llm: a copy of the conversation as it is now.
CallLlm(c) ==
    /\ Goes(c, "llm")
    /\ unpaired' = IF WellPaired(conv') THEN unpaired \ {c} ELSE unpaired \cup {c}

-----------------------------------------------------------------------------
StartTurn(c) ==
    /\ pc[c] = "idle" /\ turns < MaxTurns
    /\ conv' = Append(conv, Message(turns + 1, "user", <<>>))
    /\ turns' = turns + 1
    /\ turn' = [turn EXCEPT ![c] = turns + 1]
    /\ overlapped' = (overlapped \/ Busy # {})
    /\ CallLlm(c)
    /\ UNCHANGED <<gated, round, reply, sink, cut, unrecorded>>

\* A reply without tool uses.  Before it is stored its text is yielded; what
\* happens at that yield might as well happen before the reply.
StoreAnswer(c) ==
    /\ pc[c] = "llm"
    /\ conv' = Append(conv, Message(turn[c], "text", <<>>))
    /\ Goes(c, "final")
    /\ UNCHANGED <<gated, turn, round, reply, sink, turns, history>>

\* The reply's blocks are stored, and the first use is announced.
StoreUses(c, n) ==
    /\ pc[c] = "llm"
    /\ reply' = [reply EXCEPT ![c] = n]
    /\ conv' = Append(conv, Message(turn[c], "uses", UseIds(c, n)))
    /\ sink' = [sink EXCEPT ![c] = <<>>]
    /\ Goes(c, "tool_call")
    /\ UNCHANGED <<gated, turn, round, turns, history>>

-----------------------------------------------------------------------------
(* _run_tool, for the first use that has no result yet.                    *)

Place(c) == Len(sink[c]) + 1
UseId(c) == <<turn[c], round[c], Place(c)>>

GiveResult(c) ==
    /\ sink' = [sink EXCEPT ![c] = Append(@, UseId(c))]
    /\ Goes(c, "tool_result")

\* After the gate: an empty task is an error result, others go to Hermes.
TryTask(c) ==
    \/ Goes(c, "hermes") /\ UNCHANGED sink
    \/ GiveResult(c)

ToolCalled(c) ==
    /\ pc[c] = "tool_call"
    /\ IF gated THEN Goes(c, "confirm") /\ UNCHANGED sink ELSE TryTask(c)
    /\ UNCHANGED <<conv, gated, turn, round, reply, turns, history>>

\* confirm_cb has answered.
Confirmed(c, approved) ==
    /\ pc[c] = "confirm"
    /\ IF approved THEN TryTask(c) ELSE GiveResult(c)
    /\ UNCHANGED <<conv, gated, turn, round, reply, turns, history>>

\* Variant with a fault: what Hermes fails at is tried again.
HermesDoneOrRetried(c) ==
    /\ pc[c] = "hermes"
    /\ unrecorded' = unrecorded \cup {UseId(c)}
    /\ GiveResult(c) \/ (Goes(c, "tool_call") /\ UNCHANGED sink)
    /\ UNCHANGED <<conv, gated, turn, round, reply, turns, unpaired, overlapped, cut>>

\* Hermes has run the task, or failed at it: a result either way.
HermesDone(c) ==
    /\ pc[c] = "hermes"
    /\ unrecorded' = unrecorded \cup {UseId(c)}
    /\ GiveResult(c)
    /\ UNCHANGED <<conv, gated, turn, round, reply, turns, unpaired, overlapped, cut>>

NextTool(c) ==
    /\ pc[c] = "tool_result" /\ Len(sink[c]) < reply[c]
    /\ Goes(c, "tool_call")
    /\ UNCHANGED <<conv, gated, turn, round, reply, sink, turns, history>>

\* Variant with a fault: one round more.
LastRoundTooLate(c) == round[c] = MaxRounds

LastRound(c) == round[c] + 1 = MaxRounds

\* Variant with a fault: off by one, without the result of the last use.
StoreResultsEarly(c) ==
    /\ pc[c] = "tool_result" /\ Len(sink[c]) + 1 >= reply[c] /\ ~LastRound(c)
    /\ conv' = Append(conv, Message(turn[c], "results", sink[c]))
    /\ round' = [round EXCEPT ![c] = @ + 1]
    /\ CallLlm(c)
    /\ unrecorded' = unrecorded \ ToSet(sink[c])
    /\ UNCHANGED <<gated, turn, reply, sink, turns, overlapped, cut>>

\* The results are stored, and the next round begins.
StoreResults(c) ==
    /\ pc[c] = "tool_result" /\ Len(sink[c]) = reply[c] /\ ~LastRound(c)
    /\ conv' = Append(conv, Message(turn[c], "results", sink[c]))
    /\ round' = [round EXCEPT ![c] = @ + 1]
    /\ CallLlm(c)
    /\ unrecorded' = unrecorded \ ToSet(sink[c])
    /\ UNCHANGED <<gated, turn, reply, sink, turns, overlapped, cut>>

\* Variant with a fault: the results of the last round are not stored.
RunOutWithoutResults(c) ==
    /\ pc[c] = "tool_result" /\ Len(sink[c]) = reply[c] /\ LastRound(c)
    /\ conv' = Append(conv, Message(turn[c], "text", <<>>))
    /\ Goes(c, "final")
    /\ UNCHANGED <<gated, turn, round, reply, sink, turns, history>>

\* It was the last round: the for loop's else clause answers for the model.
RunOut(c) ==
    /\ pc[c] = "tool_result" /\ Len(sink[c]) = reply[c] /\ LastRound(c)
    /\ conv' = conv \o <<Message(turn[c], "results", sink[c]),
                         Message(turn[c], "text", <<>>)>>
    /\ unrecorded' = unrecorded \ ToSet(sink[c])
    /\ Goes(c, "final")
    /\ UNCHANGED <<gated, turn, round, reply, sink, turns, unpaired, overlapped, cut>>

-----------------------------------------------------------------------------
\* _speak, or its failure, and the final event.
Finish(c) ==
    /\ pc[c] = "final"
    /\ Ends(c)
    /\ UNCHANGED <<conv, gated, turns, overlapped, cut, unrecorded>>

\* An await raises: the model's or Hermes' client, confirm_cb, or send_json to
\* a socket that is gone.  ws logs it and ends; nothing is taken back.
Cut(c) ==
    /\ pc[c] # "idle"
    /\ Ends(c)
    /\ cut' = cut \cup {turn[c]}
    /\ UNCHANGED <<conv, gated, turns, overlapped, unrecorded>>

-----------------------------------------------------------------------------
\* What goes on by itself, once its awaits come back.
TurnStep(c) ==
    \/ StoreAnswer(c)
    \/ \E n \in 1 .. MaxUses - round[c] : StoreUses(c, n)
    \/ ToolCalled(c) \/ HermesDone(c) \/ NextTool(c) \/ StoreResults(c) \/ RunOut(c)
    \/ Finish(c)

Next == \E c \in Conn :
    \/ StartTurn(c)
    \/ TurnStep(c)
    \/ \E approved \in BOOLEAN : Confirmed(c, approved)
    \/ Cut(c)

\* The clients of the model, of Hermes and of the voice have timeouts, so an
\* await ends; confirm_cb asks a person and need not.
Spec == Init /\ [][Next]_vars /\ \A c \in Conn : WF_vars(TurnStep(c))

-----------------------------------------------------------------------------
TypeOK ==
    /\ \A i \in DOMAIN conv :
          conv[i].turn \in 1 .. turns /\ conv[i].kind \in {"user", "uses", "results", "text"}
    /\ pc \in [Conn -> {"idle", "llm", "tool_call", "confirm", "hermes",
                        "tool_result", "final"}]
    /\ turn \in [Conn -> 0 .. MaxTurns]
    /\ round \in [Conn -> 0 .. MaxRounds - 1]
    /\ \A c \in Conn : reply[c] \in 0 .. MaxUses /\ Len(sink[c]) <= MaxUses
    /\ turns \in 0 .. MaxTurns

\* The model is sent a use without its results only where the message of
\* another turn follows it directly: two turns of the session ran at once, or
\* the turn that used the tool was cut off.  Nothing repairs it afterwards.
CallsArePaired ==
    unpaired # {} =>
       \E i \in 1 .. Len(conv) - 1 :
          /\ conv[i].kind = "uses" /\ conv[i + 1].turn # conv[i].turn
          /\ overlapped \/ conv[i].turn \in cut

\* What turn k has said: its messages, in their order.
Said(messages, k) ==
    LET mine   == {i \in DOMAIN messages : messages[i].turn = k}
        nth(n) == CHOOSE i \in mine : Cardinality({j \in mine : j <= i}) = n
    IN  [n \in 1 .. Cardinality(mine) |->
            [kind |-> messages[nth(n)].kind, ids |-> messages[nth(n)].ids]]

Sayings == [k \in Turn |-> Said(conv, k)]

Turns == INSTANCE Dialogue WITH said <- Sayings

\* Each turn for itself is well formed, however turns interleave and break off:
\* what others put between a use and its results is all that can go wrong.
TurnsAreDialogues == Turns!Spec

\* What Hermes did on the computer comes to be on record in the conversation:
\* else its turn is still on its way there, or was cut off.
WorkOnRecord ==
    \A id \in unrecorded :
       id[1] \in cut \/ \E c \in Busy : id \in ToSet(sink[c]) /\ pc[c] # "final"

\* A turn ends, unless it waits for a person to confirm.
TurnsEnd == \A c \in Conn : pc[c] = "llm" ~> pc[c] \in {"idle", "confirm"}

\* The conversation of a session, however its turns interleave and break off.
SessionInv ==
    /\ TypeOK
    /\ CallsArePaired
    /\ WorkOnRecord

=============================================================================
