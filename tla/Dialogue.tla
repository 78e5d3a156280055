------------------------------- MODULE Dialogue -------------------------------
(***************************************************************************)
(* What the turns of a conversation with tools promise, each for itself:   *)
(* the user's message, then rounds in which the model uses tools and is    *)
(* given the result of every use, in order, and then an answer.  A turn    *)
(* may break off anywhere, and says no more.                               *)
(***************************************************************************)
EXTENDS Naturals, Sequences, SequencesExt

CONSTANTS Turn, MaxRounds

VARIABLE said            \* said[k]: the messages of turn k, [kind, ids]

Init == said = [k \in Turn |-> <<>>]

\* Turn k says one more thing, of this kind.
Says(k, kind) ==
    /\ said'[k] # <<>> /\ Last(said'[k]).kind = kind
    /\ said' = [said EXCEPT ![k] = Append(@, Last(said'[k]))]

Open(k) == said[k] # <<>> /\ Last(said[k]).kind \in {"user", "results"}

Begin(k)  == said[k] = <<>> /\ Says(k, "user")

\* Every round takes two messages.
Use(k)    == Open(k) /\ Len(said[k]) < 2 * MaxRounds /\ Says(k, "uses")

Result(k) ==
    /\ said[k] # <<>> /\ Last(said[k]).kind = "uses"
    /\ Says(k, "results")
    /\ Last(said'[k]).ids = Last(said[k]).ids

Answer(k) == Open(k) /\ Says(k, "text")

\* With the results of the last round comes an answer.
RunOut(k) ==
    /\ Len(said[k]) = 2 * MaxRounds /\ Last(said[k]).kind = "uses"
    /\ Len(said'[k]) = Len(said[k]) + 2
    /\ LET results == said'[k][Len(said[k]) + 1]
           answer  == Last(said'[k])
       IN  /\ results.kind = "results" /\ results.ids = Last(said[k]).ids
           /\ answer.kind = "text"
           /\ said' = [said EXCEPT ![k] = @ \o <<results, answer>>]

Next == \E k \in Turn : Begin(k) \/ Use(k) \/ Result(k) \/ Answer(k) \/ RunOut(k)

Spec == Init /\ [][Next]_said
=============================================================================
