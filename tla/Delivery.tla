------------------------------ MODULE Delivery ------------------------------
(***************************************************************************)
(* What a loop that tells somebody of things that have come due promises,  *)
(* when it may die between telling and recording what was told.  It can    *)
(* tell first and record later, or record first and tell later; which of   *)
(* the two decides what a crash costs.                                     *)
(***************************************************************************)
EXTENDS Naturals

CONSTANT Item            \* what comes due

VARIABLES
    sent,           \* sent[i]: how often i was told
    settled         \* the items on record as told

vars == <<sent, settled>>

Init == sent = [i \in Item |-> 0] /\ settled = {}

\* Tell first: what is on record was told, and is not told again.
TellUnsettled(i) ==
    /\ i \in Item \ settled
    /\ sent' = [sent EXCEPT ![i] = @ + 1]
    /\ UNCHANGED settled

SettleTold ==
    /\ settled' \in SUBSET {i \in Item : sent[i] > 0}
    /\ settled \subseteq settled'
    /\ UNCHANGED sent

AtLeastOnce == Init /\ [][(\E i \in Item : TellUnsettled(i)) \/ SettleTold]_vars

\* Record first: what is told is on record, and was not told before.
Settle ==
    /\ settled' \in SUBSET Item
    /\ settled \subseteq settled'
    /\ UNCHANGED sent

TellSettledOnce(i) ==
    /\ i \in settled
    /\ sent[i] = 0
    /\ sent' = [sent EXCEPT ![i] = 1]
    /\ UNCHANGED settled

AtMostOnce == Init /\ [][(\E i \in Item : TellSettledOnce(i)) \/ Settle]_vars

=============================================================================
