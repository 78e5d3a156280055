-------------------------------- MODULE MCWren --------------------------------
(***************************************************************************)
(* Wren's files for TLC.  The JSON files and config.yaml have nothing to   *)
(* do with each other but the switch, which the heartbeat reads once: a    *)
(* behaviour is about one of them, chosen at the start, and the heartbeat  *)
(* of the first may find the switch either way.                            *)
(***************************************************************************)
EXTENDS WrenHeartbeat, WrenConfig

CONSTANTS c1, c2, buy, call

VARIABLE about

OneChat     == {c1}
TwoSessions == {c1, c2}
TwoTexts    == {buy, call}

MCInit == about \in {"notices", "config"} /\ Init /\ ConfigInit

MCNext ==
    \/ about = "notices" /\ Next /\ UNCHANGED <<about, configVars>>
    \/ about = "config" /\ ConfigNext /\ UNCHANGED <<about, vars>>

MCSpec ==
    /\ MCInit /\ [][MCNext]_<<about, vars, configVars>>
    /\ WF_<<about, vars, configVars>>(
          about = "notices" /\ FairStep /\ UNCHANGED <<about, configVars>>)

=============================================================================
