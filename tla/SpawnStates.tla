----------------------------- MODULE SpawnStates -----------------------------
(***************************************************************************)
(* The state machine of a spawn task, as agent_factory/models.py writes it *)
(* down: the states, the table of permitted transitions and the terminal   *)
(* states derived from the table.                                          *)
(***************************************************************************)

State == {"pending", "researching", "drafting_spec", "writing_prompt",
          "awaiting_approval", "approved", "rejected", "failed"}

\* _TRANSITIONS: the states one permitted transition away from s.
Transitions(s) ==
    CASE s = "pending"           -> {"researching", "failed"}
      [] s = "researching"       -> {"drafting_spec", "failed"}
      [] s = "drafting_spec"     -> {"writing_prompt", "failed"}
      [] s = "writing_prompt"    -> {"awaiting_approval", "failed"}
      [] s = "awaiting_approval" -> {"approved", "rejected", "writing_prompt", "failed"}
      [] OTHER                   -> {}

\* TERMINAL_STATES: the states the table gives no successor.
TerminalStates == {s \in State : Transitions(s) = {}}

\* assert_transition: TRUE when it returns, FALSE when it raises.
Legal(src, dst) == dst \in Transitions(src)

=============================================================================
