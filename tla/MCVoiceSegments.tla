--------------------------- MODULE MCVoiceSegments ---------------------------
(***************************************************************************)
(* Instances of VoiceSegments for TLC: the bounds are in the .cfg files.   *)
(***************************************************************************)
EXTENDS VoiceSegments

=============================================================================
