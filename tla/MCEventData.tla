----------------------------- MODULE MCEventData ----------------------------
(* EventData for TLC.                                                       *)
EXTENDS EventData

=============================================================================
