---------------------------- MODULE MCChatSystem ----------------------------
(* Small instances of ChatSystem for TLC. *)
EXTENDS ChatSystem

=============================================================================
