----------------------------- MODULE MCChatMain -----------------------------
(* Small instances of ChatMain for TLC. *)
EXTENDS ChatMain, TLC

\* Sound in the runs that check safety only.
Symmetry == Permutations(Pids)

=============================================================================
