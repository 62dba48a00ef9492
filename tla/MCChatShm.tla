------------------------------ MODULE MCChatShm -----------------------------
(* Small instances of ChatShm for TLC. *)
EXTENDS ChatShm, TLC

\* Sound in the runs that check safety only.
Symmetry == Permutations(Pids)

=============================================================================
