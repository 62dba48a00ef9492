---------------------------- MODULE MCSelectTable ---------------------------
(* SelectTable for TLC.                                                     *)
EXTENDS SelectTable

=============================================================================
