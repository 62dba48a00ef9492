----------------------------- MODULE ChatRoster -----------------------------
(***************************************************************************)
(* What the server of demo/chat_server_shm.cc promises about its children: *)
(* a roster of at most Capacity names.  A name is on it from the moment    *)
(* its process exists until the process has died and been waited for, so   *)
(* no name is dropped early, kept for ever or listed twice.  The server    *)
(* closes only when told to, and then with at most one name left.          *)
(***************************************************************************)
EXTENDS Integers, FiniteSets

CONSTANTS Names, Capacity

VARIABLES
  members,  \* the names on the roster
  dead,     \* those of them whose process has died
  closed    \* main() has returned

vars == <<members, dead, closed>>

Init == members = {} /\ dead = {} /\ closed = FALSE

Join(p) ==
  /\ ~closed /\ p \notin members
  /\ Cardinality(members) < Capacity
  /\ members' = members \cup {p}
  /\ UNCHANGED <<dead, closed>>

\* A process dies when it likes, after the server has closed too.
Die(p) ==
  /\ p \in members \ dead
  /\ dead' = dead \cup {p}
  /\ UNCHANGED <<members, closed>>

Leave(p) ==
  /\ ~closed /\ p \in dead
  /\ members' = members \ {p}
  /\ dead' = dead \ {p}
  /\ UNCHANGED closed

Close ==
  /\ ~closed /\ Cardinality(members) <= 1
  /\ closed' = TRUE
  /\ UNCHANGED <<members, dead>>

Next == Close \/ \E p \in Names : Join(p) \/ Die(p) \/ Leave(p)

Spec == Init /\ [][Next]_vars

=============================================================================
