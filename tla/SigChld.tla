------------------------------- MODULE SigChld ------------------------------
(***************************************************************************)
(* Children, SIGCHLD and the handler that reaps them, as in                *)
(* process/zombie.cc and process/echo_waitpid.cc: a handler installed with *)
(* signal() calls waitpid( -1, nullptr, WNOHANG ) while it returns a pid.  *)
(*                                                                         *)
(* A signal has no count: while one SIGCHLD is pending others are lost,    *)
(* and while the handler runs one more can wait.  The handler interrupts   *)
(* the parent, which takes no step of its own until it has returned.       *)
(***************************************************************************)
CONSTANT Pids  \* process ids the kernel hands out to children

VARIABLES
  child,    \* Pids -> "none", "run" or "zombie"
  pending,  \* a SIGCHLD is pending for the parent
  handling  \* the parent is in its handler

sigVars == <<child, pending, handling>>

SigTypeOK ==
  /\ child \in [Pids -> {"none", "run", "zombie"}]
  /\ pending \in BOOLEAN
  /\ handling \in BOOLEAN

SigInit ==
  /\ child = [p \in Pids |-> "none"]
  /\ pending = FALSE
  /\ handling = FALSE

Running == {p \in Pids : child[p] = "run"}
Zombies == {p \in Pids : child[p] = "zombie"}

Forked(p) == child[p] = "none" /\ child' = [child EXCEPT ![p] = "run"]

Dies(p) ==
  /\ child[p] = "run"
  /\ child' = [child EXCEPT ![p] = "zombie"]
  /\ pending' = TRUE
  /\ UNCHANGED handling

EnterHandler ==
  /\ pending /\ ~handling
  /\ pending' = FALSE
  /\ handling' = TRUE
  /\ UNCHANGED child

\* if instead of while: one child per SIGCHLD.
WaitBug(p) ==
  /\ handling /\ p \in Zombies
  /\ child' = [child EXCEPT ![p] = "none"]
  /\ handling' = FALSE
  /\ UNCHANGED pending
\* waitpid() returns a pid: once more round the loop.
Wait(p) ==
  /\ handling /\ p \in Zombies
  /\ child' = [child EXCEPT ![p] = "none"]
  /\ UNCHANGED <<pending, handling>>

\* It returns 0 or -1.
LeaveHandler ==
  /\ handling /\ Zombies = {}
  /\ handling' = FALSE
  /\ UNCHANGED <<child, pending>>

\* The comment of lines 31 to 37 of zombie.cc: although SIGCHLDs are lost,
\* no zombie is: the handler is at work or will be called again.
NoZombieForgotten == Zombies # {} => pending \/ handling

=============================================================================
