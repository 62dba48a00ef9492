------------------------------- MODULE Zombie -------------------------------
(***************************************************************************)
(* process/zombie.cc, solveWithSignal(): a parent forks five children,     *)
(* sleeps for ten seconds so that they end first, and returns.  A signal   *)
(* handled meanwhile ends the sleep.                                       *)
(***************************************************************************)
EXTENDS SigChld, Integers

CONSTANT NCHILD  \* children forked, 5 in the source

VARIABLES
  pc,  \* "fork", "sleep" or "exit"
  i    \* children forked so far

vars == <<sigVars, pc, i>>

TypeOK == SigTypeOK /\ pc \in {"fork", "sleep", "exit"} /\ i \in 0 .. NCHILD

Init == SigInit /\ pc = "fork" /\ i = 0

Main == pc # "exit" /\ ~handling

Fork(p) ==
  /\ Main /\ pc = "fork" /\ i < NCHILD
  /\ Forked(p)
  /\ i' = i + 1
  /\ UNCHANGED <<pending, handling, pc>>

\* exit( 1 ).
ForkFails ==
  /\ Main /\ pc = "fork" /\ i < NCHILD
  /\ pc' = "exit"
  /\ UNCHANGED <<sigVars, i>>

Sleep ==
  /\ Main /\ pc = "fork" /\ i = NCHILD
  /\ pc' = "sleep"
  /\ UNCHANGED <<sigVars, i>>

\* Ten seconds are over: more than a child, which only prints, needs.
SleepOver ==
  /\ Main /\ pc = "sleep"
  /\ Running = {}
  /\ pc' = "exit"
  /\ UNCHANGED <<sigVars, i>>

\* The handler returns, and the sleep it interrupted with it.
Returns ==
  /\ pc # "exit"
  /\ LeaveHandler
  /\ pc' = IF pc = "sleep" THEN "exit" ELSE pc
  /\ UNCHANGED i

Handler ==
  /\ pc # "exit"
  /\ EnterHandler \/ \E p \in Pids : Wait(p)
  /\ UNCHANGED <<pc, i>>

ChildExits(p) == Dies(p) /\ UNCHANGED <<pc, i>>

Parent == ForkFails \/ Sleep \/ SleepOver \/ Returns \/ Handler \/ \E p \in Pids : Fork(p)

Next == Parent \/ \E p \in Pids : ChildExits(p)

Spec == Init /\ [][Next]_vars

=============================================================================
