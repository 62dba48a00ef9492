----------------------------- MODULE EchoWaitpid ----------------------------
(***************************************************************************)
(* process/echo_waitpid.cc: a server that forks a child per connection,    *)
(* which echoes once and exits.  Parent and child each hold a descriptor   *)
(* of the connection; the client sees its end only when both have closed.  *)
(* signal() restarts an accept() the handler interrupted.                  *)
(***************************************************************************)
EXTENDS SigChld, Integers, FiniteSets

CONSTANTS
  Conns,      \* connections clients make
  FD_LIMIT,   \* descriptors the parent may open for them
  Faults      \* calls that may fail, a subset of {"accept", "fork"}

ASSUME WaitpidAssumption == FD_LIMIT \in Nat \ {0}

VARIABLES
  pc,      \* "accept", "fork", "close" or "dead"
  conn,    \* the connection just accepted, a set of one, or none
  state,   \* Conns -> "new", "queued", "served" or "over", as its client sees it
  text,    \* the client has sent its text and no child has read it
  echoed,  \* what it sent has come back
  quiet,   \* the client will send no more
  held,    \* connections the parent has a descriptor of
  holds,   \* Pids -> the connections the child has a descriptor of
  serves   \* Pids -> the connection the child is to echo

mainVars == <<pc, conn>>
connVars == <<state, text, echoed, quiet>>
fdVars == <<held, holds, serves>>
vars == <<sigVars, mainVars, connVars, fdVars>>

TypeOK ==
  /\ SigTypeOK
  /\ pc \in {"accept", "fork", "close", "dead"}
  /\ conn \in SUBSET Conns
  /\ state \in [Conns -> {"new", "queued", "served", "over"}]
  /\ text \in [Conns -> BOOLEAN] /\ echoed \in [Conns -> BOOLEAN]
  /\ quiet \in [Conns -> BOOLEAN]
  /\ held \subseteq Conns /\ Cardinality(held) <= 1
  /\ holds \in [Pids -> SUBSET Conns] /\ serves \in [Pids -> SUBSET Conns]

Init ==
  /\ SigInit
  /\ pc = "accept" /\ conn = {}
  /\ state = [c \in Conns |-> "new"]
  /\ text = [c \in Conns |-> FALSE] /\ echoed = [c \in Conns |-> FALSE]
  /\ quiet = [c \in Conns |-> FALSE]
  /\ held = {}
  /\ holds = [p \in Pids |-> {}] /\ serves = [p \in Pids |-> {}]

\* What clients see once the descriptors are those given.
Ends(heldNext, holdsNext) ==
  state' = [c \in Conns |->
              IF state[c] = "served" /\ c \notin heldNext
                 /\ \A p \in Pids : c \notin holdsNext[p]
              THEN "over" ELSE state[c]]

-----------------------------------------------------------------------------
(* Clients.                                                                 *)

Connect(c) ==
  /\ state[c] = "new"
  /\ state' = [state EXCEPT ![c] = "queued"]
  /\ UNCHANGED <<sigVars, mainVars, text, echoed, quiet, fdVars>>

Sends(c) ==
  /\ state[c] \in {"queued", "served"} /\ ~quiet[c]
  /\ text' = [text EXCEPT ![c] = TRUE]
  /\ quiet' = [quiet EXCEPT ![c] = TRUE]
  /\ UNCHANGED <<sigVars, mainVars, state, echoed, fdVars>>

\* It shuts its sending side without a word.
Leaves(c) ==
  /\ state[c] \in {"queued", "served"} /\ ~quiet[c]
  /\ quiet' = [quiet EXCEPT ![c] = TRUE]
  /\ UNCHANGED <<sigVars, mainVars, state, text, echoed, fdVars>>

-----------------------------------------------------------------------------
(* The parent.                                                              *)

Main == pc # "dead" /\ ~handling

Accept(c) ==
  /\ Main /\ pc = "accept"
  /\ state[c] = "queued"
  /\ Cardinality(held) < FD_LIMIT
  /\ state' = [state EXCEPT ![c] = "served"]
  /\ held' = held \cup {c}
  /\ conn' = {c}
  /\ pc' = "fork"
  /\ UNCHANGED <<sigVars, text, echoed, quiet, holds, serves>>

\* Accept() returns nullptr, which parent and child then dereference.
AcceptFails ==
  /\ Main /\ pc = "accept"
  /\ \E c \in Conns : state[c] = "queued"
  /\ "accept" \in Faults \/ Cardinality(held) >= FD_LIMIT
  /\ pc' = "dead"
  /\ UNCHANGED <<sigVars, conn, connVars, fdVars>>

Fork(p) ==
  /\ Main /\ pc = "fork"
  /\ Forked(p)
  /\ holds' = [holds EXCEPT ![p] = held]
  /\ serves' = [serves EXCEPT ![p] = conn]
  /\ pc' = "close"
  /\ UNCHANGED <<pending, handling, conn, connVars, held>>

\* fork() returns -1, which the code takes for the parent's side.
ForkFails ==
  /\ Main /\ pc = "fork"
  /\ "fork" \in Faults \/ \A p \in Pids : child[p] # "none"
  /\ pc' = "close"
  /\ UNCHANGED <<sigVars, conn, connVars, fdVars>>

\* The parent leaves the connection to its child.
StillHeldBug == held
StillHeld == held \ conn

Close ==
  /\ Main /\ pc = "close"
  /\ held' = StillHeld
  /\ Ends(held', holds)
  /\ pc' = "accept" /\ conn' = {}
  /\ UNCHANGED <<sigVars, text, echoed, quiet, holds, serves>>

Handler ==
  /\ pc # "dead"
  /\ EnterHandler \/ LeaveHandler \/ \E p \in Pids : Wait(p)
  /\ UNCHANGED <<mainVars, connVars, fdVars>>

-----------------------------------------------------------------------------
(* The child: read() whatever comes first, write() it back, close, exit.    *)

Echo(p) ==
  /\ child[p] = "run"
  /\ \E c \in serves[p] :
       /\ text[c] \/ quiet[c]
       /\ text' = [text EXCEPT ![c] = FALSE]
       /\ echoed' = [echoed EXCEPT ![c] = text[c]]
  /\ Dies(p)
  /\ holds' = [holds EXCEPT ![p] = {}]
  /\ serves' = [serves EXCEPT ![p] = {}]
  /\ Ends(held, holds')
  /\ UNCHANGED <<mainVars, quiet, held>>

Server ==
  \/ AcceptFails \/ ForkFails \/ Close \/ Handler
  \/ \E c \in Conns : Accept(c)
  \/ \E p \in Pids : Fork(p)

Next ==
  \/ Server
  \/ \E p \in Pids : Echo(p)
  \/ \E c \in Conns : Connect(c) \/ Sends(c) \/ Leaves(c)

Spec == Init /\ [][Next]_vars
FairSpec == Spec /\ WF_vars(Server) /\ \A p \in Pids : WF_vars(Echo(p))

-----------------------------------------------------------------------------
(* Properties.                                                              *)

\* A client that has spoken, or said it will not, sees the connection end:
\* no process keeps a descriptor of it (lines 49 and 52).
ClientSeesEnd ==
  \A c \in Conns : (state[c] = "served" /\ quiet[c]) ~> (state[c] = "over" \/ pc = "dead")

\* Every child that has ended is reaped, though SIGCHLDs are lost.
ChildrenReaped ==
  \A p \in Pids : child[p] = "zombie" ~> (child[p] = "none" \/ pc = "dead")

\* However many connections it has served, the parent has a descriptor left
\* for the next one.
NeverOutOfDescriptors == pc = "accept" => Cardinality(held) < FD_LIMIT

=============================================================================
