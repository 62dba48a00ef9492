----------------------------- MODULE ChatSystem -----------------------------
(***************************************************************************)
(* The whole chat service of demo/chat_server_shm.cc: the server process   *)
(* of ChatMain, the child processes running run_child, and their clients.  *)
(*                                                                         *)
(* A child sits in an edge-triggered epoll loop of its own over its        *)
(* client's connection and its end of the socketpair.  It handles SIGTERM  *)
(* only once it has installed child_term_handler, and looks at stop_child  *)
(* only between two batches of events.                                     *)
(*                                                                         *)
(* The server's steps are those of ChatMain, with what a child sees of     *)
(* them added; the steps of run_child refine ChatMain's arbitrary child.   *)
(* Failing system calls stay in ChatMain: here Faults is empty and there   *)
(* are descriptors enough, so that SocketpairAborts never happens.         *)
(***************************************************************************)
EXTENDS ChatMain

CONSTANTS
  RECV_CAP,    \* pieces of text one recv() takes, BUFFER_SIZE - 1 bytes in the source
  MaxClients,  \* bound: connections made by clients
  Talkers,     \* bound: the children whose clients send text
  Chunks       \* bound: pieces of text a client has sent and the child not read

ASSUME SystemAssumption ==
  /\ RECV_CAP \in Nat \ {0} /\ MaxClients \in Nat /\ Chunks \in Nat
  /\ Talkers \subseteq Pids
  /\ Faults = {} /\ FD_LIMIT >= USER_LIMIT + 2

VARIABLES
  cpc,         \* where the child is: "fork", "closed", "loop", "enter", "wait" or "recv"
  stop_child,  \* the child's copy of the global flag
  cready,      \* ready list of child_epollfd, a subset of {"conn", "pipe"}
  cevents,     \* events of its current batch still to be looked at
  typed,       \* pieces of text waiting in connfd
  gone,        \* the client has closed its end, or its connection was reset
  clients      \* connections made so far

runVars == <<cpc, stop_child, cready, cevents>>
clientVars == <<typed, gone>>
sysVars == <<vars, runVars, clientVars, clients>>

Source == {"conn", "pipe"}

SysTypeOK ==
  /\ TypeOK
  /\ cpc \in [Pids -> {"none", "fork", "closed", "loop", "enter", "wait", "recv"}]
  /\ stop_child \in [Pids -> BOOLEAN]
  /\ cready \in [Pids -> SUBSET Source]
  /\ cevents \in [Pids -> SUBSET Source]
  /\ typed \in [Pids -> 0 .. Chunks]
  /\ gone \in [Pids -> BOOLEAN]
  /\ clients \in 0 .. MaxClients

SysInit ==
  /\ Init
  /\ cpc = [p \in Pids |-> "none"]
  /\ stop_child = [p \in Pids |-> FALSE]
  /\ cready = [p \in Pids |-> {}]
  /\ cevents = [p \in Pids |-> {}]
  /\ typed = [p \in Pids |-> 0]
  /\ gone = [p \in Pids |-> FALSE]
  /\ clients = 0

-----------------------------------------------------------------------------
(* Clients.                                                                 *)

Connect ==
  /\ clients < MaxClients
  /\ clients' = clients + 1
  /\ ClientConnects
  /\ UNCHANGED <<runVars, clientVars>>

Types(p) ==
  /\ p \in Talkers /\ proc[p] = "run" /\ ~gone[p] /\ typed[p] < Chunks
  /\ typed' = [typed EXCEPT ![p] = @ + 1]
  /\ cready' = [cready EXCEPT ![p] = @ \cup {"conn"}]
  /\ UNCHANGED <<vars, cpc, stop_child, cevents, gone, clients>>

\* The client closes its end, or resets the connection.  When it has closed it
\* a reset may still follow, as an event of its own, in answer to a text that
\* the child sends it.  What it had sent before can still be received.
Leaves(p) ==
  /\ proc[p] = "run" /\ (gone[p] => Talkers # {})
  /\ gone' = [gone EXCEPT ![p] = TRUE]
  /\ cready' = [cready EXCEPT ![p] = @ \cup {"conn"}]
  /\ UNCHANGED <<vars, cpc, stop_child, cevents, typed, clients>>

-----------------------------------------------------------------------------
(* The server's steps and what they do to the children.                     *)

\* The new child has the parent's handlers.  Its client may have typed, or
\* left, while it waited to be accepted.
Forks(p) ==
  /\ Admit(p)
  /\ cpc' = [cpc EXCEPT ![p] = "fork"]
  /\ stop_child' = [stop_child EXCEPT ![p] = FALSE]
  /\ cevents' = [cevents EXCEPT ![p] = {}]
  /\ \E n \in 0 .. Chunks, left \in BOOLEAN :
       /\ n = 0 \/ p \in Talkers
       /\ typed' = [typed EXCEPT ![p] = n]
       /\ gone' = [gone EXCEPT ![p] = left]
       /\ cready' = [cready EXCEPT ![p] = IF n > 0 \/ left THEN {"conn"} ELSE {}]
  /\ UNCHANGED clients

Relays(fd) ==
  /\ Relay(fd)
  /\ cready' = [q \in Pids |-> IF down'[q] # down[q] THEN cready[q] \cup {"pipe"} ELSE cready[q]]
  /\ UNCHANGED <<cpc, stop_child, cevents, clientVars, clients>>

\* When the server has left its descriptors are closed; nobody else holds
\* the other end of a surviving child's socketpair, since at most one
\* survives (ExitLeavesAtMostOne), so the child sees end of file.
Returns ==
  /\ Exit
  /\ cready' = [q \in Pids |-> IF proc[q] = "run" THEN cready[q] \cup {"pipe"} ELSE cready[q]]
  /\ UNCHANGED <<cpc, stop_child, cevents, clientVars, clients>>

\* Steps of the server that no child notices.
Alone ==
  /\ \/ EpollWait \/ AcceptFails \/ Reject \/ ReadSignals
     \/ \E p \in Pids : Reap(p)
     \/ ReapEnd \/ Terminate
     \/ \E fd \in Fds : RelayNothing(fd)
  /\ UNCHANGED <<runVars, clientVars, clients>>

SysServer ==
  \/ Alone \/ Returns
  \/ \E p \in Pids : Forks(p)
  \/ \E fd \in Fds : Relays(fd)

-----------------------------------------------------------------------------
(* run_child.                                                               *)

At(p, where) == proc[p] = "run" /\ cpc[p] = where

Goes(p, where) == cpc' = [cpc EXCEPT ![p] = where]

Stops(p) == stop_child' = [stop_child EXCEPT ![p] = TRUE]

\* The child closes what it inherited, the signal pipe among it.
ClosesInherited(p) ==
  /\ At(p, "fork")
  /\ Goes(p, "closed")
  /\ UNCHANGED <<vars, stop_child, cready, cevents, clientVars, clients>>

\* epoll_create(), two addfd() and, last, the SIGTERM handler.
InstallsHandler(p) ==
  /\ At(p, "closed")
  /\ Goes(p, "loop")
  /\ UNCHANGED <<vars, stop_child, cready, cevents, clientVars, clients>>

\* while( !stop_child ), between two batches.
Continues(p) ==
  /\ At(p, "loop") /\ cevents[p] = {}
  /\ ~stop_child[p]
  /\ Goes(p, "enter")
  /\ UNCHANGED <<vars, stop_child, cready, cevents, clientVars, clients>>

\* Without line 291 the server itself would keep the other end open, and see
\* no end of file.
EndsBug(p) ==
  /\ At(p, "loop") /\ cevents[p] = {}
  /\ stop_child[p]
  /\ proc' = [proc EXCEPT ![p] = "zombie"]
  /\ down' = [down EXCEPT ![p] = << >>]
  /\ pending' = pending \cup {"CHLD"}
  /\ Goes(p, "none")
  /\ UNCHANGED <<mainVars, netVars, sigpipe, fdtab, slot, termed, up,
                 stop_child, cready, typed, gone, cevents, clients>>

\* It closes its descriptors and exits.
Ends(p) ==
  /\ At(p, "loop") /\ cevents[p] = {}
  /\ stop_child[p]
  /\ ChildExits(p)
  /\ Goes(p, "none")
  /\ stop_child' = [stop_child EXCEPT ![p] = FALSE]
  /\ cready' = [cready EXCEPT ![p] = {}]
  /\ typed' = [typed EXCEPT ![p] = 0]
  /\ gone' = [gone EXCEPT ![p] = FALSE]
  /\ UNCHANGED <<cevents, clients>>

EntersWait(p) ==
  /\ At(p, "enter")
  /\ Goes(p, "wait")
  /\ UNCHANGED <<vars, stop_child, cready, cevents, clientVars, clients>>

\* epoll_wait() reports a source that had an event and is readable by now.
\* The child is the only reader of both, so no recv() fails with EAGAIN.
Readable(p) ==
  {source \in {"conn", "pipe"} :
     \/ source = "conn" /\ (typed[p] > 0 \/ gone[p])
     \/ source = "pipe" /\ (down[p] # << >> \/ mpc # "run")}

Wakes(p) ==
  /\ At(p, "wait") /\ cready[p] \cap Readable(p) # {}
  /\ cevents' = [cevents EXCEPT ![p] = cready[p] \cap Readable(p)]
  /\ cready' = [cready EXCEPT ![p] = {}]
  /\ Goes(p, "loop")
  /\ UNCHANGED <<vars, stop_child, clientVars, clients>>

\* A break after one event would forget the rest of the batch.
LooksBug(p, source) ==
  /\ At(p, "loop") /\ source \in cevents[p]
  /\ cevents' = [cevents EXCEPT ![p] = {}]
Looks(p, source) ==
  /\ At(p, "loop") /\ source \in cevents[p]
  /\ cevents' = [cevents EXCEPT ![p] = @ \ {source}]

\* An event of the connection: the child clears its slot, then calls recv().
ClearsSlot(p) ==
  /\ Looks(p, "conn")
  /\ Goes(p, "recv")
  /\ UNCHANGED <<vars, stop_child, cready, clientVars, clients>>

\* One recv() takes what fits into the slot.  A rest stays where it is, with
\* no event of its own.  The slot number goes to the server unless the
\* socketpair is full.
ReadsText(p) ==
  /\ At(p, "recv") /\ typed[p] > 0
  /\ Goes(p, "loop")
  /\ typed' = [typed EXCEPT ![p] = IF @ > RECV_CAP THEN @ - RECV_CAP ELSE 0]
  /\ ChildNotifies(p) \/ (up[p] = PIPE_CAP /\ UNCHANGED vars)
  /\ UNCHANGED <<stop_child, cready, cevents, gone, clients>>

\* recv() returns 0, or fails because the client has reset the connection:
\* the child stops either way.
SeesClientGoneBug(p) ==
  /\ At(p, "recv") /\ typed[p] = 0 /\ gone[p]
  /\ Goes(p, "loop")
  /\ UNCHANGED <<vars, stop_child, cready, cevents, clientVars, clients>>
SeesClientGone(p) ==
  /\ At(p, "recv") /\ typed[p] = 0 /\ gone[p]
  /\ Goes(p, "loop")
  /\ Stops(p)
  /\ UNCHANGED <<vars, cready, cevents, clientVars, clients>>

\* One slot number is read and that slot's text sent to the client.
ReadsNumber(p) ==
  /\ Looks(p, "pipe") /\ down[p] # << >>
  /\ ChildReads(p)
  /\ UNCHANGED <<cpc, stop_child, cready, clientVars, clients>>

SeesServerGoneBug(p) ==
  /\ Looks(p, "pipe") /\ down[p] = << >> /\ mpc # "run"
  /\ UNCHANGED <<vars, cpc, stop_child, cready, clientVars, clients>>
SeesServerGone(p) ==
  /\ Looks(p, "pipe") /\ down[p] = << >> /\ mpc # "run"
  /\ Stops(p)
  /\ UNCHANGED <<vars, cpc, cready, clientVars, clients>>

Runs(p) ==
  \/ ClosesInherited(p) \/ InstallsHandler(p)
  \/ Continues(p) \/ Ends(p) \/ EntersWait(p) \/ Wakes(p)
  \/ ClearsSlot(p) \/ ReadsText(p) \/ SeesClientGone(p)
  \/ ReadsNumber(p) \/ SeesServerGone(p)

\* A SIGTERM is delivered.  It goes back to the server through the inherited
\* handler, or is lost with the pipe already closed, or sets stop_child; only
\* in the last case does it wake a child that waits.
IsTermed(p) ==
  /\ ChildSignalled(p)
  /\ \/ cpc[p] = "fork" /\ PutSignal("TERM") /\ UNCHANGED <<cpc, stop_child>>
     \/ cpc[p] = "closed" /\ UNCHANGED <<ready, sigpipe, cpc, stop_child>>
     \/ cpc[p] \in {"loop", "enter", "recv"} /\ UNCHANGED <<ready, sigpipe, cpc>> /\ Stops(p)
     \/ cpc[p] = "wait" /\ UNCHANGED <<ready, sigpipe>> /\ Stops(p) /\ Goes(p, "loop")
  /\ UNCHANGED <<cready, cevents, clientVars, clients>>

-----------------------------------------------------------------------------

Kills == Interrupt /\ UNCHANGED <<runVars, clientVars, clients>>
Handles(s) == sig_handler(s) /\ UNCHANGED <<runVars, clientVars, clients>>

SysNext ==
  \/ SysServer
  \/ \E p \in Pids : Runs(p) \/ IsTermed(p) \/ Types(p) \/ Leaves(p)
  \/ Connect \/ Kills
  \/ \E s \in Signal : Handles(s)

\* The scheduler runs every process that can run and the kernel delivers
\* every pending signal.  Clients and administrator may do nothing.
SysFairness ==
  /\ WF_sysVars(SysServer)
  /\ \A p \in Pids : WF_sysVars(Runs(p)) /\ WF_sysVars(IsTermed(p))
  /\ \A s \in Signal : WF_sysVars(Handles(s))

SysSpec == SysInit /\ [][SysNext]_sysVars
SysFairSpec == SysSpec /\ SysFairness

\* An administrator who keeps sending SIGTERM until the server is gone.
Persistent == WF_sysVars(Kills)

-----------------------------------------------------------------------------
(* Properties.                                                              *)

\* Whatever the client has sent or done, the child has an event of it, is just
\* reading, or has stopped.
Heard(p) ==
  proc[p] = "run" /\ (typed[p] > 0 \/ gone[p]) =>
    "conn" \in cready[p] \cup cevents[p] \/ cpc[p] = "recv" \/ stop_child[p]

\* recv() is about to take text and to leave more, or the end, behind it.
LeavesRest(p) == cpc[p] = "recv" /\ typed[p] > 0 /\ (typed[p] > RECV_CAP \/ gone[p])

\* No step makes a child deaf to its client: not the start, when the client may
\* have typed or left already, not a batch, a number, a SIGTERM or an epoll_wait()
\* in between (lines 112 to 138); only the one recv() per edge-triggered event.
StaysHeard == [][\A p \in Pids : Heard(p) => Heard(p)' \/ LeavesRest(p)]_sysVars

\* run_child never keeps the server from running: what ChatMain promises under
\* its fairness holds of the whole service.
ImplementsFairly == FairSpec

\* A client admitted after stop_server was set is not left running: its
\* child sees the server's end of the socketpair close (line 155).
OrphanEnds == mpc = "exit" ~> \A p \in Pids : proc[p] # "run"

\* A client that leaves with all its text read ends its child (line 135), if
\* the end of file arrives as an event of its own.
LeaverEnds ==
  \A p \in Pids : (gone[p] /\ typed[p] = 0 /\ "conn" \in cready[p]) ~> proc[p] # "run"

\* "kill all the clild now" (line 345): once the server was told to terminate,
\* it kills its children and returns.
ShutdownCompletes == terminate ~> mpc = "exit"

\* With an administrator who keeps trying and clients that stop coming, the
\* server does return, unless a SIGCHLD finds the signal pipe full.
PersistentShutdown == Persistent /\ []~ChldLost => <>(mpc = "exit")

=============================================================================
