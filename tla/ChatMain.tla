------------------------------ MODULE ChatMain ------------------------------
(***************************************************************************)
(* The server process of demo/chat_server_shm.cc: main(), its signal       *)
(* handler and the tables users[] and sub_process[].                       *)
(*                                                                         *)
(* One process sits in an edge-triggered epoll loop over three kinds of    *)
(* descriptors: the listening socket, the read end of the pipe its signal  *)
(* handler writes to, and one socketpair end per forked child.  It forks a *)
(* child per connection, relays the 4-byte slot number a child sends to    *)
(* all the other children, reaps dead children and, on SIGTERM or SIGINT,  *)
(* kills them all and leaves once the last one is gone.                    *)
(*                                                                         *)
(* Here a child is whatever run_child could be: once forked it may notify, *)
(* read, absorb a SIGTERM or exit at any time.  ChatSystem replaces these  *)
(* steps with run_child itself and is checked to implement this module.    *)
(*                                                                         *)
(* Kernel objects (epoll interest and ready lists, socketpairs, pending    *)
(* signals, the descriptor and process tables) are modelled from the way   *)
(* the source uses them.  epoll_wait promises no order among the events    *)
(* it returns, so ready and events are sets.                               *)
(***************************************************************************)
EXTENDS Integers, Sequences, FiniteSets

CONSTANTS
  Pids,        \* process ids the kernel hands out to children (reused once reaped)
  NoPid,       \* an entry of a table that names no process
  Leaked,      \* owner of a descriptor that was opened and never closed
  USER_LIMIT,  \* size of the user table, line 19 of the source
  BACKLOG,     \* connections the listening socket queues, listen( listenfd, 5 )
  FD_LIMIT,    \* descriptors the process may open beyond its fixed ones
  SIG_CAP,     \* bytes the signal pipe holds before send() fails
  SIG_READ,    \* bytes one recv() takes from it, 1024 in the source
  PIPE_CAP,    \* slot numbers a socketpair holds in one direction
  Interrupted, \* whether SIGTERM or SIGINT may be sent from outside
  Faults       \* kernel calls that may fail, a subset of {"accept", "fork"}

ASSUME ChatAssumption ==
  /\ NoPid \notin Pids /\ Leaked \notin Pids /\ NoPid # Leaked
  /\ USER_LIMIT \in Nat \ {0}
  /\ BACKLOG \in Nat \ {0} /\ FD_LIMIT \in Nat
  /\ SIG_CAP \in Nat /\ SIG_READ \in Nat \ {0} /\ PIPE_CAP \in Nat
  /\ Interrupted \in BOOLEAN
  /\ Faults \subseteq {"accept", "fork"}

\* Descriptors 0-2 are the standard streams; main() then opens listenfd,
\* epollfd and the signal pair, and closes shmfd again before the loop.
listenfd == 3
sig_pipefd0 == 5
Fds == 7 .. 6 + FD_LIMIT

VARIABLES
  mpc,          \* "run", "exit" (main returned) or "abort" (an assert failed)
  events,       \* descriptors of the current epoll_wait batch still to be looked at
  signals,      \* bytes read from the signal pipe still to be looked at
  users,        \* the user table: pid and pipefd[0] of each entry
  user_count,
  sub_process,  \* pid -> index into users, or -1
  terminate,
  stop_server

loopVars == <<mpc, events, signals>>
tableVars == <<users, user_count, sub_process>>
flagVars == <<terminate, stop_server>>
mainVars == <<loopVars, tableVars, flagVars>>

VARIABLES
  ready,    \* descriptors on the epoll ready list
  backlog,  \* connections waiting to be accepted
  pending,  \* signals pending for the server: a set, equal signals coalesce
  sigpipe,  \* bytes in the signal pipe
  fdtab,    \* descriptor -> the child at the other end, NoPid if closed
  proc,     \* pid -> "free", "run" or "zombie"
  slot,     \* pid -> idx, the argument run_child was called with, 0 if reaped
  termed,   \* children with a SIGTERM pending
  up,       \* pid -> slot numbers the child sent and the server has not read
  down      \* pid -> notifications the server sent and the child has not read

netVars == <<ready, backlog>>
signalVars == <<pending, sigpipe>>
childVars == <<proc, slot, termed>>
pipeVars == <<up, down>>
kernelVars == <<netVars, signalVars, fdtab, childVars, pipeVars>>
vars == <<mpc, events, signals, users, user_count, sub_process, terminate,
          stop_server, ready, backlog, pending, sigpipe, fdtab, proc,
          slot, termed, up, down>>

-----------------------------------------------------------------------------
(* Types and initial state.  The state after main() has set everything up   *)
(* and reached its loop.                                                    *)

Signal == {"CHLD", "TERM"}
Entry == [pid : Pids \cup {NoPid}, pipefd : Fds \cup {-1}]

\* A notification is the slot number; the child it came from is recorded
\* with it for the properties only.
Notification == [from : Pids, idx : 0 .. USER_LIMIT - 1]

TypeOK ==
  /\ mpc \in {"run", "exit", "abort"}
  /\ events \subseteq Fds \cup {listenfd, sig_pipefd0}
  /\ signals \in Seq(Signal)
  /\ users \in [0 .. USER_LIMIT -> Entry]
  /\ user_count \in 0 .. USER_LIMIT
  /\ sub_process \in [Pids -> -1 .. USER_LIMIT - 1]
  /\ terminate \in BOOLEAN /\ stop_server \in BOOLEAN
  /\ ready \subseteq Fds \cup {listenfd, sig_pipefd0}
  /\ backlog \in 0 .. BACKLOG
  /\ pending \subseteq Signal
  /\ sigpipe \in Seq(Signal) /\ Len(sigpipe) <= SIG_CAP
  /\ fdtab \in [Fds -> Pids \cup {NoPid, Leaked}]
  /\ proc \in [Pids -> {"free", "run", "zombie"}]
  /\ slot \in [Pids -> 0 .. USER_LIMIT - 1]
  /\ termed \subseteq Pids
  /\ up \in [Pids -> 0 .. PIPE_CAP]
  /\ down \in [Pids -> Seq(Notification)]

Init ==
  /\ mpc = "run" /\ events = {} /\ signals = << >>
  /\ users = [i \in 0 .. USER_LIMIT |-> [pid |-> NoPid, pipefd |-> -1]]
  /\ user_count = 0
  /\ sub_process = [p \in Pids |-> -1]
  /\ terminate = FALSE /\ stop_server = FALSE
  /\ ready = {} /\ backlog = 0 /\ pending = {} /\ sigpipe = << >>
  /\ fdtab = [fd \in Fds |-> NoPid]
  /\ proc = [p \in Pids |-> "free"]
  /\ slot = [p \in Pids |-> 0]
  /\ termed = {}
  /\ up = [p \in Pids |-> 0]
  /\ down = [p \in Pids |-> << >>]

-----------------------------------------------------------------------------
(* Helpers.                                                                 *)

Unreaped == {p \in Pids : proc[p] # "free"}
Zombies == {p \in Pids : proc[p] = "zombie"}
Registered == 0 .. user_count - 1

\* The server's end of p's socketpair, while it is open and registered.
ChannelOf(p) == {fd \in Fds : fdtab[fd] = p}

\* A byte written to the signal pipe; send() on a full pipe just fails.
PutSignal(s) ==
  IF Len(sigpipe) < SIG_CAP
  THEN /\ sigpipe' = Append(sigpipe, s)
       /\ ready' = ready \cup {sig_pipefd0}
  ELSE UNCHANGED <<sigpipe, ready>>

FreeFds == {fd \in Fds : fdtab[fd] = NoPid}
Least(fd, S) == fd \in S /\ \A other \in S : fd <= other

\* accept() and socketpair() take the three lowest free descriptors.
Opened(connfd, pipe0, pipe1) ==
  /\ Least(connfd, FreeFds)
  /\ Least(pipe0, FreeFds \ {connfd})
  /\ Least(pipe1, FreeFds \ {connfd, pipe0})

-----------------------------------------------------------------------------
(* The environment: clients, the administrator and the kernel.              *)

ClientConnects ==
  /\ mpc = "run" /\ backlog < BACKLOG
  /\ backlog' = backlog + 1
  /\ ready' = ready \cup {listenfd}
  /\ UNCHANGED <<mainVars, signalVars, fdtab, childVars, pipeVars>>

\* SIGTERM or SIGINT; main() treats them alike.
Interrupt ==
  /\ mpc = "run" /\ Interrupted
  /\ pending' = pending \cup {"TERM"}
  /\ UNCHANGED <<mainVars, netVars, sigpipe, fdtab, childVars, pipeVars>>

\* sig_handler runs in the server: it only copies the signal to the pipe.
sig_handler(s) ==
  /\ mpc = "run" /\ s \in pending
  /\ pending' = pending \ {s}
  /\ PutSignal(s)
  /\ UNCHANGED <<mainVars, backlog, fdtab, childVars, pipeVars>>

-----------------------------------------------------------------------------
(* A child, seen from the server.                                           *)

\* The child sends its slot number; a full socketpair drops it.
ChildNotifies(p) ==
  /\ proc[p] = "run" /\ up[p] < PIPE_CAP
  /\ up' = [up EXCEPT ![p] = @ + 1]
  /\ ready' = ready \cup ChannelOf(p)
  /\ UNCHANGED <<mainVars, backlog, signalVars, fdtab, childVars, down>>

ChildReads(p) ==
  /\ proc[p] = "run" /\ down[p] # << >>
  /\ down' = [down EXCEPT ![p] = Tail(@)]
  /\ UNCHANGED <<mainVars, netVars, signalVars, fdtab, childVars, up>>

\* A SIGTERM reaches the child.  Until it installs its own handler the child
\* runs sig_handler, on the pipe it shares with the server until it closes it.
ChildSignalled(p) ==
  /\ proc[p] = "run" /\ p \in termed
  /\ termed' = termed \ {p}
  /\ \/ PutSignal("TERM")
     \/ UNCHANGED <<sigpipe, ready>>
  /\ UNCHANGED <<mainVars, backlog, pending, fdtab, proc, slot, pipeVars>>

\* Its descriptors are closed, which the server sees as end of file, and
\* SIGCHLD is raised.
ChildExits(p) ==
  /\ proc[p] = "run"
  /\ proc' = [proc EXCEPT ![p] = "zombie"]
  /\ down' = [down EXCEPT ![p] = << >>]
  /\ pending' = pending \cup {"CHLD"}
  /\ ready' = ready \cup ChannelOf(p)
  /\ UNCHANGED <<mainVars, backlog, sigpipe, fdtab, slot, termed, up>>

Child(p) == ChildNotifies(p) \/ ChildReads(p) \/ ChildSignalled(p) \/ ChildExits(p)

-----------------------------------------------------------------------------
(* The server.  The loop body handles one event per action, the signal      *)
(* branch one byte and one dead child per action.  A definition whose name  *)
(* ends in Bug is a seeded fault that takes the place of the next one when  *)
(* a property is tested; no action uses it.                                 *)

EpollWait ==
  /\ mpc = "run" /\ events = {} /\ signals = << >> /\ ~stop_server
  /\ ready # {}
  /\ events' = ready
  /\ ready' = {}
  /\ UNCHANGED <<mpc, signals, tableVars, flagVars, backlog, signalVars, fdtab,
                 childVars, pipeVars>>

\* while( !stop_server ) ends: del_resource() and return.
Exit ==
  /\ mpc = "run" /\ events = {} /\ signals = << >> /\ stop_server
  /\ mpc' = "exit"
  /\ UNCHANGED <<events, signals, tableVars, flagVars, kernelVars>>

Handling(fd) ==
  /\ mpc = "run" /\ signals = << >> /\ fd \in events
  /\ events' = events \ {fd}

\* accept() fails: nothing to accept, or no descriptors or memory for it.
\* The event is spent.
AcceptFails ==
  /\ Handling(listenfd)
  /\ backlog = 0 \/ FreeFds = {} \/ "accept" \in Faults
  /\ UNCHANGED <<mpc, signals, tableVars, flagVars, kernelVars>>

TableFull == user_count >= USER_LIMIT

\* Exactly one connection is taken per event of the edge-triggered socket.
AcceptsBug ==
  /\ Handling(listenfd)
  /\ FreeFds # {} /\ backlog > 0
  /\ backlog' = IF TableFull THEN backlog ELSE backlog - 1
Accepts ==
  /\ Handling(listenfd)
  /\ FreeFds # {} /\ backlog > 0
  /\ backlog' = backlog - 1

\* "too many users": the connection is told so and closed.
Reject ==
  /\ Accepts
  /\ TableFull
  /\ UNCHANGED <<mpc, signals, tableVars, flagVars, ready, signalVars, fdtab,
                 childVars, pipeVars>>

\* socketpair() finds fewer than two descriptors left: the assert aborts.
SocketpairAborts ==
  /\ Accepts
  /\ ~TableFull /\ Cardinality(FreeFds) < 3
  /\ mpc' = "abort"
  /\ UNCHANGED <<signals, tableVars, flagVars, ready, signalVars, fdtab,
                 childVars, pipeVars>>

\* Without the continue of line 275 the entry would be kept.
ForkFailsBug ==
  /\ Accepts
  /\ ~TableFull /\ "fork" \in Faults
  /\ \E connfd, pipe0, pipe1 \in Fds :
       /\ Opened(connfd, pipe0, pipe1)
       /\ users' = [users EXCEPT ![user_count].pipefd = pipe0]
       /\ fdtab' = [fdtab EXCEPT ![pipe0] = Leaked]
  /\ user_count' = user_count + 1
  /\ UNCHANGED <<mpc, signals, sub_process, flagVars, ready,
                 signalVars, childVars, pipeVars>>

\* fork() fails: connfd is closed, both ends of the socketpair stay open.
ForkFails ==
  /\ Accepts
  /\ ~TableFull /\ "fork" \in Faults
  /\ \E connfd, pipe0, pipe1 \in Fds :
       /\ Opened(connfd, pipe0, pipe1)
       /\ users' = [users EXCEPT ![user_count].pipefd = pipe0]
       /\ fdtab' = [fdtab EXCEPT ![pipe0] = Leaked, ![pipe1] = Leaked]
  /\ UNCHANGED <<mpc, signals, user_count, sub_process, flagVars, ready,
                 signalVars, childVars, pipeVars>>

\* The argument of run_child in the child, evaluated before user_count++.
ChildIdxBug == user_count - 1
ChildIdx == user_count

\* fork() returns p: the server keeps pipefd[0] and appends the entry.
Admit(p) ==
  /\ Accepts
  /\ ~TableFull
  /\ proc[p] = "free"
  /\ \E connfd, pipe0, pipe1 \in Fds :
       /\ Opened(connfd, pipe0, pipe1)
       /\ users' = [users EXCEPT ![user_count] = [pid |-> p, pipefd |-> pipe0]]
       /\ fdtab' = [fdtab EXCEPT ![pipe0] = p]
  /\ sub_process' = [sub_process EXCEPT ![p] = user_count]
  /\ user_count' = user_count + 1
  /\ proc' = [proc EXCEPT ![p] = "run"]
  /\ slot' = [slot EXCEPT ![p] = ChildIdx]
  /\ UNCHANGED <<mpc, signals, flagVars, ready, signalVars, termed, pipeVars>>

\* The bytes one recv() takes from the signal pipe, and those it leaves.
BytesRead == IF Len(sigpipe) < SIG_READ THEN Len(sigpipe) ELSE SIG_READ
FirstBytes == SubSeq(sigpipe, 1, BytesRead)
OtherBytes == SubSeq(sigpipe, BytesRead + 1, Len(sigpipe))

\* One recv() per event, which spends the event even if bytes are left.  It
\* returns -1 when there is nothing.
ReadSignals ==
  /\ Handling(sig_pipefd0)
  /\ signals' = FirstBytes
  /\ sigpipe' = OtherBytes
  /\ UNCHANGED <<mpc, tableVars, flagVars, netVars, pending, fdtab,
                 childVars, pipeVars>>

AtSignal(s) == mpc = "run" /\ signals # << >> /\ Head(signals) = s

\* users[del_user] = users[--user_count];
CompactedBug(del_user) == [users EXCEPT ![del_user].pid = users[user_count - 1].pid]
Compacted(del_user) == [users EXCEPT ![del_user] = users[user_count - 1]]

\* sub_process[pid] = -1; ... sub_process[users[del_user].pid] = del_user;
ReindexedBug(pid, del_user) == [sub_process EXCEPT ![pid] = -1]
Reindexed(pid, del_user) ==
  [sub_process EXCEPT ![pid] = -1, ![users[user_count - 1].pid] = del_user]

ClosedBug(fd) == fdtab
Closed(fd) == [fdtab EXCEPT ![fd] = NoPid]

\* One turn of the waitpid( -1, &stat, WNOHANG ) loop.
Reap(p) ==
  /\ AtSignal("CHLD") /\ p \in Zombies
  /\ LET del_user == sub_process[p]
     IN IF del_user < 0 \/ del_user > USER_LIMIT
        THEN /\ sub_process' = [sub_process EXCEPT ![p] = -1]
             /\ UNCHANGED <<ready, fdtab, users, user_count, up>>
        ELSE LET pipefd == users[del_user].pipefd
             IN /\ ready' = ready \ {pipefd}
                /\ fdtab' = Closed(pipefd)
                /\ up' = [up EXCEPT ![p] = 0]
                /\ users' = Compacted(del_user)
                /\ user_count' = user_count - 1
                /\ sub_process' = Reindexed(p, del_user)
  /\ proc' = [proc EXCEPT ![p] = "free"]
  /\ slot' = [slot EXCEPT ![p] = 0]
  /\ termed' = termed \ {p}
  /\ UNCHANGED <<loopVars, flagVars, backlog, signalVars, down>>

\* waitpid() finds no further dead child.
ReapLoopOverBug == TRUE
ReapLoopOver == Zombies = {}

LastUserGoneBug == terminate
LastUserGone == terminate /\ user_count = 0

ReapEnd ==
  /\ AtSignal("CHLD") /\ ReapLoopOver
  /\ signals' = Tail(signals)
  /\ stop_server' = (stop_server \/ LastUserGone)
  /\ UNCHANGED <<mpc, events, tableVars, terminate, kernelVars>>

\* for( i < user_count ) kill( users[i].pid, SIGTERM );
KillTargetsBug == {users[i].pid : i \in 0 .. user_count}
KillTargetsBug2 == {users[i].pid : i \in 0 .. user_count - 2}
KillTargets == {users[i].pid : i \in Registered}

Terminate ==
  /\ AtSignal("TERM")
  /\ signals' = Tail(signals)
  /\ \/ /\ user_count = 0
        /\ stop_server' = TRUE
        /\ UNCHANGED <<terminate, termed>>
     \/ /\ user_count # 0
        /\ termed' = termed \cup KillTargets
        /\ terminate' = TRUE
        /\ UNCHANGED stop_server
  /\ UNCHANGED <<mpc, events, tableVars, netVars, signalVars, fdtab, proc, slot, pipeVars>>

\* The children written to when fd delivers a slot number.
ReceiversBug(fd) == {fdtab[users[j].pipefd] : j \in Registered}
ReceiversBug2(fd) ==
  {fdtab[users[j].pipefd] : j \in {i \in 0 .. user_count - 2 : users[i].pipefd # fd}}
Receivers(fd) == {fdtab[users[j].pipefd] : j \in {i \in Registered : users[i].pipefd # fd}}

\* One 4-byte recv() per event, however many numbers are queued.
Relay(fd) ==
  /\ Handling(fd)
  /\ fdtab[fd] \in Pids /\ up[fdtab[fd]] > 0
  /\ LET from == fdtab[fd]
         note == [from |-> from, idx |-> slot[from]]
     IN /\ up' = [up EXCEPT ![from] = @ - 1]
        /\ down' = [q \in Pids |->
                      IF q \in Receivers(fd) /\ proc[q] = "run" /\ Len(down[q]) < PIPE_CAP
                      THEN Append(down[q], note) ELSE down[q]]
  /\ UNCHANGED <<mpc, signals, tableVars, flagVars, netVars, signalVars, fdtab, childVars>>

\* End of file, nothing left to read, or a descriptor this batch has already
\* closed.  (A leaked descriptor was never made non-blocking: recv() on it
\* does not return, so there is no step for it.)
RelayNothing(fd) ==
  /\ Handling(fd)
  /\ fdtab[fd] # Leaked
  /\ fdtab[fd] \in Pids => up[fdtab[fd]] = 0
  /\ UNCHANGED <<mpc, signals, tableVars, flagVars, kernelVars>>

Server ==
  \/ EpollWait \/ Exit
  \/ AcceptFails \/ Reject \/ SocketpairAborts \/ ForkFails
  \/ \E p \in Pids : Admit(p)
  \/ ReadSignals
  \/ \E p \in Pids : Reap(p)
  \/ ReapEnd \/ Terminate
  \/ \E fd \in Fds : Relay(fd) \/ RelayNothing(fd)

Next ==
  \/ Server
  \/ \E p \in Pids : Child(p)
  \/ ClientConnects \/ Interrupt
  \/ \E s \in Signal : sig_handler(s)

\* The scheduler runs the server whenever it can run, and a pending signal
\* is delivered.  Nothing is promised of clients, children or the administrator.
Fairness ==
  /\ WF_vars(Server)
  /\ \A s \in Signal : WF_vars(sig_handler(s))

Spec == Init /\ [][Next]_vars
FairSpec == Spec /\ Fairness

-----------------------------------------------------------------------------
(* Safety.                                                                  *)

\* The processes that the two tables name together.
NamedByBoth == {p \in Pids : sub_process[p] \in Registered /\ users[sub_process[p]].pid = p}

\* users[] and sub_process[] together name the children that were forked and
\* not yet waited for, and no other, through every swap with the last entry
\* (lines 293-295 and 323-333).  sub_process[] alone does not: when the last
\* entry is the one removed, line 333 gives the dead pid its index back after
\* line 324 took it away.  But the entry at that index is nobody's or a
\* later child's, and line 294 overwrites the index when the pid is used again.
TableConsistent ==
  /\ NamedByBoth = Unreaped
  /\ \A i \in Registered : users[i].pid \in Unreaped /\ sub_process[users[i].pid] = i

\* An entry's descriptor leads to the entry's child and no other descriptor
\* does: line 331 closes the right one, the relay of lines 384-391 reaches
\* every child once, and no end of a reaped child's socketpair stays open.
ChannelsMatch ==
  /\ \A i \in Registered : users[i].pipefd \in Fds /\ fdtab[users[i].pipefd] = users[i].pid
  /\ \A fd \in Fds : fdtab[fd] \in Pids =>
       \E i \in Registered : users[i].pipefd = fd

\* A child keeps the slot number it was forked with while its entry moves
\* down the table (line 332), so its slot of the shared memory never lies
\* below its entry, and never beyond the mapping of line 233.
SlotAtOrAboveIndex ==
  \A p \in Unreaped : sub_process[p] <= slot[p] /\ slot[p] < USER_LIMIT

\* kill() of line 356 never hits a process id that was already waited for
\* and may belong to somebody else.
KillOnlyOwn == termed \subseteq Unreaped

\* No child is handed back its own slot number (line 386): not when its
\* entry has moved, not when the event's descriptor was closed or reused
\* earlier in the same batch.
NoSelfNotify ==
  \A p \in Pids : \A k \in DOMAIN down[p] : down[p][k].from # p

\* stop_server is looked at between batches only, so the batch that sets it
\* may still admit a client; but never more than one, and main() leaves no
\* other child behind.
ExitLeavesAtMostOne == mpc = "exit" => user_count <= 1

\* A full accept queue always has an event under way.  Clients arriving at a
\* full queue raise no further edge, so otherwise the server would be deaf
\* for good; line 253 takes one connection per event.
NeverDeaf == mpc = "run" /\ backlog = BACKLOG => listenfd \in ready \cup events

\* The assertion of line 270.
NoAbort == mpc # "abort"

Carries(queue, s) == \E k \in DOMAIN queue : queue[k] = s

\* A SIGCHLD may be missed: its handler would find the signal pipe full of
\* other signals, or its byte is in the pipe behind more others than recv()
\* takes, where it gets no event of its own.
ChldLost ==
  \/ "CHLD" \in pending /\ Len(sigpipe) = SIG_CAP /\ ~Carries(sigpipe, "CHLD")
  \/ Carries(sigpipe, "CHLD") /\ ~Carries(FirstBytes, "CHLD")

\* The byte of a SIGCHLD is in the pipe, and epoll_wait() has told or will
\* tell the server to read it.
ChldInPipe == Carries(sigpipe, "CHLD") /\ sig_pipefd0 \in ready \cup events

\* The server has yet to hear of its dead children.
ZombiesAnnounced ==
  mpc = "run" /\ Zombies # {} =>
    "CHLD" \in pending \/ ChldInPipe \/ Carries(signals, "CHLD")

\* No step forgets a zombie, wherever its SIGCHLD has got to and however many
\* of them were merged into one (lines 63 to 69 and 298 to 335), and none
\* takes away the only event of the edge-triggered signal pipe; only too many
\* other signals can make a SIGCHLD go missing.
StaysAnnounced == [][ZombiesAnnounced => ZombiesAnnounced' \/ ChldLost]_vars

-----------------------------------------------------------------------------
(* Liveness.                                                                *)

\* Every dead child is waited for although SIGCHLDs coalesce, unless main()
\* has left, provided that none goes missing among other signals (line 67
\* ignores the result of send(), line 302 reads a bounded number of bytes).
ZombieReaped ==
  []~ChldLost => \A p \in Pids : proc[p] = "zombie" ~> (proc[p] = "free" \/ mpc # "run")

-----------------------------------------------------------------------------
(* What the server promises: a roster of bounded size.                      *)

RosterMembers == {users[i].pid : i \in Registered}
Roster == INSTANCE ChatRoster WITH
            Names <- Pids, Capacity <- USER_LIMIT, members <- RosterMembers,
            dead <- Zombies, closed <- mpc = "exit"
RosterSpec == Roster!Spec

=============================================================================
