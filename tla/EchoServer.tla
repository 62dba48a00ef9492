----------------------------- MODULE EchoServer -----------------------------
(***************************************************************************)
(* The single-process epoll echo servers, epoll/echo_lt.cc (and echo.cc,   *)
(* the same loop with a larger buffer) and epoll/echo_et.cc.               *)
(*                                                                         *)
(* One loop over the listening socket and the connections: an event of the *)
(* former accepts one connection, an event of the latter reads and writes  *)
(* back what was read.  The level-triggered server reads once per event,   *)
(* with blocking descriptors; the edge-triggered one sets its connections  *)
(* non-blocking and reads until EAGAIN.  What is in the text does not      *)
(* matter, how much of it waits where does.                                *)
(*                                                                         *)
(* Sockets and epoll are modelled from the way the source uses them: a     *)
(* level-triggered descriptor is reported while it is readable, an edge-   *)
(* triggered one once after each arrival.  A connection is named by its    *)
(* descriptor, which the kernel hands out again once closed.               *)
(***************************************************************************)
EXTENDS Integers, FiniteSets

CONSTANTS
  Conns,          \* descriptors connections may get
  listenfd,       \* the descriptor s.Sockfd()
  BUF_SIZE,       \* bytes one read() takes
  EPOLL_SIZE,     \* events one epoll_wait() returns
  WINDOW,         \* bytes written to a connection and not read by its client
  MaxBytes,       \* bound: bytes all clients together send
  MaxClients,     \* bound: connections clients make
  Abrupt          \* whether clients may close, and so reset, their connection

ASSUME EchoAssumption ==
  /\ listenfd \notin Conns
  /\ Abrupt \in BOOLEAN
  /\ BUF_SIZE \in Nat \ {0} /\ EPOLL_SIZE \in Nat \ {0}
  /\ WINDOW \in Nat /\ WINDOW >= BUF_SIZE
  /\ MaxBytes \in Nat /\ MaxClients \in Nat

VARIABLES
  EdgeTriggered,  \* which server runs, once and for all: TRUE, echo_et.cc;
                  \* FALSE, echo_lt.cc and echo.cc
  pc,       \* "wait" (epoll_wait), "loop", "read", "write" or "dead"
  batch,    \* descriptors of this epoll_wait's events still to be handled
  cur,      \* the connection being read or written
  n,        \* what the last read() put into buf
  ready,    \* descriptors something arrived for since epoll_wait reported them
  queue,    \* connections the listening socket holds
  peer,     \* the far end of a connection, "none" while the descriptor is free
  inbox,    \* bytes received and not read
  outbox,   \* bytes written and not read by the client
  sent,     \* bytes sent so far
  clients   \* connections made so far

serverVars == <<pc, batch, cur, n>>
connVars == <<peer, inbox, outbox>>
boundVars == <<sent, clients>>
restVars == <<boundVars, EdgeTriggered>>
vars == <<serverVars, ready, queue, connVars, restVars>>

Least(a, b) == IF a < b THEN a ELSE b

\* "shut": the client has shut its sending side and reads on; "closed": it
\* has closed the connection; "reset": its kernel has answered with a reset;
\* "over": the server has been told of the reset.
Peer == {"none", "open", "shut", "closed", "reset", "over"}

TypeOK ==
  /\ EdgeTriggered \in BOOLEAN
  /\ pc \in {"wait", "loop", "read", "write", "dead"}
  /\ batch \subseteq Conns \cup {listenfd}
  /\ cur \in Conns \cup {listenfd}
  /\ n \in 0 .. BUF_SIZE
  /\ ready \subseteq Conns \cup {listenfd}
  /\ queue \in 0 .. clients
  /\ peer \in [Conns -> Peer]
  /\ inbox \in [Conns -> Nat]
  /\ outbox \in [Conns -> 0 .. WINDOW]
  /\ sent \in 0 .. MaxBytes
  /\ clients \in 0 .. MaxClients

Open == {c \in Conns : peer[c] # "none"}

Readable(fd) ==
  IF fd = listenfd THEN queue > 0
  ELSE peer[fd] # "none" /\ (peer[fd] # "open" \/ inbox[fd] > 0)

Init ==
  /\ EdgeTriggered \in BOOLEAN
  /\ pc = "wait" /\ batch = {} /\ cur = listenfd /\ n = 0
  /\ ready = {} /\ queue = 0
  /\ peer = [c \in Conns |-> "none"]
  /\ inbox = [c \in Conns |-> 0]
  /\ outbox = [c \in Conns |-> 0]
  /\ sent = 0 /\ clients = 0

-----------------------------------------------------------------------------
(* Clients and the network.                                                 *)

Arrives(fd) == ready' = ready \cup {fd}

Connect ==
  /\ clients < MaxClients
  /\ clients' = clients + 1
  /\ queue' = queue + 1
  /\ Arrives(listenfd)
  /\ UNCHANGED <<serverVars, connVars, sent, EdgeTriggered>>

Sends(c) ==
  /\ peer[c] = "open" /\ sent < MaxBytes
  /\ sent' = sent + 1
  /\ inbox' = [inbox EXCEPT ![c] = @ + 1]
  /\ Arrives(c)
  /\ UNCHANGED <<serverVars, queue, peer, outbox, clients, EdgeTriggered>>

Becomes(c, state) ==
  /\ peer' = [peer EXCEPT ![c] = state]
  /\ Arrives(c)
  /\ UNCHANGED <<serverVars, queue, inbox, outbox, restVars>>

ShutsDown(c) == peer[c] = "open" /\ Becomes(c, "shut")
Closes(c) == Abrupt /\ peer[c] \in {"open", "shut"} /\ Becomes(c, "closed")

\* Something was written to a closed connection, or had not been read when
\* it was closed.
Resets(c) == peer[c] = "closed" /\ Becomes(c, "reset")

Reads(c) ==
  /\ peer[c] \in {"open", "shut"} /\ outbox[c] > 0
  /\ outbox' = [outbox EXCEPT ![c] = 0]
  /\ UNCHANGED <<serverVars, ready, queue, peer, inbox, restVars>>

-----------------------------------------------------------------------------
(* The server.                                                              *)

\* Here the listening socket alone is registered with EPOLLET.
ReportableBug ==
  {fd \in Conns \cup {listenfd} :
     Readable(fd) /\ (fd = listenfd => fd \in ready)}
Reportable ==
  {fd \in Conns \cup {listenfd} :
     Readable(fd) /\ (EdgeTriggered => fd \in ready)}

EpollWait ==
  /\ pc = "wait" /\ Reportable # {}
  /\ \E got \in SUBSET Reportable :
       /\ Cardinality(got) = Least(Cardinality(Reportable), EPOLL_SIZE)
       /\ batch' = got
       /\ ready' = ready \ got
  /\ pc' = "loop"
  /\ UNCHANGED <<cur, n, queue, connVars, restVars>>

\* accept() and EPOLL_CTL_ADD, which looks at the connection at once: its
\* client may have sent, or gone, while it was queued.
Accept(c) ==
  /\ pc = "loop" /\ listenfd \in batch
  /\ batch' = batch \ {listenfd}
  /\ queue' = queue - 1
  /\ c \notin Open
  /\ \E k \in 0 .. MaxBytes - sent, state \in {"open", "shut"} :
       /\ peer' = [peer EXCEPT ![c] = state]
       /\ inbox' = [inbox EXCEPT ![c] = k]
       /\ sent' = sent + k
       /\ ready' = IF k > 0 \/ state # "open" THEN ready \cup {c} ELSE ready
  /\ outbox' = [outbox EXCEPT ![c] = 0]
  /\ UNCHANGED <<pc, cur, n, clients, EdgeTriggered>>

\* Accept() returns nullptr for want of a descriptor; conn->Connfd() follows.
AcceptFails ==
  /\ pc = "loop" /\ listenfd \in batch
  /\ Open = Conns
  /\ pc' = "dead"
  /\ UNCHANGED <<batch, cur, n, ready, queue, connVars, restVars>>

\* The index of the loop does not advance.
TurnBug(c) ==
  /\ pc = "loop" /\ c \in batch
  /\ cur' = c
  /\ pc' = "read"
  /\ UNCHANGED <<batch, n, ready, queue, connVars, restVars>>
Turn(c) ==
  /\ pc = "loop" /\ c \in batch
  /\ batch' = batch \ {c}
  /\ cur' = c
  /\ pc' = "read"
  /\ UNCHANGED <<n, ready, queue, connVars, restVars>>

\* echo_et_wrong.cc: edge-triggered, and one read() per event all the same.
AfterAnswerBug == "loop"
\* The edge-triggered server goes back to read(), the other to its next event.
AfterAnswer == IF EdgeTriggered THEN "read" ELSE "loop"

\* read() is given the size of what is there, not of buf.
ReadSomeBug ==
  /\ pc = "read" /\ inbox[cur] > 0
  /\ n' = inbox[cur]
  /\ inbox' = [inbox EXCEPT ![cur] = 0]
  /\ pc' = "write"
  /\ UNCHANGED <<batch, cur, ready, queue, peer, outbox, restVars>>
ReadSome ==
  /\ pc = "read" /\ inbox[cur] > 0
  /\ n' = Least(BUF_SIZE, inbox[cur])
  /\ inbox' = [inbox EXCEPT ![cur] = @ - n']
  /\ pc' = "write"
  /\ UNCHANGED <<batch, cur, ready, queue, peer, outbox, restVars>>

\* n == 0, but the connection is kept.
ReadEndBug ==
  /\ pc = "read" /\ inbox[cur] = 0 /\ peer[cur] \notin {"open", "none"}
  /\ pc' = "loop"
  /\ UNCHANGED <<batch, cur, n, ready, queue, connVars, restVars>>
\* n == 0: EPOLL_CTL_DEL and close().  After a reset read() returns 0 if the
\* end of file had come before it.
ReadEnd ==
  /\ pc = "read" /\ inbox[cur] = 0 /\ peer[cur] \notin {"open", "none"}
  /\ peer' = [peer EXCEPT ![cur] = "none"]
  /\ ready' = ready \ {cur}
  /\ outbox' = [outbox EXCEPT ![cur] = 0]
  /\ pc' = "loop"
  /\ UNCHANGED <<batch, cur, n, queue, inbox, restVars>>

\* n < 0 and errno says the connection was reset.  write() of -1 bytes fails
\* in the one server, the other reads again.
ReadError ==
  /\ pc = "read" /\ inbox[cur] = 0 /\ peer[cur] = "reset"
  /\ peer' = [peer EXCEPT ![cur] = "over"]
  /\ pc' = AfterAnswer
  /\ UNCHANGED <<batch, cur, n, ready, queue, inbox, outbox, restVars>>

\* n < 0 and errno is EAGAIN.
ReadAgain ==
  /\ pc = "read" /\ inbox[cur] = 0 /\ peer[cur] = "open"
  /\ EdgeTriggered
  /\ pc' = "loop"
  /\ UNCHANGED <<batch, cur, n, ready, queue, connVars, restVars>>

\* A blocking write() waits for room; a non-blocking one writes what fits,
\* and the rest is dropped.
Write ==
  /\ pc = "write" /\ peer[cur] \in {"open", "shut"}
  /\ EdgeTriggered \/ outbox[cur] + n <= WINDOW
  /\ outbox' = [outbox EXCEPT ![cur] = Least(WINDOW, @ + n)]
  /\ pc' = AfterAnswer
  /\ UNCHANGED <<batch, cur, n, ready, queue, peer, inbox, restVars>>

\* Nobody reads it any more.  After a reset the write() fails.
WriteInVain ==
  /\ pc = "write" /\ peer[cur] \in {"closed", "reset"}
  /\ peer' = [peer EXCEPT ![cur] = IF @ = "reset" THEN "over" ELSE @]
  /\ pc' = AfterAnswer
  /\ UNCHANGED <<batch, cur, n, ready, queue, inbox, outbox, restVars>>

\* SIGPIPE, which neither server ignores.
BrokenPipe ==
  /\ pc = "write" /\ peer[cur] \in {"reset", "over"}
  /\ pc' = "dead"
  /\ UNCHANGED <<batch, cur, n, ready, queue, connVars, restVars>>

BatchDone ==
  /\ pc = "loop" /\ batch = {}
  /\ pc' = "wait"
  /\ UNCHANGED <<batch, cur, n, ready, queue, connVars, restVars>>

Server ==
  \/ EpollWait \/ AcceptFails \/ BatchDone
  \/ \E c \in Conns : Accept(c) \/ Turn(c)
  \/ ReadSome \/ ReadEnd \/ ReadError \/ ReadAgain
  \/ Write \/ WriteInVain \/ BrokenPipe

Next ==
  \/ Server \/ Connect
  \/ \E c \in Conns :
       Sends(c) \/ ShutsDown(c) \/ Closes(c) \/ Resets(c) \/ Reads(c)

Spec == Init /\ [][Next]_vars

\* The process is scheduled, and clients that wait for an echo read it.
FairSpec == Spec /\ WF_vars(Server) /\ \A c \in Conns : WF_vars(Reads(c))

-----------------------------------------------------------------------------
(* Properties.                                                              *)

\* No accept() and no first read() of an event can block the loop, on
\* sockets that are blocking, and none is made on a closed descriptor,
\* whatever was closed, accepted and reset since epoll_wait returned.
BatchReadable ==
  /\ \A fd \in batch : Readable(fd)
  /\ pc = "read" => peer[cur] # "none" /\ (EdgeTriggered \/ Readable(cur))

\* Edge-triggered: what has arrived on a connection will be reported, has
\* been, or is being read.  Nothing is left lying without an event.
NothingStranded ==
  EdgeTriggered /\ pc # "dead" =>
    \A c \in Conns :
      Readable(c) => c \in ready \cup batch \/ (pc \in {"read", "write"} /\ c = cur)

\* A client that has finished sending gets its text read to the end and its
\* descriptor closed.
EndSeen ==
  \A c \in Conns : peer[c] \notin {"none", "open"} ~> (peer[c] = "none" \/ pc = "dead")

\* Level-triggered: all clients are accepted in the end.
AllAccepted == (~EdgeTriggered /\ queue > 0) ~> (queue = 0 \/ pc = "dead")

=============================================================================
