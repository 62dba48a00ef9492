---------------------------- MODULE SelectSockets ---------------------------
(***************************************************************************)
(* The sockets of the two select() echo servers, and the clients at their  *)
(* far ends; SelectTable and SelectEcho are the programs.                  *)
(*                                                                         *)
(* All sockets block.  A client that closes its connection has what is     *)
(* written to it answered by a reset, after which one read() or write()    *)
(* fails, and every further write() raises SIGPIPE.  What is in the text   *)
(* does not matter, how much of it waits where does.                       *)
(***************************************************************************)
EXTENDS Integers, FiniteSets

CONSTANTS
  FD_LIMIT,    \* descriptors accept() may open, at most FD_SETSIZE - 4
  BUF_SIZE,    \* bytes one read() takes, BUF_SIZE or MAXLINE
  WINDOW,      \* bytes written to a connection and not read by its client
  MaxBytes,    \* bound: bytes all clients together send
  MaxClients,  \* bound: connections clients make
  MaxGone      \* bound: connections closed at their far ends, at one time

ASSUME SocketsAssumption ==
  /\ FD_LIMIT \in Nat
  /\ BUF_SIZE \in Nat \ {0}
  /\ WINDOW \in Nat /\ WINDOW >= BUF_SIZE
  /\ MaxBytes \in Nat /\ MaxClients \in Nat /\ MaxGone \in Nat

VARIABLES
  peer,     \* the far end of a connection, "none" while the descriptor is free
  inbox,    \* bytes received and not read
  outbox,   \* bytes written and not read by the client
  queue,    \* connections waiting to be accepted
  sent,     \* bytes sent so far
  clients   \* connections made so far

netVars == <<peer, inbox, outbox, queue, sent, clients>>

listenfd == 3
Fds == 4 .. 3 + FD_LIMIT

\* "shut": the client has shut its sending side and reads on; "closed": it
\* has closed the connection; "reset": its kernel has answered with a reset;
\* "over": the server has been told of the reset.
Peer == {"none", "open", "shut", "closed", "reset", "over"}

NetTypeOK ==
  /\ peer \in [Fds -> Peer]
  /\ inbox \in [Fds -> Nat]
  /\ outbox \in [Fds -> 0 .. WINDOW]
  /\ queue \in 0 .. clients
  /\ sent \in 0 .. MaxBytes
  /\ clients \in 0 .. MaxClients

NetInit ==
  /\ peer = [fd \in Fds |-> "none"]
  /\ inbox = [fd \in Fds |-> 0]
  /\ outbox = [fd \in Fds |-> 0]
  /\ queue = 0 /\ sent = 0 /\ clients = 0

Open == {fd \in Fds : peer[fd] # "none"}

Readable(fd) ==
  IF fd = listenfd THEN queue > 0
  ELSE peer[fd] # "none" /\ (peer[fd] # "open" \/ inbox[fd] > 0)

-----------------------------------------------------------------------------
(* Clients.                                                                 *)

Connect ==
  /\ clients < MaxClients
  /\ clients' = clients + 1
  /\ queue' = queue + 1
  /\ UNCHANGED <<peer, inbox, outbox, sent>>

Sends(fd) ==
  /\ peer[fd] = "open" /\ sent < MaxBytes
  /\ sent' = sent + 1
  /\ inbox' = [inbox EXCEPT ![fd] = @ + 1]
  /\ UNCHANGED <<peer, outbox, queue, clients>>

Becomes(fd, state) ==
  /\ peer' = [peer EXCEPT ![fd] = state]
  /\ UNCHANGED <<inbox, outbox, queue, sent, clients>>

ShutsDown(fd) == peer[fd] = "open" /\ Becomes(fd, "shut")
Closes(fd) ==
  /\ peer[fd] \in {"open", "shut"}
  /\ Cardinality({other \in Fds : peer[other] \in {"closed", "reset", "over"}}) < MaxGone
  /\ Becomes(fd, "closed")

\* Something was written to a closed connection, or had not been read when
\* it was closed.
Resets(fd) == peer[fd] = "closed" /\ Becomes(fd, "reset")

Reads(fd) ==
  /\ peer[fd] \in {"open", "shut"} /\ outbox[fd] > 0
  /\ outbox' = [outbox EXCEPT ![fd] = 0]
  /\ UNCHANGED <<peer, inbox, queue, sent, clients>>

Client ==
  \/ Connect
  \/ \E fd \in Fds : Sends(fd) \/ ShutsDown(fd) \/ Closes(fd) \/ Resets(fd) \/ Reads(fd)

-----------------------------------------------------------------------------
(* The servers' calls.                                                      *)

\* accept() gives the lowest free descriptor.  The client may have sent text,
\* or have finished, while it was queued.
Accepts(fd) ==
  /\ fd \in Fds \ Open /\ \A other \in Fds \ Open : fd <= other
  /\ \E k \in 0 .. MaxBytes - sent, state \in {"open", "shut"} :
       /\ peer' = [peer EXCEPT ![fd] = state]
       /\ inbox' = [inbox EXCEPT ![fd] = k]
       /\ sent' = sent + k
  /\ outbox' = [outbox EXCEPT ![fd] = 0]
  /\ queue' = queue - 1
  /\ UNCHANGED clients

\* read() is given the size of what is there, not of buf.
TakenBug(fd) == inbox[fd]
\* Bytes read() takes.
Taken(fd) == IF inbox[fd] < BUF_SIZE THEN inbox[fd] ELSE BUF_SIZE

\* read() returns some of the text.
ReadsText(fd) ==
  /\ inbox[fd] > 0
  /\ inbox' = [inbox EXCEPT ![fd] = @ - Taken(fd)]
  /\ UNCHANGED <<peer, outbox, queue, sent, clients>>

\* read() returns 0; after a reset it does if the end of file came before it.
AtEnd(fd) == inbox[fd] = 0 /\ peer[fd] \notin {"open", "none"}

\* read() fails: the connection was reset.
ReadFails(fd) == inbox[fd] = 0 /\ peer[fd] = "reset" /\ Becomes(fd, "over")

\* write() of n bytes: it waits for room.  On a connection closed at its far
\* end it succeeds in vain, and after a reset it fails once.
Writes(fd, n) ==
  \/ /\ peer[fd] \in {"open", "shut"}
     /\ outbox[fd] + n <= WINDOW
     /\ outbox' = [outbox EXCEPT ![fd] = @ + n]
     /\ UNCHANGED <<peer, inbox, queue, sent, clients>>
  \/ peer[fd] = "closed" /\ UNCHANGED netVars
  \/ peer[fd] = "reset" /\ Becomes(fd, "over")

\* write() raises SIGPIPE, which neither server ignores.
Breaks(fd) == peer[fd] \in {"reset", "over"}

=============================================================================
