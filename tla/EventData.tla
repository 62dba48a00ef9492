----------------------------- MODULE EventData ------------------------------
(***************************************************************************)
(* epoll/epoll_event_data.cc: a level-triggered server whose events carry  *)
(* a pointer to a myData instead of a descriptor.  The listening socket's  *)
(* myData lives as long as main(); a connection's is a variable of the     *)
(* block that accepts it, and is gone before its first event.              *)
(*                                                                         *)
(* All the accept blocks have that variable in one place of main()'s       *)
(* frame, which nothing else uses: what the dead pointers find there is    *)
(* the descriptor written last.                                            *)
(***************************************************************************)
EXTENDS Integers, FiniteSets

CONSTANTS
  FD_LIMIT,    \* descriptors accept() may open
  MaxUnread,   \* bound: pieces of text waiting in one connection
  MaxClients   \* bound: connections clients make

sockfd == 3
Fds == 5 .. 4 + FD_LIMIT

VARIABLES
  pc,       \* "wait", "read" or "dead"
  events,   \* descriptors of the batch still to be looked at
  reading,  \* the descriptor handed to read()
  data,     \* the fd of the connections' myData, or -1
  open,     \* descriptors of connections
  queue,    \* connections waiting to be accepted
  clients,  \* connections made so far
  unread,   \* pieces of text waiting in each
  ended     \* the client has shut its sending side

netVars == <<queue, clients>>
connVars == <<unread, ended>>
vars == <<pc, events, reading, data, open, netVars, connVars>>

TypeOK ==
  /\ pc \in {"wait", "read", "dead"}
  /\ events \subseteq Fds \cup {sockfd} /\ reading \in Fds \cup {-1} /\ data \in Fds \cup {-1}
  /\ open \subseteq Fds
  /\ queue \in 0 .. MaxClients /\ clients \in 0 .. MaxClients
  /\ unread \in [Fds -> 0 .. MaxUnread] /\ ended \in [Fds -> BOOLEAN]

Init ==
  /\ pc = "wait" /\ events = {} /\ reading = -1 /\ data = -1
  /\ open = {} /\ queue = 0 /\ clients = 0
  /\ unread = [fd \in Fds |-> 0] /\ ended = [fd \in Fds |-> FALSE]

-----------------------------------------------------------------------------
(* Clients.                                                                 *)

Connect ==
  /\ clients < MaxClients
  /\ clients' = clients + 1
  /\ queue' = queue + 1
  /\ UNCHANGED <<pc, events, reading, data, open, connVars>>

Sends(fd) ==
  /\ fd \in open /\ ~ended[fd] /\ unread[fd] < MaxUnread
  /\ unread' = [unread EXCEPT ![fd] = @ + 1]
  /\ UNCHANGED <<pc, events, reading, data, open, netVars, ended>>

Finishes(fd) ==
  /\ fd \in open /\ ~ended[fd]
  /\ ended' = [ended EXCEPT ![fd] = TRUE]
  /\ UNCHANGED <<pc, events, reading, data, open, netVars, unread>>

-----------------------------------------------------------------------------
(* The server.                                                              *)

Readable(fd) == IF fd = sockfd THEN queue > 0 ELSE unread[fd] > 0 \/ ended[fd]

EpollWait ==
  /\ pc = "wait" /\ events = {}
  /\ events' = {fd \in open \cup {sockfd} : Readable(fd)}
  /\ events' # {}
  /\ UNCHANGED <<pc, reading, data, open, netVars, connVars>>

Looks(fd) == pc = "wait" /\ fd \in events /\ events' = events \ {fd}

Lowest(fd) == fd \in Fds \ open /\ \A other \in Fds \ open : fd <= other

Accept ==
  /\ Looks(sockfd)
  /\ \E connfd \in Fds, n \in 0 .. MaxUnread, left \in BOOLEAN :
       /\ Lowest(connfd)
       /\ data' = connfd
       /\ open' = open \cup {connfd}
       /\ unread' = [unread EXCEPT ![connfd] = n]
       /\ ended' = [ended EXCEPT ![connfd] = left]
  /\ queue' = queue - 1
  /\ UNCHANGED <<pc, reading, clients>>

\* Accept() returns nullptr, and conn->Connfd() follows.
AcceptFails ==
  /\ Looks(sockfd)
  /\ open = Fds
  /\ pc' = "dead"
  /\ UNCHANGED <<reading, data, open, netVars, connVars>>

\* What data_->fd is for an event of fd.
DataOf(fd) == data

TakesEvent(fd) ==
  /\ Looks(fd) /\ fd # sockfd
  /\ reading' = DataOf(fd)
  /\ pc' = "read"
  /\ UNCHANGED <<data, open, netVars, connVars>>

\* read() of a connection that has nothing waits.
Read ==
  /\ pc = "read" /\ reading \in open
  /\ unread[reading] > 0
  /\ unread' = [unread EXCEPT ![reading] = 0]
  /\ pc' = "wait" /\ reading' = -1
  /\ UNCHANGED <<events, data, open, netVars, ended>>

\* 0: EPOLL_CTL_DEL and close().
ReadEnd ==
  /\ pc = "read" /\ reading \in open
  /\ unread[reading] = 0 /\ ended[reading]
  /\ open' = open \ {reading}
  /\ ended' = [ended EXCEPT ![reading] = FALSE]
  /\ pc' = "wait" /\ reading' = -1
  /\ UNCHANGED <<events, data, netVars, unread>>

\* EBADF: the descriptor was closed before.
ReadFails ==
  /\ pc = "read" /\ reading \notin open
  /\ pc' = "wait" /\ reading' = -1
  /\ UNCHANGED <<events, data, open, netVars, connVars>>

Server ==
  \/ EpollWait \/ Accept \/ AcceptFails \/ Read \/ ReadEnd \/ ReadFails
  \/ \E fd \in Fds : TakesEvent(fd)

Next == Server \/ Connect \/ \E fd \in Fds : Sends(fd) \/ Finishes(fd)

Spec == Init /\ [][Next]_vars

-----------------------------------------------------------------------------
(* Properties.                                                              *)

\* "携带自己的数据" (line 31): an event carries the data of its own
\* descriptor, which is what line 66 reads from.
CarriesOwnData == [][\A fd \in Fds : TakesEvent(fd) => reading' = fd]_vars

=============================================================================
