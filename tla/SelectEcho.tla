----------------------------- MODULE SelectEcho -----------------------------
(***************************************************************************)
(* select/echo_server.cc: an echo server around select() that walks over   *)
(* the descriptors themselves.  A finished connection is closed, and the   *)
(* next accept() gets its descriptor.                                      *)
(*                                                                         *)
(* select() overwrites the set it is given; the loop hands it a copy, and  *)
(* asks the copy which descriptors to serve.                               *)
(* select/echo_server_wrong_example.cc is the same program without a copy: *)
(* its two differences are the seeded faults WatchedBug and ReportedBug.   *)
(*                                                                         *)
(* No descriptor of readfds is ever closed, so select() does not fail.     *)
(***************************************************************************)
EXTENDS SelectSockets, TLAPS

VARIABLES
  pc,       \* "select", "scan", "write" (to i) or "dead"
  readfds,  \* descriptors to watch
  cpyset,   \* what select() made of the copy
  maxfd,
  i,        \* index of the scan
  n         \* what the last read() put into buf

serverVars == <<pc, readfds, cpyset, maxfd, i, n>>
vars == <<serverVars, netVars>>

TypeOK ==
  /\ NetTypeOK
  /\ pc \in {"select", "scan", "write", "dead"}
  /\ readfds \subseteq Fds \cup {listenfd} /\ cpyset \subseteq Fds \cup {listenfd}
  /\ maxfd \in Fds \cup {listenfd} /\ i \in 0 .. 4 + FD_LIMIT
  /\ n \in 0 .. BUF_SIZE

Init ==
  /\ NetInit
  /\ pc = "select" /\ readfds = {listenfd} /\ cpyset = {}
  /\ maxfd = listenfd /\ i = 0 /\ n = 0

\* What is watched next, when select() has reported some descriptors.
WatchedBug(reported) == reported
Watched(reported) == readfds

Select ==
  /\ pc = "select"
  /\ cpyset' = {fd \in readfds : fd <= maxfd /\ Readable(fd)}
  /\ cpyset' # {}
  /\ readfds' = Watched(cpyset')
  /\ i' = 0
  /\ pc' = "scan"
  /\ UNCHANGED <<maxfd, n, netVars>>

\* FD_ISSET() of line 44.
ReportedBug == readfds
Reported == cpyset

\* The scan comes to fd; the descriptors between, which select() did not
\* report, are passed over on the way.
ComesTo(fd) ==
  /\ pc = "scan"
  /\ fd \in Reported /\ i <= fd /\ fd <= maxfd
  /\ \A other \in Reported : other < fd => other < i

Accept(connfd) ==
  /\ ComesTo(listenfd)
  /\ Accepts(connfd)
  /\ maxfd' = IF connfd > maxfd THEN connfd ELSE maxfd
  /\ readfds' = readfds \cup {connfd}
  /\ i' = listenfd + 1
  /\ UNCHANGED <<pc, cpyset, n>>

\* Accept() returns nullptr, and conn->Connfd() follows.
AcceptFails ==
  /\ ComesTo(listenfd)
  /\ Open = Fds
  /\ pc' = "dead"
  /\ UNCHANGED <<readfds, cpyset, maxfd, i, n, netVars>>

ReadSome(fd) ==
  /\ ComesTo(fd) /\ fd # listenfd
  /\ n' = Taken(fd)
  /\ ReadsText(fd)
  /\ i' = fd
  /\ pc' = "write"
  /\ UNCHANGED <<readfds, cpyset, maxfd>>

\* FD_CLR() and close().
ReadEnd(fd) ==
  /\ ComesTo(fd) /\ fd # listenfd
  /\ AtEnd(fd)
  /\ readfds' = readfds \ {fd}
  /\ peer' = [peer EXCEPT ![fd] = "none"]
  /\ outbox' = [outbox EXCEPT ![fd] = 0]
  /\ i' = fd + 1
  /\ UNCHANGED <<pc, cpyset, maxfd, n, inbox, queue, sent, clients>>

\* write() of -1 bytes follows, and fails.
ReadError(fd) ==
  /\ ComesTo(fd) /\ fd # listenfd
  /\ ReadFails(fd)
  /\ i' = fd + 1
  /\ UNCHANGED <<pc, readfds, cpyset, maxfd, n>>

Write ==
  /\ pc = "write"
  /\ Writes(i, n)
  /\ i' = i + 1
  /\ pc' = "scan"
  /\ UNCHANGED <<readfds, cpyset, maxfd, n>>

BrokenPipe ==
  /\ pc = "write"
  /\ Breaks(i)
  /\ pc' = "dead"
  /\ UNCHANGED <<readfds, cpyset, maxfd, i, n, netVars>>

ScanDone ==
  /\ pc = "scan"
  /\ \A fd \in Reported : fd < i \/ fd > maxfd
  /\ cpyset' = {} /\ i' = 0  \* they end with their blocks
  /\ pc' = "select"
  /\ UNCHANGED <<readfds, maxfd, n, netVars>>

Server ==
  \/ Select \/ AcceptFails \/ Write \/ BrokenPipe \/ ScanDone
  \/ \E fd \in Fds : Accept(fd) \/ ReadSome(fd) \/ ReadEnd(fd) \/ ReadError(fd)

Next == Server \/ (Client /\ UNCHANGED serverVars)

Spec == Init /\ [][Next]_vars

\* Clients that wait for an echo read it.
EchoesRead == \E fd \in Fds : Reads(fd) /\ UNCHANGED serverVars
FairSpec == Spec /\ WF_vars(Server) /\ WF_vars(EchoesRead)

-----------------------------------------------------------------------------
(* Properties.                                                              *)

\* readfds names the listening socket and the open connections, all within
\* maxfd, through every close and reuse of a descriptor (lines 51 to 65):
\* select() neither fails with EBADF nor passes a connection over.
SetIsOpen == readfds = Open \cup {listenfd} /\ \A fd \in readfds : fd <= maxfd

\* What the scan still has to serve, after the connection it is writing to.
ToServe == {fd \in Reported : i <= fd /\ fd <= maxfd /\ (pc = "write" => fd # i)}

\* What is still to be served of a scan is open and readable, although the
\* scan closes connections and accepts others, and a write() may keep it
\* waiting for long: neither accept() nor read() ever waits, and no
\* connection gets another's event (lines 42 to 71).
ScanReadable ==
  pc \in {"scan", "write"} => \A fd \in ToServe : Readable(fd) /\ fd \in readfds

ScanRight == SetIsOpen /\ ScanReadable

\* Whoever has something for the server is read and answered, or closed: text
\* does not lie there, and a client that has finished or reset its connection
\* is read to the end and its descriptor goes to another.  Without the copy
\* of line 29 "only one of several connections works".  All of them depend on
\* each other: the write() of line 68 keeps everybody waiting for one client
\* that does not read its echo, so that this takes clients that do; and one
\* that resets its connection can end the server with SIGPIPE, as accept()
\* can for want of a descriptor.
AllServed ==
  \A fd \in Fds :
    Readable(fd) ~> ((pc = "write" /\ i = fd) \/ peer[fd] = "none" \/ pc = "dead")

-----------------------------------------------------------------------------
(* Proofs.                                                                  *)

\* The set, the open connections and the rest of the scan agree; what is
\* read is written to the connection it came from.
EchoInv ==
  /\ TypeOK
  /\ SetIsOpen
  /\ ScanReadable
  /\ \A fd \in cpyset : fd <= maxfd
  /\ pc = "write" => i \in Open

LEMMA EchoInit ==
  ASSUME Init
  PROVE  EchoInv
BY SocketsAssumption
DEF Init, NetInit, EchoInv, TypeOK, NetTypeOK, SetIsOpen, ScanReadable, Open, Fds, Peer, listenfd

\* Whatever clients do, a connection stays, and stays readable.
LEMMA ClientKeeps ==
  ASSUME NetTypeOK, Client
  PROVE  /\ NetTypeOK' /\ Open' = Open
         /\ \A fd \in Fds \cup {listenfd} : Readable(fd) => Readable(fd)'
<1> USE SocketsAssumption DEF NetTypeOK, Open, Readable, Peer
<1>1. CASE Connect
  BY <1>1 DEF Connect
<1>2. ASSUME NEW fd \in Fds, Sends(fd)
      PROVE  /\ NetTypeOK' /\ Open' = Open
             /\ \A c \in Fds \cup {listenfd} : Readable(c) => Readable(c)'
  BY <1>2 DEF Sends
<1>3. ASSUME NEW fd \in Fds, ShutsDown(fd) \/ Closes(fd) \/ Resets(fd)
      PROVE  /\ NetTypeOK' /\ Open' = Open
             /\ \A c \in Fds \cup {listenfd} : Readable(c) => Readable(c)'
  BY <1>3 DEF ShutsDown, Closes, Resets, Becomes
<1>4. ASSUME NEW fd \in Fds, Reads(fd)
      PROVE  /\ NetTypeOK' /\ Open' = Open
             /\ \A c \in Fds \cup {listenfd} : Readable(c) => Readable(c)'
  BY <1>4 DEF Reads
<1> QED BY <1>1, <1>2, <1>3, <1>4 DEF Client

LEMMA SelectStep ==
  ASSUME EchoInv, Select
  PROVE  EchoInv'
<1> USE DEF EchoInv, TypeOK, netVars, NetTypeOK, Open, Readable
<1>1. cpyset' = {fd \in readfds : fd <= maxfd /\ Readable(fd)}
  BY DEF Select
<1>2. /\ pc' = "scan" /\ i' = 0 /\ readfds' = readfds
      /\ UNCHANGED <<maxfd, n, netVars>>
  BY DEF Select, Watched
<1>3. TypeOK'
  <2>1. cpyset' \subseteq readfds
    BY <1>1
  <2> QED BY <1>2, <2>1, SocketsAssumption
<1>4. SetIsOpen'
  BY <1>2 DEF SetIsOpen
<1>5. ScanReadable'
  BY <1>1, <1>2 DEF ScanReadable, ToServe, Reported
<1> QED BY <1>1, <1>2, <1>3, <1>4, <1>5

LEMMA AcceptStep ==
  ASSUME EchoInv, NEW connfd \in Fds, Accept(connfd)
  PROVE  EchoInv'
<1> USE DEF EchoInv, TypeOK, Fds, listenfd
<1>1. /\ pc = "scan" /\ i <= 3 /\ 3 \in cpyset /\ 3 <= maxfd
      /\ connfd \notin Open
      /\ maxfd' = IF connfd > maxfd THEN connfd ELSE maxfd
      /\ readfds' = readfds \cup {connfd} /\ i' = 4
      /\ queue' = queue - 1 /\ UNCHANGED <<pc, cpyset, n, clients>>
  BY DEF Accept, ComesTo, Accepts, Reported
<1>2. PICK k \in 0 .. MaxBytes - sent, state \in {"open", "shut"} :
        /\ peer' = [peer EXCEPT ![connfd] = state]
        /\ inbox' = [inbox EXCEPT ![connfd] = k]
        /\ outbox' = [outbox EXCEPT ![connfd] = 0]
        /\ sent' = sent + k
  BY DEF Accept, Accepts
<1>3. queue > 0
  BY <1>1 DEF ScanReadable, ToServe, Reported, Readable
<1>4. NetTypeOK'
  BY <1>1, <1>2, <1>3, SocketsAssumption DEF NetTypeOK, Peer
<1>5. Open' = Open \cup {connfd}
  BY <1>1, <1>2 DEF Open, NetTypeOK, Peer
<1>6. SetIsOpen' /\ \A fd \in cpyset' : fd <= maxfd'
  BY <1>1, <1>5 DEF SetIsOpen
<1>7. connfd \notin readfds
  BY <1>1 DEF SetIsOpen
<1>8. ScanReadable'
  <2> SUFFICES ASSUME NEW fd \in cpyset, 4 <= fd, fd <= maxfd'
               PROVE  Readable(fd)' /\ fd \in readfds'
    BY <1>1 DEF ScanReadable, ToServe, Reported
  <2>1. fd \in Fds /\ Readable(fd) /\ fd \in readfds
    <3>1. fd <= maxfd
      BY <1>1
    <3> QED BY <1>1, <3>1 DEF ScanReadable, ToServe, Reported
  <2>2. fd # connfd
    BY <1>7, <2>1
  <2>3. peer'[fd] = peer[fd] /\ inbox'[fd] = inbox[fd]
    BY <1>2, <2>1, <2>2 DEF NetTypeOK
  <2>4. fd # listenfd
    BY <2>1
  <2>5. fd \in readfds'
    BY <1>1, <2>1
  <2>6. Readable(fd)'
    BY <2>1, <2>3, <2>4 DEF Readable
  <2> QED BY <2>5, <2>6
<1>9. TypeOK'
  BY <1>1, <1>4, SocketsAssumption
<1> QED BY <1>1, <1>6, <1>8, <1>9

\* Serving fd changes nothing of what the scan comes to after it.
LEMMA ServeStep ==
  ASSUME EchoInv, NEW fd \in Fds, ReadSome(fd) \/ ReadEnd(fd) \/ ReadError(fd)
  PROVE  EchoInv'
<1> USE SocketsAssumption DEF EchoInv, TypeOK, Fds, listenfd, ComesTo, Reported, Open, NetTypeOK, Peer
<1>1. CASE ReadSome(fd)
  <2>1. /\ pc = "scan" /\ fd \in cpyset /\ i <= fd /\ fd <= maxfd
        /\ pc' = "write" /\ i' = fd /\ n' = Taken(fd)
        /\ inbox[fd] > 0 /\ inbox' = [inbox EXCEPT ![fd] = @ - Taken(fd)]
        /\ UNCHANGED <<readfds, cpyset, maxfd, peer, outbox, queue, sent, clients>>
    BY <1>1 DEF ReadSome, ReadsText
  <2>2. Taken(fd) \in 0 .. BUF_SIZE /\ inbox[fd] - Taken(fd) \in Nat
    BY DEF Taken
  <2>3. fd \in Open
    BY <2>1 DEF ScanReadable, ToServe, Readable
  <2> QED BY <2>1, <2>2, <2>3 DEF SetIsOpen, ScanReadable, ToServe, Readable
<1>2. CASE ReadEnd(fd)
  <2>1. /\ pc = "scan" /\ fd \in cpyset /\ i <= fd
        /\ pc' = pc /\ i' = fd + 1 /\ readfds' = readfds \ {fd}
        /\ peer' = [peer EXCEPT ![fd] = "none"]
        /\ outbox' = [outbox EXCEPT ![fd] = 0]
        /\ UNCHANGED <<cpyset, maxfd, n, inbox, queue, sent, clients>>
    BY <1>2 DEF ReadEnd
  <2> QED BY <2>1 DEF SetIsOpen, ScanReadable, ToServe, Readable
<1>3. CASE ReadError(fd)
  <2>1. /\ pc = "scan" /\ fd \in cpyset /\ i <= fd
        /\ pc' = pc /\ i' = fd + 1 /\ peer[fd] = "reset"
        /\ peer' = [peer EXCEPT ![fd] = "over"]
        /\ UNCHANGED <<readfds, cpyset, maxfd, n, inbox, outbox, queue, sent, clients>>
    BY <1>3 DEF ReadError, ReadFails, Becomes
  <2> QED BY <2>1 DEF SetIsOpen, ScanReadable, ToServe, Readable
<1> QED BY <1>1, <1>2, <1>3

\* The answer goes to the connection that asked, which is still open.
LEMMA WriteStep ==
  ASSUME EchoInv, Write
  PROVE  EchoInv'
<1> USE SocketsAssumption DEF EchoInv, TypeOK, Fds, listenfd, Open, NetTypeOK, Peer
<1>1. /\ pc = "write" /\ pc' = "scan" /\ i' = i + 1 /\ i \in Fds /\ peer[i] # "none"
      /\ UNCHANGED <<readfds, cpyset, maxfd, n>>
  BY DEF Write
<1>2. \/ /\ outbox[i] + n <= WINDOW /\ outbox' = [outbox EXCEPT ![i] = @ + n]
         /\ UNCHANGED <<peer, inbox, queue, sent, clients>>
      \/ UNCHANGED netVars
      \/ /\ peer' = [peer EXCEPT ![i] = "over"]
         /\ UNCHANGED <<inbox, outbox, queue, sent, clients>>
  BY DEF Write, Writes, Becomes
<1>3. NetTypeOK'
  <2>1. CASE outbox[i] + n <= WINDOW /\ outbox' = [outbox EXCEPT ![i] = @ + n]
    <3>1. outbox[i] + n \in 0 .. WINDOW
      BY <1>1, <2>1
    <3>2. outbox' \in [Fds -> 0 .. WINDOW]
      BY <2>1, <3>1
    <3> QED BY <1>1, <1>2, <2>1, <3>2 DEF netVars
  <2>2. CASE outbox' = outbox
    BY <1>1, <1>2, <2>2 DEF netVars
  <2> QED BY <1>2, <2>1, <2>2 DEF netVars
<1>4. Open' = Open
  BY <1>1, <1>2 DEF netVars
<1>5. TypeOK' /\ SetIsOpen'
  <2>1. i + 1 \in 0 .. 4 + FD_LIMIT
    BY <1>1
  <2>2. SetIsOpen'
    BY <1>1, <1>4 DEF SetIsOpen
  <2>3. TypeOK'
    BY <1>1, <1>3, <2>1
  <2> QED BY <2>2, <2>3
<1>6. ScanReadable'
  <2> SUFFICES ASSUME NEW fd \in cpyset, i + 1 <= fd, fd <= maxfd PROVE Readable(fd)' /\ fd \in readfds
    BY <1>1 DEF ScanReadable, ToServe, Reported
  <2>1. Readable(fd) /\ fd \in readfds /\ fd # i
    BY <1>1 DEF ScanReadable, ToServe, Reported
  <2> QED BY <1>1, <1>2, <2>1 DEF Readable, netVars
<1> QED BY <1>1, <1>5, <1>6

LEMMA EchoStep ==
  ASSUME EchoInv, [Next]_vars
  PROVE  EchoInv'
<1> USE SocketsAssumption DEF EchoInv
<1>1. CASE Client /\ UNCHANGED serverVars
  <2>1. NetTypeOK' /\ Open' = Open
    BY <1>1, ClientKeeps DEF TypeOK
  <2>2. \A fd \in Fds \cup {listenfd} : Readable(fd) => Readable(fd)'
    BY <1>1, ClientKeeps DEF TypeOK
  <2>3. TypeOK' /\ SetIsOpen'
    BY <1>1, <2>1 DEF TypeOK, SetIsOpen, serverVars
  <2>4. ScanReadable'
    BY <1>1, <2>2 DEF ScanReadable, ToServe, Reported, TypeOK, serverVars
  <2> QED BY <1>1, <2>1, <2>3, <2>4 DEF serverVars
<1>2. CASE AcceptFails \/ BrokenPipe
  BY <1>2 DEF AcceptFails, BrokenPipe, ComesTo, TypeOK, NetTypeOK, SetIsOpen, ScanReadable,
              Open, netVars
<1>3. CASE ScanDone
  BY <1>3 DEF ScanDone, TypeOK, NetTypeOK, SetIsOpen, ScanReadable, Open, netVars
<1>4. CASE UNCHANGED vars
  BY <1>4 DEF vars, serverVars, netVars, TypeOK, NetTypeOK, SetIsOpen, ScanReadable, ToServe,
              Reported, Open, Readable
<1> QED
  BY SelectStep, AcceptStep, ServeStep, WriteStep, <1>1, <1>2, <1>3, <1>4 DEF Next, Server

\* The inductive invariant, for any number of descriptors and any clients.
THEOREM EchoInvariant == Spec => []EchoInv
BY EchoInit, EchoStep, PTL DEF Spec

\* select() never gets a closed descriptor and never misses a connection
\* (lines 51 to 65), although descriptors are closed and reused; and no
\* accept() and no read() of a scan waits, or serves a descriptor that has
\* changed hands since select() (lines 42 to 71), however long a write()
\* keeps it.
THEOREM ScanRightCorrect == Spec => []ScanRight
<1>1. EchoInv => ScanRight
  BY DEF EchoInv, ScanRight
<1> QED BY <1>1, EchoInvariant, PTL

=============================================================================
