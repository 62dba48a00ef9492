----------------------------- MODULE SelectTable ----------------------------
(***************************************************************************)
(* select/select_single_thread_server.cpp: an echo server around select()  *)
(* that keeps its connections in a table, client[], and scans it for the   *)
(* ones select() reported.                                                 *)
(*                                                                         *)
(* The scan stops early once as many connections have been served as       *)
(* select() counted, so that nready, the table and the descriptor sets     *)
(* must agree.  A connection at its end leaves the table and the set, but  *)
(* is never closed: every descriptor is used once.                         *)
(***************************************************************************)
EXTENDS SelectSockets

CONSTANT SLOTS  \* entries of client[], FD_SETSIZE in the source

ASSUME SelectAssumption == SLOTS \in Nat \ {0}

Slots == 0 .. SLOTS - 1

VARIABLES
  pc,      \* "select", "accept", "scan", "write", "exit" (too many clients)
           \* or "dead"
  client,  \* slot -> descriptor, or -1
  maxi,
  maxfd,
  allset,
  rset,
  nready,
  i,       \* index of the scan
  n        \* what the last read() put into buf

tableVars == <<client, maxi, maxfd, allset>>
loopVars == <<pc, rset, nready, i, n>>
serverVars == <<tableVars, loopVars>>
vars == <<serverVars, netVars>>

TypeOK ==
  /\ NetTypeOK
  /\ pc \in {"select", "accept", "scan", "write", "exit", "dead"}
  /\ client \in [Slots -> Fds \cup {-1}]
  /\ maxi \in Slots \cup {-1}
  /\ maxfd \in Fds \cup {listenfd}
  /\ allset \subseteq Fds \cup {listenfd} /\ rset \subseteq Fds \cup {listenfd}
  /\ nready \in Int /\ i \in 0 .. SLOTS
  /\ n \in 0 .. BUF_SIZE

Init ==
  /\ NetInit
  /\ pc = "select" /\ client = [s \in Slots |-> -1]
  /\ maxi = -1 /\ maxfd = listenfd
  /\ allset = {listenfd} /\ rset = {} /\ nready = 0 /\ i = 0 /\ n = 0

-----------------------------------------------------------------------------

Select ==
  /\ pc = "select"
  /\ rset' = {fd \in allset : fd <= maxfd /\ Readable(fd)}
  /\ rset' # {}
  /\ nready' = Cardinality(rset')
  /\ i' = 0
  /\ pc' = IF listenfd \in rset' THEN "accept" ELSE "scan"
  /\ UNCHANGED <<tableVars, n, netVars>>

FirstFree(s) == client[s] < 0 /\ \A t \in 0 .. s - 1 : client[t] >= 0

\* The new connection is added to the set only when the table has grown.
WatchesBug(fd, s) == IF s > maxi THEN allset \cup {fd} ELSE allset
Watches(fd, s) == allset \cup {fd}

\* accept() does not count as one of the descriptors served.
CountedBug == nready
Counted == nready - 1

\* accept(), the first free slot, the sets, and on to select() or the scan.
Accept(fd) ==
  /\ pc = "accept"
  /\ Accepts(fd)
  /\ \E s \in Slots :
       /\ FirstFree(s)
       /\ client' = [client EXCEPT ![s] = fd]
       /\ maxi' = IF s > maxi THEN s ELSE maxi
       /\ allset' = Watches(fd, s)
  /\ maxfd' = IF fd > maxfd THEN fd ELSE maxfd
  /\ nready' = Counted
  /\ pc' = IF nready' <= 0 THEN "select" ELSE "scan"
  /\ UNCHANGED <<rset, i, n>>

\* exit( 0 ): the table is full.
TooMany(fd) ==
  /\ pc = "accept"
  /\ Accepts(fd)
  /\ \A s \in Slots : client[s] >= 0
  /\ pc' = "exit"
  /\ UNCHANGED <<tableVars, rset, nready, i, n>>

\* Accept() returns nullptr, and conn->Connfd() follows.
AcceptFails ==
  /\ pc = "accept" /\ Open = Fds
  /\ pc' = "dead"
  /\ UNCHANGED <<tableVars, rset, nready, i, n, netVars>>

\* The scan goes over the slots below maxi (and not over maxi itself).
InScan(s) == s < maxi

Skip ==
  /\ pc = "scan" /\ InScan(i)
  /\ client[i] \notin rset
  /\ i' = i + 1
  /\ UNCHANGED <<tableVars, pc, rset, nready, n, netVars>>

\* The connection of slot i is served; then perhaps break.
Turn == pc = "scan" /\ InScan(i) /\ client[i] \in rset
Served ==
  /\ nready' = nready - 1
  /\ i' = i + 1
  /\ pc' = IF nready' <= 0 THEN "select" ELSE "scan"
  /\ UNCHANGED rset

ReadSome ==
  /\ Turn
  /\ n' = Taken(client[i])
  /\ ReadsText(client[i])
  /\ pc' = "write"
  /\ UNCHANGED <<tableVars, rset, nready, i>>

\* The slot is freed without taking its descriptor out of allset.
EndedBug(fd) == UNCHANGED allset
Ended(fd) == allset' = allset \ {fd}

\* FD_CLR(); the descriptor stays open.
ReadEnd ==
  /\ Turn /\ AtEnd(client[i])
  /\ Ended(client[i])
  /\ client' = [client EXCEPT ![i] = -1]
  /\ Served
  /\ UNCHANGED <<maxi, maxfd, n, netVars>>

\* write() of -1 bytes follows, and fails.
ReadError ==
  /\ Turn /\ ReadFails(client[i])
  /\ Served
  /\ UNCHANGED <<tableVars, n>>

Write ==
  /\ pc = "write" /\ Writes(client[i], n)
  /\ Served
  /\ UNCHANGED <<tableVars, n>>

BrokenPipe ==
  /\ pc = "write" /\ Breaks(client[i])
  /\ pc' = "dead"
  /\ UNCHANGED <<tableVars, rset, nready, i, n, netVars>>

ScanDone ==
  /\ pc = "scan" /\ ~InScan(i)
  /\ pc' = "select"
  /\ UNCHANGED <<tableVars, rset, nready, i, n, netVars>>

Server ==
  \/ Select \/ AcceptFails \/ Skip
  \/ ReadSome \/ ReadEnd \/ ReadError \/ Write \/ BrokenPipe \/ ScanDone
  \/ \E fd \in Fds : Accept(fd) \/ TooMany(fd)

Next == Server \/ (Client /\ UNCHANGED serverVars)

Spec == Init /\ [][Next]_vars

\* The process is scheduled, and clients that wait for an echo read it.
FairSpec ==
  /\ Spec
  /\ WF_vars(Server)
  /\ WF_vars(\E fd \in Fds : Reads(fd) /\ UNCHANGED serverVars)

-----------------------------------------------------------------------------
(* Properties.                                                              *)

\* client[] and allset name the same connections, each once, all of them
\* within maxfd: nobody is served twice or forgotten by select().
TableMatchesSet ==
  /\ allset \ {listenfd} = {client[s] : s \in Slots} \ {-1}
  /\ \A s, t \in Slots : client[s] = client[t] /\ client[s] # -1 => s = t
  /\ \A fd \in allset : fd <= maxfd

\* nready is exactly the number of reported connections the scan is not
\* done with, so the early ends of lines 64 and 81 skip none of them.
NreadyCounts ==
  pc \in {"scan", "write"} =>
    nready = Cardinality({s \in Slots : s >= i /\ client[s] \in rset})

\* Every connection the scan can come to (the last slot is never below maxi)
\* has its text read and answered, if clients read their echoes: the write() of
\* line 78 keeps everybody waiting for one that does not, and can end the server
\* after a reset.
ServedBelowMaxi ==
  \A s \in Slots \ {SLOTS - 1} :
    (client[s] >= 0 /\ s < maxi /\ inbox[client[s]] > 0)
      ~> ((pc = "write" /\ i = s) \/ pc \in {"exit", "dead"})

\* "maxi  client[] 的长度" (line 10): maxi is the length of client[], so that
\* every connection of the table has a slot below it.
MaxiIsLength == \A s \in Slots : client[s] >= 0 => s < maxi

=============================================================================
