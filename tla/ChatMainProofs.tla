--------------------------- MODULE ChatMainProofs ---------------------------
(***************************************************************************)
(* Proofs of the safety properties of ChatMain for every value of its      *)
(* constants.                                                              *)
(***************************************************************************)
EXTENDS ChatMain, FiniteSetTheorems, TLAPS

Tables == TypeOK /\ TableConsistent /\ ChannelsMatch

\* Connections' descriptors are never the listening socket or the signal pipe.
LEMMA FdsAreOthers ==
  /\ listenfd \notin Fds /\ sig_pipefd0 \notin Fds /\ Fds \subseteq Int
  /\ -1 \notin Fds
BY ChatAssumption DEF Fds, listenfd, sig_pipefd0

\* The tables start out empty and right (lines 203 to 209).
LEMMA InitTables == Init => Tables
<1> SUFFICES ASSUME Init PROVE Tables
  OBVIOUS
<1> USE ChatAssumption DEF Init
<1>1. users \in [0 .. USER_LIMIT -> Entry]
  BY DEF Entry
<1>2. /\ down \in [Pids -> Seq(Notification)] /\ sigpipe \in Seq(Signal)
      /\ Len(sigpipe) <= SIG_CAP /\ signals \in Seq(Signal)
  OBVIOUS
<1>3. TypeOK
  <2>1. /\ sub_process \in [Pids -> -1 .. USER_LIMIT - 1]
        /\ slot \in [Pids -> 0 .. USER_LIMIT - 1]
        /\ up \in [Pids -> 0 .. PIPE_CAP]
    OBVIOUS
  <2>2. /\ fdtab \in [Fds -> Pids \cup {NoPid, Leaked}]
        /\ proc \in [Pids -> {"free", "run", "zombie"}]
        /\ user_count \in 0 .. USER_LIMIT
    OBVIOUS
  <2>3. /\ events \subseteq Fds \cup {listenfd, sig_pipefd0}
        /\ ready \subseteq Fds \cup {listenfd, sig_pipefd0}
        /\ pending \subseteq Signal /\ termed \subseteq Pids
        /\ terminate \in BOOLEAN /\ stop_server \in BOOLEAN
        /\ mpc \in {"run", "exit", "abort"}
    OBVIOUS
  <2>4. backlog \in 0 .. BACKLOG
    OBVIOUS
  <2> HIDE DEF Init
  <2> QED
    BY <1>1, <1>2, <2>1, <2>2, <2>3, <2>4 DEF TypeOK
<1>4. Unreaped = {} /\ Registered = {}
  BY DEF Unreaped, Registered
<1>5. TableConsistent /\ ChannelsMatch
  BY <1>4 DEF TableConsistent, NamedByBoth, ChannelsMatch
<1> QED
  BY <1>3, <1>5 DEF Tables

\* What a pass of the reap loop does, once the tables are known to be right.
LEMMA ReapEffect ==
  ASSUME Tables, NEW p \in Pids, Reap(p)
  PROVE  LET del == sub_process[p]
             last == user_count - 1
         IN /\ p \in Zombies /\ p \in Unreaped
            /\ del \in Registered /\ last \in Registered /\ users[del].pid = p
            /\ users[last].pid \in Pids
            /\ ready' = ready \ {users[del].pipefd}
            /\ fdtab' = [fdtab EXCEPT ![users[del].pipefd] = NoPid]
            /\ up' = [up EXCEPT ![p] = 0]
            /\ users' = [users EXCEPT ![del] = users[last]]
            /\ user_count' = last
            /\ sub_process' = [sub_process EXCEPT ![p] = -1, ![users[last].pid] = del]
            /\ proc' = [proc EXCEPT ![p] = "free"]
            /\ termed' = termed \ {p}
            /\ slot' = [slot EXCEPT ![p] = 0]
            /\ UNCHANGED <<loopVars, flagVars, backlog, signalVars, down>>
<1>1. p \in Zombies /\ p \in Unreaped
  BY DEF Reap, Zombies, Unreaped
<1>2. sub_process[p] \in Registered /\ users[sub_process[p]].pid = p
  BY <1>1 DEF Tables, TableConsistent, NamedByBoth
<1>3. user_count - 1 \in Registered /\ users[user_count - 1].pid \in Pids
  BY <1>2 DEF Tables, TypeOK, TableConsistent, NamedByBoth, Registered, Unreaped
<1>4. ~(sub_process[p] < 0 \/ sub_process[p] > USER_LIMIT)
  BY <1>2, ChatAssumption DEF Tables, TypeOK, Registered
<1> QED
  BY <1>1, <1>2, <1>3, <1>4 DEF Reap, Compacted, Reindexed, Closed

-----------------------------------------------------------------------------
(* Type correctness.                                                        *)

\* Writing to the signal pipe keeps it a bounded sequence (lines 63 to 69).
LEMMA PutType ==
  ASSUME TypeOK, NEW s \in Signal, PutSignal(s)
  PROVE  /\ ready' \subseteq Fds \cup {listenfd, sig_pipefd0}
         /\ sigpipe' \in Seq(Signal) /\ Len(sigpipe') <= SIG_CAP
<1> USE ChatAssumption DEF TypeOK
<1>1. CASE Len(sigpipe) < SIG_CAP
  <2>1. sigpipe' = Append(sigpipe, s) /\ ready' = ready \cup {sig_pipefd0}
    BY <1>1 DEF PutSignal
  <2>2. Len(sigpipe') = Len(sigpipe) + 1 /\ sigpipe' \in Seq(Signal)
    BY <2>1
  <2> QED
    BY <1>1, <2>1, <2>2
<1>2. CASE ~(Len(sigpipe) < SIG_CAP)
  BY <1>2 DEF PutSignal
<1> QED
  BY <1>1, <1>2

\* recv() splits the contents of the signal pipe in two (line 302).
LEMMA BytesSplit ==
  ASSUME TypeOK
  PROVE  /\ BytesRead \in 0 .. Len(sigpipe) /\ BytesRead <= SIG_READ
         /\ FirstBytes \in Seq(Signal) /\ Len(FirstBytes) = BytesRead
         /\ \A k \in 1 .. BytesRead : FirstBytes[k] = sigpipe[k]
         /\ OtherBytes \in Seq(Signal) /\ Len(OtherBytes) = Len(sigpipe) - BytesRead
         /\ Len(OtherBytes) \in Nat /\ Len(OtherBytes) <= Len(sigpipe) /\ Len(sigpipe) \in Nat
<1>1. sigpipe \in Seq(Signal) /\ Len(sigpipe) \in Nat /\ SIG_READ \in Nat \ {0}
  BY ChatAssumption DEF TypeOK
<1>2. BytesRead \in 0 .. Len(sigpipe) /\ BytesRead <= SIG_READ
  BY <1>1 DEF BytesRead
<1> DEFINE n == BytesRead
<1>3. n \in 0 .. Len(sigpipe)
  BY <1>2
<1> HIDE DEF n
<1>4. /\ SubSeq(sigpipe, 1, n) \in Seq(Signal) /\ Len(SubSeq(sigpipe, 1, n)) = n
      /\ \A k \in 1 .. n : SubSeq(sigpipe, 1, n)[k] = sigpipe[k]
      /\ SubSeq(sigpipe, n + 1, Len(sigpipe)) \in Seq(Signal)
      /\ Len(SubSeq(sigpipe, n + 1, Len(sigpipe))) = Len(sigpipe) - n
  BY <1>1, <1>3
<1>5. Len(sigpipe) - n \in Nat /\ Len(sigpipe) - n <= Len(sigpipe)
  BY <1>1, <1>3
<1> QED
  BY <1>1, <1>2, <1>4, <1>5 DEF n, FirstBytes, OtherBytes

\* Every step leaves every variable in its type.
LEMMA TypeStep == Tables /\ [Next]_vars => TypeOK'
<1> SUFFICES ASSUME Tables, [Next]_vars PROVE TypeOK'
  OBVIOUS
<1> USE ChatAssumption DEF Tables, TypeOK, loopVars, tableVars, flagVars, mainVars,
      netVars, signalVars, childVars, pipeVars, kernelVars
<1>signals. Signal = {"CHLD", "TERM"}
  BY DEF Signal
<1>put. ASSUME NEW s \in Signal, PutSignal(s)
        PROVE  /\ ready' \subseteq Fds \cup {listenfd, sig_pipefd0}
               /\ sigpipe' \in Seq(Signal) /\ Len(sigpipe') <= SIG_CAP
  BY <1>put, PutType
<1>1. CASE EpollWait
  BY <1>1 DEF EpollWait
<1>2. CASE Exit
  BY <1>2 DEF Exit
<1>3. CASE AcceptFails
  BY <1>3 DEF AcceptFails, Handling
<1>4. CASE Reject
  BY <1>4 DEF Reject, Accepts, Handling
<1>5. CASE SocketpairAborts
  BY <1>5 DEF SocketpairAborts, Accepts, Handling
<1>6. CASE ForkFails
  <2>1. PICK connfd, pipe0, pipe1 \in Fds :
          /\ users' = [users EXCEPT ![user_count].pipefd = pipe0]
          /\ fdtab' = [fdtab EXCEPT ![pipe0] = Leaked, ![pipe1] = Leaked]
    BY <1>6 DEF ForkFails
  <2>2. [users[user_count] EXCEPT !.pipefd = pipe0] \in Entry
    <3>1. users[user_count] \in Entry
      OBVIOUS
    <3> HIDE ChatAssumption DEF Tables, TypeOK
    <3> QED
      BY <3>1 DEF Entry
  <2>3. users' \in [0 .. USER_LIMIT -> Entry]
    BY <2>1, <2>2
  <2>4. fdtab' \in [Fds -> Pids \cup {NoPid, Leaked}]
    BY <2>1
  <2>5. backlog' \in 0 .. BACKLOG
    BY <1>6 DEF ForkFails, Accepts
  <2> QED
    BY <1>6, <2>3, <2>4, <2>5 DEF ForkFails, Accepts, Handling
<1>7. ASSUME NEW p \in Pids, Admit(p) PROVE TypeOK'
  <2>1. PICK connfd, pipe0, pipe1 \in Fds :
          /\ users' = [users EXCEPT ![user_count] = [pid |-> p, pipefd |-> pipe0]]
          /\ fdtab' = [fdtab EXCEPT ![pipe0] = p]
    BY <1>7 DEF Admit
  <2>2. users' \in [0 .. USER_LIMIT -> Entry]
    BY <2>1 DEF Entry
  <2>3. user_count \in 0 .. USER_LIMIT - 1
    BY <1>7 DEF Admit, TableFull
  <2> QED
    BY <1>7, <2>1, <2>2, <2>3 DEF Admit, ChildIdx, Accepts, Handling
<1>8. CASE ReadSignals
  <2>1. UNCHANGED <<mpc, tableVars, flagVars, netVars, pending, fdtab, childVars, pipeVars>>
    BY <1>8 DEF ReadSignals
  <2>2. events' = events \ {sig_pipefd0} /\ signals' = FirstBytes /\ sigpipe' = OtherBytes
    BY <1>8 DEF ReadSignals, Handling
  <2>3. /\ FirstBytes \in Seq(Signal) /\ OtherBytes \in Seq(Signal)
        /\ Len(OtherBytes) \in Nat /\ Len(OtherBytes) <= Len(sigpipe) /\ Len(sigpipe) \in Nat
    BY BytesSplit
  <2> QED
    BY <2>1, <2>2, <2>3
<1>9. ASSUME NEW p \in Pids, Reap(p) PROVE TypeOK'
  <2> DEFINE del == sub_process[p]
             last == user_count - 1
  <2>1. /\ del \in Registered /\ last \in Registered
        /\ ready' = ready \ {users[del].pipefd}
        /\ fdtab' = [fdtab EXCEPT ![users[del].pipefd] = NoPid]
        /\ up' = [up EXCEPT ![p] = 0]
        /\ users' = [users EXCEPT ![del] = users[last]]
        /\ user_count' = last
        /\ sub_process' = [sub_process EXCEPT ![p] = -1, ![users[last].pid] = del]
        /\ proc' = [proc EXCEPT ![p] = "free"]
        /\ termed' = termed \ {p}
        /\ slot' = [slot EXCEPT ![p] = 0]
        /\ UNCHANGED <<loopVars, flagVars, backlog, signalVars, down>>
    BY <1>9, ReapEffect
  <2>2. last \in 0 .. USER_LIMIT - 1 /\ del \in 0 .. USER_LIMIT - 1
    BY <2>1 DEF Registered
  <2>3. users' \in [0 .. USER_LIMIT -> Entry] /\ user_count' \in 0 .. USER_LIMIT
    BY <2>1, <2>2
  <2>4. sub_process' \in [Pids -> -1 .. USER_LIMIT - 1]
    <3>1. [sub_process EXCEPT ![p] = -1] \in [Pids -> -1 .. USER_LIMIT - 1]
      OBVIOUS
    <3> QED
      BY <2>1, <2>2, <3>1
  <2>5. slot' \in [Pids -> 0 .. USER_LIMIT - 1] /\ up' \in [Pids -> 0 .. PIPE_CAP]
    BY <2>1
  <2>6. fdtab' \in [Fds -> Pids \cup {NoPid, Leaked}] /\ proc' \in [Pids -> {"free", "run", "zombie"}]
    BY <2>1
  <2> HIDE DEF del, last
  <2> QED
    BY <2>1, <2>3, <2>4, <2>5, <2>6
<1>10. CASE ReapEnd
  <2>1. stop_server' \in BOOLEAN
    BY <1>10 DEF ReapEnd
  <2>2. signals' \in Seq(Signal)
    BY <1>10 DEF ReapEnd, AtSignal
  <2> QED
    BY <1>10, <2>1, <2>2 DEF ReapEnd
<1>11. CASE Terminate
  <2>1. KillTargets \subseteq Pids
    BY DEF KillTargets, TableConsistent, NamedByBoth, Unreaped
  <2>2. signals' \in Seq(Signal)
    BY <1>11 DEF Terminate, AtSignal
  <2>3. termed' \subseteq Pids /\ terminate' \in BOOLEAN /\ stop_server' \in BOOLEAN
    BY <1>11, <2>1 DEF Terminate
  <2> QED
    BY <1>11, <2>2, <2>3 DEF Terminate
<1>12. ASSUME NEW fd \in Fds, Relay(fd) PROVE TypeOK'
  <2> DEFINE note == [from |-> fdtab[fd], idx |-> slot[fdtab[fd]]]
  <2>1. note \in Notification
    BY <1>12 DEF Relay, Notification
  <2>2. down' \in [Pids -> Seq(Notification)]
    BY <1>12, <2>1 DEF Relay
  <2>3. up' \in [Pids -> 0 .. PIPE_CAP]
    BY <1>12 DEF Relay
  <2> QED
    BY <1>12, <2>2, <2>3 DEF Relay, Handling
<1>13. ASSUME NEW fd \in Fds, RelayNothing(fd) PROVE TypeOK'
  BY <1>13 DEF RelayNothing, Handling
<1>14. ASSUME NEW p \in Pids, Child(p) PROVE TypeOK'
  <2>1. CASE ChildNotifies(p)
    <3>1. up' \in [Pids -> 0 .. PIPE_CAP]
      BY <2>1 DEF ChildNotifies
    <3> QED
      BY <2>1, <3>1 DEF ChildNotifies, ChannelOf
  <2>2. CASE ChildReads(p)
    BY <2>2 DEF ChildReads
  <2>3. CASE ChildSignalled(p)
    BY <2>3, <1>put, <1>signals DEF ChildSignalled
  <2>4. CASE ChildExits(p)
    BY <2>4, <1>signals DEF ChildExits, ChannelOf
  <2> QED
    BY <1>14, <2>1, <2>2, <2>3, <2>4 DEF Child
<1>15. CASE ClientConnects
  BY <1>15 DEF ClientConnects
<1>16. CASE Interrupt
  BY <1>16, <1>signals DEF Interrupt
<1>17. ASSUME NEW s \in Signal, sig_handler(s) PROVE TypeOK'
  BY <1>17, <1>put DEF sig_handler
<1>18. CASE UNCHANGED vars
  BY <1>18 DEF vars
<1> QED
  BY <1>1, <1>2, <1>3, <1>4, <1>5, <1>6, <1>7, <1>8, <1>9, <1>10, <1>11, <1>12,
     <1>13, <1>14, <1>15, <1>16, <1>17, <1>18 DEF Next, Server

-----------------------------------------------------------------------------
(* The tables.  Only four actions touch them.                               *)

tables == <<users, user_count, sub_process, fdtab, proc>>

\* Only Relay and a child that reads or exits touch what is on its way to children.
LEMMA RestKeepsDown ==
  ASSUME [Next]_vars,
         \A p \in Pids : ~ChildReads(p) /\ ~ChildExits(p),
         \A fd \in Fds : ~Relay(fd)
  PROVE  UNCHANGED down
<1> USE DEF pipeVars, kernelVars
<1>1. CASE EpollWait \/ Exit \/ AcceptFails \/ Reject \/ SocketpairAborts \/ ForkFails
  BY <1>1 DEF EpollWait, Exit, AcceptFails, Reject, SocketpairAborts, ForkFails
<1>2. CASE ReadSignals \/ ReapEnd \/ Terminate
  BY <1>2 DEF ReadSignals, ReapEnd, Terminate
<1>3. CASE \E p \in Pids : Admit(p) \/ Reap(p)
  BY <1>3 DEF Admit, Reap
<1>4. CASE \E p \in Pids : ChildNotifies(p) \/ ChildSignalled(p)
  BY <1>4 DEF ChildNotifies, ChildSignalled
<1>5. CASE ClientConnects \/ Interrupt \/ \E s \in Signal : sig_handler(s)
  BY <1>5 DEF ClientConnects, Interrupt, sig_handler
<1>6. CASE (\E fd \in Fds : RelayNothing(fd)) \/ UNCHANGED vars
  BY <1>6 DEF RelayNothing, vars
<1> QED
  BY <1>1, <1>2, <1>3, <1>4, <1>5, <1>6 DEF Next, Server, Child

\* Only Admit, Reap, Terminate and a child's SIGTERM or exit touch the processes.
LEMMA RestKeepsChildren ==
  ASSUME [Next]_vars,
         ~Terminate,
         \A p \in Pids : ~Admit(p) /\ ~Reap(p) /\ ~ChildSignalled(p) /\ ~ChildExits(p)
  PROVE  UNCHANGED childVars
<1> USE DEF childVars, kernelVars
<1>1. CASE EpollWait \/ Exit \/ AcceptFails \/ Reject \/ SocketpairAborts \/ ForkFails
  BY <1>1 DEF EpollWait, Exit, AcceptFails, Reject, SocketpairAborts, ForkFails
<1>2. CASE ReadSignals \/ ReapEnd
  BY <1>2 DEF ReadSignals, ReapEnd
<1>3. CASE \E fd \in Fds : Relay(fd) \/ RelayNothing(fd)
  BY <1>3 DEF Relay, RelayNothing
<1>4. CASE \E p \in Pids : ChildNotifies(p) \/ ChildReads(p)
  BY <1>4 DEF ChildNotifies, ChildReads
<1>5. CASE ClientConnects \/ Interrupt \/ \E s \in Signal : sig_handler(s)
  BY <1>5 DEF ClientConnects, Interrupt, sig_handler
<1>6. CASE UNCHANGED vars
  BY <1>6 DEF vars
<1> QED
  BY <1>1, <1>2, <1>3, <1>4, <1>5, <1>6 DEF Next, Server, Child

\* Only Admit, Reap, a failed fork() and a child's exit touch tables and slots.
LEMMA OtherSteps ==
  ASSUME [Next]_vars,
         ~ForkFails,
         \A p \in Pids : ~Admit(p) /\ ~Reap(p) /\ ~ChildExits(p)
  PROVE  UNCHANGED <<tables, slot>>
<1> USE DEF tables, loopVars, tableVars, flagVars, mainVars, netVars, signalVars,
      childVars, pipeVars, kernelVars
<1>1. CASE EpollWait \/ Exit \/ AcceptFails \/ Reject \/ SocketpairAborts
  BY <1>1 DEF EpollWait, Exit, AcceptFails, Reject, SocketpairAborts
<1>2. CASE ReadSignals \/ ReapEnd \/ Terminate
  BY <1>2 DEF ReadSignals, ReapEnd, Terminate
<1>3. CASE \E fd \in Fds : Relay(fd) \/ RelayNothing(fd)
  BY <1>3 DEF Relay, RelayNothing
<1>4. CASE \E p \in Pids : ChildNotifies(p) \/ ChildReads(p) \/ ChildSignalled(p)
  BY <1>4 DEF ChildNotifies, ChildReads, ChildSignalled
<1>5. CASE ClientConnects \/ Interrupt \/ \E s \in Signal : sig_handler(s)
  BY <1>5 DEF ClientConnects, Interrupt, sig_handler
<1>6. CASE UNCHANGED vars
  BY <1>6 DEF vars
<1> QED
  BY <1>1, <1>2, <1>3, <1>4, <1>5, <1>6 DEF Next, Server, Child

\* Admit and Reap keep users[], sub_process[] and the descriptors in step.
LEMMA TablesStep == Tables /\ [Next]_vars => TableConsistent' /\ ChannelsMatch'
<1> SUFFICES ASSUME Tables, [Next]_vars PROVE TableConsistent' /\ ChannelsMatch'
  OBVIOUS
<1> USE ChatAssumption DEF Tables
<1>1. CASE ForkFails
  <2>1. PICK connfd, pipe0, pipe1 \in Fds :
          /\ Opened(connfd, pipe0, pipe1)
          /\ users' = [users EXCEPT ![user_count].pipefd = pipe0]
          /\ fdtab' = [fdtab EXCEPT ![pipe0] = Leaked, ![pipe1] = Leaked]
    BY <1>1 DEF ForkFails
  <2>2. fdtab[pipe0] = NoPid /\ fdtab[pipe1] = NoPid
    BY <2>1 DEF Opened, Least, FreeFds
  <2>3. UNCHANGED <<user_count, sub_process, proc>>
    BY <1>1 DEF ForkFails, childVars
  <2>4. Registered' = Registered /\ Unreaped' = Unreaped /\ user_count \notin Registered
    BY <2>3 DEF Registered, Unreaped, TypeOK
  <2>5. \A i \in Registered : users'[i] = users[i]
    BY <2>1, <2>4 DEF TypeOK, Registered
  <2>6. TableConsistent'
    BY <2>3, <2>4, <2>5 DEF TableConsistent, NamedByBoth
  <2>7. ASSUME NEW fd \in Fds
        PROVE  fdtab'[fd] = (IF fd \in {pipe0, pipe1} THEN Leaked ELSE fdtab[fd])
    BY <2>1 DEF TypeOK
  <2>8. \A i \in Registered : users[i].pid \in Pids
    BY DEF TableConsistent, NamedByBoth, Unreaped
  <2>9. ChannelsMatch'
    BY <2>2, <2>4, <2>5, <2>7, <2>8 DEF ChannelsMatch
  <2> QED
    BY <2>6, <2>9
<1>2. ASSUME NEW p \in Pids, Admit(p) PROVE TableConsistent' /\ ChannelsMatch'
  <2>1. PICK connfd, pipe0, pipe1 \in Fds :
          /\ Opened(connfd, pipe0, pipe1)
          /\ users' = [users EXCEPT ![user_count] = [pid |-> p, pipefd |-> pipe0]]
          /\ fdtab' = [fdtab EXCEPT ![pipe0] = p]
    BY <1>2 DEF Admit
  <2>2. fdtab[pipe0] = NoPid
    BY <2>1 DEF Opened, Least, FreeFds
  <2>3. /\ sub_process' = [sub_process EXCEPT ![p] = user_count]
        /\ user_count' = user_count + 1
        /\ proc' = [proc EXCEPT ![p] = "run"]
        /\ proc[p] = "free"
    BY <1>2 DEF Admit
  <2>4. user_count \in 0 .. USER_LIMIT
    BY DEF TypeOK
  <2>5. /\ Registered' = Registered \cup {user_count} /\ user_count \notin Registered
        /\ Registered \subseteq 0 .. USER_LIMIT
    BY <2>3, <2>4 DEF Registered
  <2>6. Unreaped' = Unreaped \cup {p} /\ p \notin Unreaped
    BY <2>3 DEF Unreaped, TypeOK
  <2>7. /\ users'[user_count].pid = p /\ users'[user_count].pipefd = pipe0
        /\ \A i \in Registered : users'[i] = users[i]
    BY <2>1, <2>4, <2>5 DEF TypeOK
  <2>8. /\ sub_process'[p] = user_count
        /\ \A q \in Unreaped : sub_process'[q] = sub_process[q]
    BY <2>3, <2>6 DEF TypeOK, Unreaped
  <2>t. /\ \A q \in Unreaped : sub_process[q] \in Registered /\ users[sub_process[q]].pid = q
        /\ \A i \in Registered : users[i].pid \in Unreaped /\ sub_process[users[i].pid] = i
    BY DEF TableConsistent, NamedByBoth
  <2>9. TableConsistent'
    <3> HIDE ChatAssumption DEF Tables
    <3>1. ASSUME NEW q \in Unreaped'
          PROVE  sub_process'[q] \in Registered' /\ users'[sub_process'[q]].pid = q
      <4>1. CASE q = p
        BY <4>1, <2>5, <2>7, <2>8
      <4>2. CASE q # p
        <5>1. q \in Unreaped /\ sub_process'[q] = sub_process[q]
          BY <4>2, <2>6, <2>8
        <5>2. users'[sub_process[q]] = users[sub_process[q]]
          BY <5>1, <2>7, <2>t
        <5> QED
          BY <5>1, <5>2, <2>5, <2>t
      <4> QED
        BY <4>1, <4>2
    <3>2. \A i \in Registered' : users'[i].pid \in Unreaped' /\ sub_process'[users'[i].pid] = i
      BY <2>5, <2>6, <2>7, <2>8, <2>t
    <3>3. NamedByBoth' = Unreaped'
      <4>1. Unreaped' \subseteq NamedByBoth'
        BY <3>1 DEF NamedByBoth, Unreaped
      <4>2. NamedByBoth' \subseteq Unreaped'
        BY <3>2 DEF NamedByBoth
      <4> QED
        BY <4>1, <4>2
    <3> QED
      BY <3>2, <3>3 DEF TableConsistent
  <2>10. ASSUME NEW fd \in Fds PROVE fdtab'[fd] = IF fd = pipe0 THEN p ELSE fdtab[fd]
    BY <2>1 DEF TypeOK
  <2>11. \A i \in Registered : users[i].pid \in Pids
    BY DEF TableConsistent, NamedByBoth, Unreaped
  <2>12. ChannelsMatch'
    <3> HIDE DEF Tables
    <3>1. ASSUME NEW i \in Registered'
          PROVE  users'[i].pipefd \in Fds /\ fdtab'[users'[i].pipefd] = users'[i].pid
      <4>1. CASE i = user_count
        BY <4>1, <2>7, <2>10
      <4>2. CASE i # user_count
        <5>1. i \in Registered /\ users'[i] = users[i]
          BY <4>2, <2>5, <2>7
        <5>2. users[i].pipefd \in Fds /\ fdtab[users[i].pipefd] = users[i].pid
          BY <5>1 DEF ChannelsMatch, Tables
        <5>3. users[i].pipefd # pipe0
          BY <5>1, <5>2, <2>2, <2>11
        <5> QED
          BY <5>1, <5>2, <5>3, <2>10
      <4> QED
        BY <4>1, <4>2
    <3>2. \A fd \in Fds : fdtab'[fd] \in Pids => \E i \in Registered' : users'[i].pipefd = fd
      BY <2>2, <2>5, <2>7, <2>10 DEF ChannelsMatch, Tables
    <3> QED
      BY <3>1, <3>2 DEF ChannelsMatch
  <2> QED
    BY <2>9, <2>12
<1>3. ASSUME NEW p \in Pids, Reap(p) PROVE TableConsistent' /\ ChannelsMatch'
  <2> DEFINE del == sub_process[p]
             last == user_count - 1
  <2>1. /\ p \in Unreaped
        /\ del \in Registered /\ last \in Registered /\ users[del].pid = p
        /\ users[last].pid \in Pids
        /\ fdtab' = [fdtab EXCEPT ![users[del].pipefd] = NoPid]
        /\ users' = [users EXCEPT ![del] = users[last]]
        /\ user_count' = last
        /\ sub_process' = [sub_process EXCEPT ![p] = -1, ![users[last].pid] = del]
        /\ proc' = [proc EXCEPT ![p] = "free"]
    BY <1>3, ReapEffect
  <2>2. /\ Registered' = Registered \ {last} /\ Registered \subseteq 0 .. USER_LIMIT
    <3>1. user_count \in 0 .. USER_LIMIT
      BY DEF TypeOK
    <3> HIDE DEF Tables
    <3> QED
      BY <2>1, <3>1 DEF Registered
  <2>3. Unreaped' = Unreaped \ {p}
    BY <2>1 DEF Unreaped, TypeOK
  <2>4. \A i \in Registered' : users'[i] = IF i = del THEN users[last] ELSE users[i]
    BY <2>1, <2>2 DEF TypeOK
  <2>5. \A q \in Unreaped' : sub_process'[q] = IF q = users[last].pid THEN del ELSE sub_process[q]
    BY <2>1, <2>3 DEF TypeOK, Unreaped
  <2>6. /\ \A q \in Unreaped : sub_process[q] \in Registered /\ users[sub_process[q]].pid = q
        /\ \A i \in Registered : users[i].pid \in Unreaped /\ sub_process[users[i].pid] = i
    BY DEF TableConsistent, NamedByBoth
  <2>7. \A fd \in Fds : fdtab'[fd] = IF fd = users[del].pipefd THEN NoPid ELSE fdtab[fd]
    BY <2>1 DEF TypeOK
  <2>8. /\ \A i \in Registered : users[i].pipefd \in Fds /\ fdtab[users[i].pipefd] = users[i].pid
        /\ \A fd \in Fds : fdtab[fd] \in Pids => \E i \in Registered : users[i].pipefd = fd
    BY DEF ChannelsMatch
  <2>9. \A i \in Registered : i # del => users[i].pipefd # users[del].pipefd
    BY <2>1, <2>6, <2>8
  <2> HIDE DEF del, last, Tables
  <2>10. TableConsistent'
    <3>1. ASSUME NEW q \in Unreaped'
          PROVE  sub_process'[q] \in Registered' /\ users'[sub_process'[q]].pid = q
      <4>1. CASE q = users[last].pid
        <5>1. q \in Unreaped /\ q # p /\ sub_process[q] = last /\ del # last
          BY <4>1, <2>1, <2>3, <2>6 DEF del
        <5>2. sub_process'[q] = del
          BY <4>1, <2>5
        <5>3. del \in Registered' /\ users'[del] = users[last]
          BY <5>1, <2>1, <2>2, <2>4
        <5> QED
          BY <4>1, <5>2, <5>3
      <4>2. CASE q # users[last].pid
        <5>1. /\ q \in Unreaped /\ q # p /\ sub_process'[q] = sub_process[q]
              /\ sub_process[q] # last /\ sub_process[q] # del
          BY <4>2, <2>1, <2>3, <2>5, <2>6
        <5> QED
          BY <5>1, <2>2, <2>4, <2>6
      <4> QED
        BY <4>1, <4>2
    <3>2. ASSUME NEW i \in Registered'
          PROVE  users'[i].pid \in Unreaped' /\ sub_process'[users'[i].pid] = i
      <4>1. CASE i = del
        <5>1. users'[i].pid = users[last].pid /\ users[last].pid \in Unreaped
          BY <4>1, <2>1, <2>4, <2>6
        <5>2. users[last].pid # p
          BY <4>1, <2>1, <2>2, <2>6 DEF del
        <5> QED
          BY <4>1, <5>1, <5>2, <2>3, <2>5
      <4>2. CASE i # del
        <5>1. users'[i] = users[i] /\ i \in Registered /\ i # last
          BY <4>2, <2>2, <2>4
        <5>2. users[i].pid # p /\ users[i].pid # users[last].pid
          BY <4>2, <5>1, <2>1, <2>6 DEF del
        <5> QED
          BY <5>1, <5>2, <2>3, <2>5, <2>6
      <4> QED
        BY <4>1, <4>2
    <3>3. NamedByBoth' = Unreaped'
      <4>1. Unreaped' \subseteq NamedByBoth'
        BY <3>1 DEF NamedByBoth, Unreaped
      <4>2. NamedByBoth' \subseteq Unreaped'
        BY <3>2 DEF NamedByBoth
      <4> QED
        BY <4>1, <4>2
    <3> QED
      BY <3>2, <3>3 DEF TableConsistent
  <2>11. ChannelsMatch'
    <3>1. \A i \in Registered' : users'[i].pipefd \in Fds /\ fdtab'[users'[i].pipefd] = users'[i].pid
      BY <2>1, <2>2, <2>4, <2>7, <2>8, <2>9
    <3>2. ASSUME NEW fd \in Fds, fdtab'[fd] \in Pids
          PROVE  \E i \in Registered' : users'[i].pipefd = fd
      <4>1. fd # users[del].pipefd /\ fdtab[fd] \in Pids
        BY <2>7, <3>2
      <4>2. PICK i \in Registered : users[i].pipefd = fd
        BY <2>8, <4>1
      <4>3. CASE i = last
        BY <4>1, <4>2, <4>3, <2>1, <2>2, <2>4
      <4>4. CASE i # last
        BY <4>1, <4>2, <4>4, <2>2, <2>4
      <4> QED
        BY <4>3, <4>4
    <3> QED
      BY <3>1, <3>2 DEF ChannelsMatch
  <2> QED
    BY <2>10, <2>11
<1>4. ASSUME NEW p \in Pids, ChildExits(p) PROVE TableConsistent' /\ ChannelsMatch'
  <2>1. Unreaped' = Unreaped
    BY <1>4 DEF ChildExits, Unreaped, TypeOK
  <2>2. UNCHANGED <<users, user_count, sub_process, fdtab>>
    BY <1>4 DEF ChildExits, mainVars, tableVars
  <2> QED
    BY <2>1, <2>2 DEF TableConsistent, NamedByBoth, ChannelsMatch, Registered
<1>5. CASE UNCHANGED tables
  BY <1>5 DEF tables, TableConsistent, NamedByBoth, ChannelsMatch, Registered, Unreaped
<1> QED
  BY <1>1, <1>2, <1>3, <1>4, <1>5, OtherSteps

\* The types, and the two tables: TypeOK and TableConsistent hold for tables
\* of any size, any number of processes and any failure of accept and fork.
THEOREM TablesCorrect == Spec => []Tables
<1>1. Tables /\ [Next]_vars => Tables'
  BY TypeStep, TablesStep DEF Tables
<1> QED
  BY InitTables, <1>1, PTL DEF Spec

\* All variables keep their types.
THEOREM TypeCorrect == Spec => []TypeOK
<1>1. Tables => TypeOK
  BY DEF Tables
<1> QED
  BY <1>1, TablesCorrect, PTL

\* users[] and sub_process[] agree, and name the unreaped children.
THEOREM TableConsistentCorrect == Spec => []TableConsistent
<1>1. Tables => TableConsistent
  BY DEF Tables
<1> QED
  BY <1>1, TablesCorrect, PTL

\* No descriptor of a child is lost, shared or kept.
THEOREM ChannelsMatchCorrect == Spec => []ChannelsMatch
<1>1. Tables => ChannelsMatch
  BY DEF Tables
<1> QED
  BY <1>1, TablesCorrect, PTL

-----------------------------------------------------------------------------
(* Slots, signals and notifications: each is inductive relative to Tables.  *)

\* A child's slot never lies below its entry: a swap only lowers an entry.
THEOREM SlotCorrect == Spec => []SlotAtOrAboveIndex
<1>1. Init => SlotAtOrAboveIndex
  BY DEF Init, SlotAtOrAboveIndex, Unreaped
<1>2. Tables /\ SlotAtOrAboveIndex /\ [Next]_vars => SlotAtOrAboveIndex'
  <2> SUFFICES ASSUME Tables, SlotAtOrAboveIndex, [Next]_vars PROVE SlotAtOrAboveIndex'
    OBVIOUS
  <2>1. CASE UNCHANGED <<tables, slot>>
    BY <2>1 DEF tables, SlotAtOrAboveIndex, Unreaped
  <2>2. CASE ForkFails
    BY <2>2 DEF ForkFails, childVars, SlotAtOrAboveIndex, Unreaped
  <2>3. ASSUME NEW p \in Pids, Admit(p) PROVE SlotAtOrAboveIndex'
    <3>1. ASSUME NEW q \in Unreaped'
          PROVE  sub_process'[q] <= slot'[q] /\ slot'[q] < USER_LIMIT
      <4>1. CASE q = p
        BY <4>1, <2>3, ChatAssumption DEF Admit, ChildIdx, TableFull, Tables, TypeOK
      <4>2. CASE q # p
        BY <4>2, <2>3 DEF Admit, SlotAtOrAboveIndex, Unreaped, Tables, TypeOK
      <4> QED
        BY <4>1, <4>2
    <3> QED
      BY <3>1 DEF SlotAtOrAboveIndex
  <2>4. ASSUME NEW p \in Pids, Reap(p) PROVE SlotAtOrAboveIndex'
    <3> DEFINE del == sub_process[p]
               last == user_count - 1
    <3>1. /\ p \in Unreaped
          /\ del \in Registered /\ users[last].pid \in Pids
          /\ sub_process' = [sub_process EXCEPT ![p] = -1, ![users[last].pid] = del]
          /\ proc' = [proc EXCEPT ![p] = "free"]
          /\ slot' = [slot EXCEPT ![p] = 0]
          /\ last \in Registered
      BY <2>4, ReapEffect
    <3>2. ASSUME NEW q \in Unreaped'
          PROVE  sub_process'[q] <= slot'[q] /\ slot'[q] < USER_LIMIT
      <4>1. q \in Unreaped /\ q # p /\ slot'[q] = slot[q] /\ slot[q] \in 0 .. USER_LIMIT - 1
        BY <3>1 DEF Unreaped, Tables, TypeOK
      <4>2. sub_process[q] <= slot[q] /\ slot[q] < USER_LIMIT
        BY <4>1 DEF SlotAtOrAboveIndex
      <4>3. CASE q = users[last].pid
        <5>1. sub_process'[q] = del /\ sub_process[q] = last
          BY <4>3, <3>1 DEF Tables, TypeOK, TableConsistent, NamedByBoth
        <5>2. del <= last /\ del \in Int /\ last \in Int
          BY <3>1 DEF Registered, Tables, TypeOK
        <5> QED
          BY <4>1, <4>2, <5>1, <5>2
      <4>4. CASE q # users[last].pid
        <5>1. sub_process'[q] = sub_process[q]
          BY <4>4, <4>1, <3>1 DEF Tables, TypeOK, Unreaped
        <5> QED
          BY <4>1, <4>2, <5>1
      <4> QED
        BY <4>3, <4>4
    <3> QED
      BY <3>2 DEF SlotAtOrAboveIndex
  <2>5. ASSUME NEW p \in Pids, ChildExits(p) PROVE SlotAtOrAboveIndex'
    BY <2>5 DEF ChildExits, mainVars, tableVars, SlotAtOrAboveIndex, Unreaped, Tables, TypeOK
  <2> QED
    BY <2>1, <2>2, <2>3, <2>4, <2>5, OtherSteps
<1> QED
  BY <1>1, <1>2, TablesCorrect, PTL DEF Spec

\* kill() only ever goes to children that were not yet waited for.
THEOREM KillOnlyOwnCorrect == Spec => []KillOnlyOwn
<1>1. Init => KillOnlyOwn
  BY DEF Init, KillOnlyOwn
<1>2. Tables /\ KillOnlyOwn /\ [Next]_vars => KillOnlyOwn'
  <2> SUFFICES ASSUME Tables, KillOnlyOwn, [Next]_vars PROVE KillOnlyOwn'
    OBVIOUS
  <2> USE DEF KillOnlyOwn, Unreaped
  <2>1. CASE UNCHANGED <<proc, termed>>
    BY <2>1
  <2>2. CASE Terminate
    <3>1. KillTargets \subseteq Unreaped
      BY DEF KillTargets, Tables, TableConsistent, NamedByBoth
    <3> QED
      BY <2>2, <3>1 DEF Terminate
  <2>3. ASSUME NEW p \in Pids, Admit(p) PROVE KillOnlyOwn'
    BY <2>3 DEF Admit, Tables, TypeOK
  <2>4. ASSUME NEW p \in Pids, Reap(p) PROVE KillOnlyOwn'
    BY <2>4 DEF Reap, Tables, TypeOK
  <2>5. ASSUME NEW p \in Pids, ChildSignalled(p) PROVE KillOnlyOwn'
    BY <2>5 DEF ChildSignalled
  <2>6. ASSUME NEW p \in Pids, ChildExits(p) PROVE KillOnlyOwn'
    BY <2>6 DEF ChildExits, Tables, TypeOK
  <2> QED
    BY <2>1, <2>2, <2>3, <2>4, <2>5, <2>6, RestKeepsChildren DEF childVars
<1> QED
  BY <1>1, <1>2, TablesCorrect, PTL DEF Spec

\* A slot number never goes back to the child that sent it.
THEOREM NoSelfNotifyCorrect == Spec => []NoSelfNotify
<1>1. Init => NoSelfNotify
  BY DEF Init, NoSelfNotify
<1>2. Tables /\ NoSelfNotify /\ [Next]_vars => NoSelfNotify'
  <2> SUFFICES ASSUME Tables, NoSelfNotify, [Next]_vars PROVE NoSelfNotify'
    OBVIOUS
  <2>t. down \in [Pids -> Seq(Notification)]
    BY DEF Tables, TypeOK
  <2> USE DEF NoSelfNotify
  <2>1. CASE UNCHANGED down
    BY <2>1
  <2>2. ASSUME NEW p \in Pids, ChildReads(p) PROVE NoSelfNotify'
    <3>1. down' = [down EXCEPT ![p] = Tail(down[p])] /\ down[p] # << >>
      BY <2>2 DEF ChildReads
    <3>2. ASSUME NEW k \in DOMAIN down'[p] PROVE down'[p][k].from # p
      <4>1. down'[p] = Tail(down[p]) /\ down[p] \in Seq(Notification)
        BY <2>t, <3>1
      <4>2. /\ DOMAIN down[p] = 1 .. Len(down[p]) /\ Len(down[p]) \in Nat
            /\ DOMAIN Tail(down[p]) = 1 .. Len(down[p]) - 1
            /\ \A j \in 1 .. Len(down[p]) - 1 : Tail(down[p])[j] = down[p][j + 1]
        BY <3>1, <4>1
      <4>3. k + 1 \in DOMAIN down[p] /\ down'[p][k] = down[p][k + 1]
        BY <4>1, <4>2
      <4> QED
        BY <4>3
    <3>3. \A q \in Pids : q # p => down'[q] = down[q]
      BY <2>t, <3>1
    <3> QED
      BY <3>2, <3>3
  <2>3. ASSUME NEW p \in Pids, ChildExits(p) PROVE NoSelfNotify'
    BY <2>3, <2>t DEF ChildExits
  <2>4. ASSUME NEW fd \in Fds, Relay(fd) PROVE NoSelfNotify'
    <3> DEFINE from == fdtab[fd]
               note == [from |-> from, idx |-> slot[from]]
    <3>1. /\ from \in Pids
          /\ down' = [q \in Pids |->
                IF q \in Receivers(fd) /\ proc[q] = "run" /\ Len(down[q]) < PIPE_CAP
                THEN Append(down[q], note) ELSE down[q]]
      BY <2>4 DEF Relay
    <3>2. from \notin Receivers(fd)
      <4>1. PICK i \in Registered : users[i].pipefd = fd /\ users[i].pid = from
        BY <3>1 DEF Tables, ChannelsMatch
      <4>2. \A j \in Registered : users[j].pid = from => j = i
        BY <4>1 DEF Tables, TableConsistent, NamedByBoth
      <4> QED
        BY <4>1, <4>2 DEF Receivers, Tables, ChannelsMatch
    <3>3. ASSUME NEW q \in Pids, NEW k \in DOMAIN down'[q] PROVE down'[q][k].from # q
      <4>1. CASE down'[q] = down[q]
        BY <4>1
      <4>2. CASE down'[q] = Append(down[q], note) /\ q \in Receivers(fd)
        <5>1. down[q] \in Seq(Notification)
          BY <2>t
        <5>2. CASE k = Len(down[q]) + 1
          <6>1. down'[q][k] = note /\ note.from = from
            BY <4>2, <5>1, <5>2
          <6> QED
            BY <4>2, <6>1, <3>2
        <5>3. CASE k # Len(down[q]) + 1
          <6>1. k \in DOMAIN down[q] /\ down'[q][k] = down[q][k]
            BY <4>2, <5>1, <5>3
          <6> QED
            BY <6>1
        <5> QED
          BY <5>2, <5>3
      <4> QED
        BY <4>1, <4>2, <3>1
    <3> QED
      BY <3>3
  <2> QED
    BY <2>1, <2>2, <2>3, <2>4, RestKeepsDown
<1> QED
  BY <1>1, <1>2, TablesCorrect, PTL DEF Spec

-----------------------------------------------------------------------------
(* Leaving the loop.                                                        *)

\* stop_server is set on an empty table; what is left of that batch can add
\* one entry, for its one listen event.
Stopping ==
  /\ mpc = "exit" => stop_server
  /\ stop_server => user_count = 0 \/ (user_count = 1 /\ listenfd \notin events)

\* When the loop is told to stop, at most one child can still be registered.
LEMMA StoppingInvariant == Spec => []Stopping
<1>1. Init => Stopping
  BY DEF Init, Stopping
<1>2. Tables /\ Stopping /\ [Next]_vars => Stopping'
  <2> SUFFICES ASSUME Tables, Stopping, [Next]_vars PROVE Stopping'
    OBVIOUS
  <2>t. user_count \in Nat /\ listenfd \notin Fds /\ listenfd # sig_pipefd0
    BY FdsAreOthers DEF Tables, TypeOK, listenfd, sig_pipefd0
  <2> USE DEF Stopping, loopVars, flagVars, tableVars, mainVars
  <2>1. CASE EpollWait
    BY <2>1 DEF EpollWait
  <2>2. CASE Exit
    BY <2>2 DEF Exit
  <2>3. CASE AcceptFails \/ Reject \/ SocketpairAborts \/ ForkFails
    BY <2>3 DEF AcceptFails, Reject, SocketpairAborts, ForkFails, Accepts, Handling
  <2>4. ASSUME NEW p \in Pids, Admit(p) PROVE Stopping'
    BY <2>4, <2>t DEF Admit, Accepts, Handling
  <2>5. CASE ReadSignals
    BY <2>5 DEF ReadSignals, Handling
  <2>5a. ASSUME NEW fd \in Fds, Relay(fd) PROVE Stopping'
    BY <2>5a DEF Relay, Handling
  <2>5b. ASSUME NEW fd \in Fds, RelayNothing(fd) PROVE Stopping'
    BY <2>5b DEF RelayNothing, Handling
  <2>6. ASSUME NEW p \in Pids, Reap(p) PROVE Stopping'
    <3>1. /\ user_count - 1 \in Registered /\ user_count' = user_count - 1
          /\ UNCHANGED <<loopVars, flagVars>>
      BY <2>6, ReapEffect
    <3> QED
      BY <3>1, <2>t DEF Registered
  <2>7. CASE ReapEnd
    BY <2>7 DEF ReapEnd, LastUserGone
  <2>8. CASE Terminate
    BY <2>8 DEF Terminate
  <2>9. CASE UNCHANGED mainVars
    BY <2>9
  <2> QED
    BY <2>1, <2>2, <2>3, <2>4, <2>5, <2>5a, <2>5b, <2>6, <2>7, <2>8, <2>9
       DEF Next, Server, Child, ChildNotifies, ChildReads, ChildSignalled, ChildExits,
           ClientConnects, Interrupt, sig_handler, vars
<1> QED
  BY <1>1, <1>2, TablesCorrect, PTL DEF Spec

\* At most one child outlives the loop.
THEOREM ExitLeavesAtMostOneCorrect == Spec => []ExitLeavesAtMostOne
<1>1. Tables /\ Stopping => ExitLeavesAtMostOne
  BY DEF Stopping, ExitLeavesAtMostOne, Tables, TypeOK
<1> QED
  BY <1>1, StoppingInvariant, TablesCorrect, PTL

-----------------------------------------------------------------------------
(* Descriptors.  As long as fork() never fails none is leaked, so the table *)
(* accounts for all that are open and two more are enough for a new client. *)

NoLeak == \A fd \in Fds : fdtab[fd] # Leaked

\* The values of a function on 0 .. n-1 are at most n.
LEMMA ImageBound ==
  ASSUME NEW n \in Nat, NEW S, NEW f \in [0 .. n - 1 -> S],
         \A x \in S : \E i \in 0 .. n - 1 : f[i] = x
  PROVE  IsFiniteSet(S) /\ Cardinality(S) <= n
<1>1. IsFiniteSet(0 .. n - 1) /\ Cardinality(0 .. n - 1) = n
  BY FS_Interval
<1>2. f \in Surjection(0 .. n - 1, S)
  BY DEF Surjection
<1> QED
  BY <1>1, <1>2, FS_Surjection

\* With no descriptor leaked, the users' descriptors are the only ones taken.
LEMMA FreeFdsBound ==
  ASSUME Tables, NoLeak
  PROVE  IsFiniteSet(FreeFds) /\ Cardinality(FreeFds) >= FD_LIMIT - user_count
<1> DEFINE Used == {fd \in Fds : fdtab[fd] \in Pids}
           f == [i \in 0 .. user_count - 1 |-> users[i].pipefd]
<1>1. user_count \in Nat /\ FD_LIMIT \in Nat
  BY ChatAssumption DEF Tables, TypeOK
<1>2. f \in [0 .. user_count - 1 -> Used]
  BY DEF Tables, ChannelsMatch, TableConsistent, NamedByBoth, Registered, Unreaped
<1>3. \A x \in Used : \E i \in 0 .. user_count - 1 : f[i] = x
  BY DEF Tables, ChannelsMatch, Registered
<1>4. IsFiniteSet(Used) /\ Cardinality(Used) <= user_count /\ Cardinality(Used) \in Nat
  <2> HIDE DEF f, Used
  <2>1. IsFiniteSet(Used) /\ Cardinality(Used) <= user_count
    BY <1>1, <1>2, <1>3, ImageBound
  <2> QED
    BY <2>1, FS_CardinalityType
<1>5. IsFiniteSet(Fds) /\ Cardinality(Fds) = FD_LIMIT
  <2>1. IsFiniteSet(7 .. 6 + FD_LIMIT)
        /\ Cardinality(7 .. 6 + FD_LIMIT) =
             IF 7 > 6 + FD_LIMIT THEN 0 ELSE (6 + FD_LIMIT) - 7 + 1
    BY <1>1, FS_Interval
  <2> QED
    BY <1>1, <2>1 DEF Fds
<1>6. FreeFds = Fds \ Used
  BY ChatAssumption DEF FreeFds, NoLeak, Tables, TypeOK
<1>7. /\ IsFiniteSet(Fds \ Used)
      /\ Cardinality(Fds \ Used) = Cardinality(Fds) - Cardinality(Fds \cap Used)
  <2> HIDE DEF Used
  <2> QED
    BY <1>5, FS_Difference
<1>8. Fds \cap Used = Used
  OBVIOUS
<1> QED
  <2> HIDE DEF Used
  <2>1. IsFiniteSet(FreeFds) /\ Cardinality(FreeFds) = FD_LIMIT - Cardinality(Used)
    BY <1>5, <1>6, <1>7, <1>8
  <2> QED
    BY <1>1, <1>4, <2>1

\* If fork() does not fail, no step leaks a descriptor.
LEMMA NoLeakStep ==
  ASSUME "fork" \notin Faults, Tables, NoLeak, [Next]_vars
  PROVE  NoLeak'
<1> USE ChatAssumption DEF NoLeak, Tables, TypeOK
<1>1. ~ForkFails
  BY DEF ForkFails
<1>2. ASSUME NEW p \in Pids, Admit(p) PROVE NoLeak'
  BY <1>2 DEF Admit
<1>3. ASSUME NEW p \in Pids, Reap(p) PROVE NoLeak'
  <2>1. fdtab' = [fdtab EXCEPT ![users[sub_process[p]].pipefd] = NoPid]
    BY <1>3, ReapEffect
  <2> QED
    BY <2>1
<1>4. ASSUME NEW p \in Pids, ChildExits(p) PROVE NoLeak'
  BY <1>4 DEF ChildExits
<1>5. CASE UNCHANGED tables
  BY <1>5 DEF tables
<1> QED
  BY <1>1, <1>2, <1>3, <1>4, <1>5, OtherSteps

\* The assertion of line 270 never fails while fork() succeeds and the
\* process may open two descriptors more than it has users.
THEOREM NoAbortCorrect ==
  ASSUME "fork" \notin Faults, FD_LIMIT >= USER_LIMIT + 2
  PROVE  Spec => []NoAbort
<1>1. Init => NoLeak /\ NoAbort
  BY ChatAssumption DEF Init, NoLeak, NoAbort
<1>2. Tables /\ NoLeak /\ NoAbort /\ [Next]_vars => NoLeak' /\ NoAbort'
  <2> SUFFICES ASSUME Tables, NoLeak, NoAbort, [Next]_vars PROVE NoAbort'
    BY NoLeakStep
  <2> USE DEF NoAbort, loopVars, mainVars
  <2>1. ~SocketpairAborts
    <3>1. SUFFICES ASSUME user_count < USER_LIMIT PROVE ~(Cardinality(FreeFds) < 3)
      BY ChatAssumption DEF SocketpairAborts, TableFull, Tables, TypeOK
    <3>2. Cardinality(FreeFds) \in Nat /\ Cardinality(FreeFds) >= FD_LIMIT - user_count
      BY FreeFdsBound, FS_CardinalityType
    <3>3. user_count \in Nat /\ USER_LIMIT \in Nat /\ FD_LIMIT \in Nat
      BY ChatAssumption DEF Tables, TypeOK
    <3> QED
      BY <3>1, <3>2, <3>3
  <2>2. CASE UNCHANGED mpc
    BY <2>2
  <2>3. CASE Exit
    BY <2>3 DEF Exit
  <2> QED
    BY <2>1, <2>2, <2>3 DEF Next, Server, EpollWait, AcceptFails, Reject, ForkFails, Admit,
       ReadSignals, Reap, ReapEnd, Terminate, Relay, RelayNothing, Child, ChildNotifies,
       ChildReads, ChildSignalled, ChildExits, ClientConnects, Interrupt, sig_handler, vars
<1> QED
  BY <1>1, <1>2, TablesCorrect, PTL DEF Spec

\* Under the same conditions, and if accept() does not fail for other
\* reasons, a full accept queue always has its event under way.
THEOREM NeverDeafCorrect ==
  ASSUME Faults = {}, FD_LIMIT >= USER_LIMIT + 2
  PROVE  Spec => []NeverDeaf
<1>1. Init => NoLeak /\ NeverDeaf
  BY ChatAssumption DEF Init, NoLeak, NeverDeaf
<1>2. Tables /\ NoLeak /\ NeverDeaf /\ [Next]_vars => NoLeak' /\ NeverDeaf'
  <2> SUFFICES ASSUME Tables, NoLeak, NeverDeaf, [Next]_vars PROVE NeverDeaf'
    BY NoLeakStep
  <2>t. /\ backlog \in 0 .. BACKLOG /\ BACKLOG \in Nat \ {0}
        /\ listenfd \notin Fds /\ listenfd # sig_pipefd0
    BY ChatAssumption, FdsAreOthers DEF Tables, TypeOK, listenfd, sig_pipefd0
  <2> USE DEF NeverDeaf, netVars, loopVars, mainVars, kernelVars
  <2>1. CASE EpollWait
    BY <2>1 DEF EpollWait
  <2>2. CASE Exit
    BY <2>2 DEF Exit
  <2>3. CASE AcceptFails
    <3>1. FreeFds # {}
      <4>1. user_count \in 0 .. USER_LIMIT /\ USER_LIMIT \in Nat /\ FD_LIMIT \in Nat
        BY ChatAssumption DEF Tables, TypeOK
      <4> QED
        BY <4>1, FreeFdsBound, FS_EmptySet
    <3> QED
      BY <2>3, <2>t, <3>1 DEF AcceptFails
  <2>4. CASE Reject \/ SocketpairAborts \/ ForkFails \/ \E p \in Pids : Admit(p)
    <3>1. Accepts
      BY <2>4 DEF Reject, SocketpairAborts, ForkFails, Admit
    <3> QED
      BY <3>1, <2>t DEF Accepts
  <2>5. CASE ReadSignals
    BY <2>5, <2>t DEF ReadSignals, Handling
  <2>6. ASSUME NEW p \in Pids, Reap(p) PROVE NeverDeaf'
    <3>1. /\ users[sub_process[p]].pipefd \in Fds
          /\ ready' = ready \ {users[sub_process[p]].pipefd}
          /\ UNCHANGED <<mpc, events, backlog>>
      BY <2>6, ReapEffect DEF Tables, ChannelsMatch
    <3> QED
      BY <3>1, <2>t
  <2>7. CASE ReapEnd \/ Terminate
    BY <2>7 DEF ReapEnd, Terminate
  <2>8. ASSUME NEW fd \in Fds, Relay(fd) \/ RelayNothing(fd) PROVE NeverDeaf'
    BY <2>8, <2>t DEF Relay, RelayNothing, Handling
  <2>9. ASSUME NEW p \in Pids, Child(p) PROVE NeverDeaf'
    BY <2>9 DEF Child, ChildNotifies, ChildReads, ChildSignalled, ChildExits, PutSignal
  <2>10. CASE ClientConnects
    BY <2>10 DEF ClientConnects
  <2>11. CASE Interrupt \/ \E s \in Signal : sig_handler(s)
    BY <2>11 DEF Interrupt, sig_handler, PutSignal
  <2>12. CASE UNCHANGED vars
    BY <2>12 DEF vars
  <2> QED
    BY <2>1, <2>2, <2>3, <2>4, <2>5, <2>6, <2>7, <2>8, <2>9, <2>10, <2>11, <2>12 DEF Next, Server
<1> QED
  BY <1>1, <1>2, TablesCorrect, PTL DEF Spec

-----------------------------------------------------------------------------
(* News of dead children and of the last one.                               *)

\* What a queue carries is still there after a further byte, which is there too.
LEMMA CarriesAppend ==
  ASSUME NEW queue \in Seq(Signal), NEW s \in Signal
  PROVE  /\ Append(queue, s) # << >>
         /\ Carries(Append(queue, s), s)
         /\ \A c \in Signal : Carries(queue, c) => Carries(Append(queue, s), c)
<1>1. /\ Len(Append(queue, s)) = Len(queue) + 1 /\ Len(queue) \in Nat
      /\ Append(queue, s)[Len(queue) + 1] = s
      /\ DOMAIN queue = 1 .. Len(queue)
      /\ DOMAIN Append(queue, s) = 1 .. Len(queue) + 1
      /\ \A k \in 1 .. Len(queue) : Append(queue, s)[k] = queue[k]
  OBVIOUS
<1> QED
  BY <1>1 DEF Carries

\* Looking at the first byte of a queue loses only that one.
LEMMA CarriesTail ==
  ASSUME NEW queue \in Seq(Signal), queue # << >>, NEW c, Head(queue) # c, Carries(queue, c)
  PROVE  Carries(Tail(queue), c)
<1>1. PICK k \in DOMAIN queue : queue[k] = c
  BY DEF Carries
<1>2. k \in 2 .. Len(queue) /\ Len(queue) \in Nat
  BY <1>1
<1>3. k - 1 \in DOMAIN Tail(queue) /\ Tail(queue)[k - 1] = queue[k]
  BY <1>2
<1> QED
  BY <1>1, <1>3 DEF Carries

\* The signal pipe's event stays on the ready list or in the batch until it is
\* spent on a recv().
LEMMA SignalEventKept ==
  ASSUME Tables, [Next]_vars, ~ReadSignals, sig_pipefd0 \in ready \cup events
  PROVE  sig_pipefd0 \in ready' \cup events'
<1> USE DEF loopVars, netVars, mainVars, kernelVars
<1>1. sig_pipefd0 \notin Fds /\ sig_pipefd0 # listenfd
  BY FdsAreOthers DEF sig_pipefd0, listenfd
<1>2. CASE EpollWait
  BY <1>2 DEF EpollWait
<1>3. CASE AcceptFails \/ Reject \/ SocketpairAborts \/ ForkFails
  BY <1>1, <1>3 DEF AcceptFails, Reject, SocketpairAborts, ForkFails, Accepts, Handling
<1>4. ASSUME NEW p \in Pids, Admit(p) PROVE sig_pipefd0 \in ready' \cup events'
  BY <1>1, <1>4 DEF Admit, Accepts, Handling
<1>5. ASSUME NEW p \in Pids, Reap(p) PROVE sig_pipefd0 \in ready' \cup events'
  <2>1. /\ ready' = ready \ {users[sub_process[p]].pipefd} /\ UNCHANGED events
        /\ users[sub_process[p]].pipefd \in Fds
    BY <1>5, ReapEffect DEF Tables, ChannelsMatch
  <2> QED
    BY <1>1, <2>1
<1>6. ASSUME NEW fd \in Fds, Relay(fd) \/ RelayNothing(fd)
      PROVE  sig_pipefd0 \in ready' \cup events'
  BY <1>1, <1>6 DEF Relay, RelayNothing, Handling
<1>7. CASE Exit \/ ReapEnd \/ Terminate \/ UNCHANGED vars
  BY <1>7 DEF Exit, ReapEnd, Terminate, vars
<1>8. ASSUME NEW p \in Pids, Child(p) PROVE sig_pipefd0 \in ready' \cup events'
  BY <1>8 DEF Child, ChildNotifies, ChildReads, ChildSignalled, ChildExits, PutSignal
<1>9. CASE ClientConnects \/ Interrupt \/ \E s \in Signal : sig_handler(s)
  BY <1>9 DEF ClientConnects, Interrupt, sig_handler, PutSignal
<1> QED
  BY <1>2, <1>3, <1>4, <1>5, <1>6, <1>7, <1>8, <1>9 DEF Next, Server

\* Only a handler and the server's recv() touch the signal pipe.
LEMMA RestKeepsSignals ==
  ASSUME [Next]_vars, ~ReadSignals,
         \A s \in Signal : ~sig_handler(s), \A p \in Pids : ~ChildSignalled(p)
  PROVE  UNCHANGED sigpipe
<1> USE DEF signalVars, kernelVars
<1>1. CASE EpollWait \/ Exit \/ AcceptFails \/ Reject \/ SocketpairAborts \/ ForkFails
  BY <1>1 DEF EpollWait, Exit, AcceptFails, Reject, SocketpairAborts, ForkFails
<1>2. CASE ReapEnd \/ Terminate
  BY <1>2 DEF ReapEnd, Terminate
<1>3. CASE \E p \in Pids : Admit(p) \/ Reap(p)
  BY <1>3 DEF Admit, Reap
<1>4. CASE \E fd \in Fds : Relay(fd) \/ RelayNothing(fd)
  BY <1>4 DEF Relay, RelayNothing
<1>5. CASE \E p \in Pids : ChildNotifies(p) \/ ChildReads(p) \/ ChildExits(p)
  BY <1>5 DEF ChildNotifies, ChildReads, ChildExits
<1>6. CASE ClientConnects \/ Interrupt \/ UNCHANGED vars
  BY <1>6 DEF ClientConnects, Interrupt, vars
<1> QED
  BY <1>1, <1>2, <1>3, <1>4, <1>5, <1>6 DEF Next, Server, Child

\* A signal pipe that takes no more has its event under way.
SignalsHeard == sigpipe = << >> \/ Len(sigpipe) < SIG_CAP \/ sig_pipefd0 \in ready \cup events

\* A full signal pipe never falls silent: recv() makes room before it spends
\* the event, so what the handler then drops changes nothing (lines 67 and 302).
THEOREM FullSignalPipeHasEvent == Spec => []SignalsHeard
<1>1. Init => SignalsHeard
  BY DEF Init, SignalsHeard
<1>2. Tables /\ SignalsHeard /\ [Next]_vars => SignalsHeard'
  <2> SUFFICES ASSUME Tables, SignalsHeard, [Next]_vars PROVE SignalsHeard'
    OBVIOUS
  <2>t. sigpipe \in Seq(Signal) /\ Len(sigpipe) \in Nat /\ SIG_CAP \in Nat /\ Len(sigpipe) <= SIG_CAP
    BY ChatAssumption DEF Tables, TypeOK
  <2>1. CASE ReadSignals
    <3>1. /\ sigpipe' = OtherBytes /\ Len(OtherBytes) = Len(sigpipe) - BytesRead
          /\ BytesRead \in 0 .. Len(sigpipe) /\ OtherBytes \in Seq(Signal)
      BY <2>1, BytesSplit DEF ReadSignals, Tables
    <3>2. CASE Len(sigpipe) = 0
      <4>1. Len(OtherBytes) = 0
        <5>1. BytesRead = 0
          BY <3>1, <3>2
        <5> QED
          BY <3>1, <3>2, <5>1
      <4>2. sigpipe' = << >>
        BY <3>1, <4>1
      <4> QED
        BY <4>2 DEF SignalsHeard
    <3>3. CASE Len(sigpipe) > 0
      <4>1. BytesRead > 0
        BY <3>3, <2>t, ChatAssumption DEF BytesRead
      <4>2. Len(sigpipe') < SIG_CAP
        BY <3>1, <4>1, <2>t
      <4> QED
        BY <4>2 DEF SignalsHeard
    <3> QED
      BY <3>2, <3>3, <2>t
  <2>2. ASSUME NEW s \in Signal, PutSignal(s), ~ReadSignals PROVE SignalsHeard'
    <3>1. CASE Len(sigpipe) < SIG_CAP
      BY <2>2, <3>1 DEF PutSignal, SignalsHeard
    <3>2. CASE ~(Len(sigpipe) < SIG_CAP)
      BY <2>2, <3>2, SignalEventKept DEF PutSignal, SignalsHeard
    <3> QED
      BY <3>1, <3>2
  <2>3. ASSUME ~ReadSignals, UNCHANGED sigpipe PROVE SignalsHeard'
    BY <2>3, SignalEventKept DEF SignalsHeard
  <2>4. ASSUME NEW s \in Signal, sig_handler(s), ~ReadSignals PROVE SignalsHeard'
    BY <2>2, <2>4 DEF sig_handler
  <2>5. ASSUME NEW p \in Pids, ChildSignalled(p), ~ReadSignals PROVE SignalsHeard'
    <3>1. "TERM" \in Signal
      BY DEF Signal
    <3> QED
      BY <2>2, <2>3, <2>5, <3>1 DEF ChildSignalled
  <2> QED
    BY <2>1, <2>3, <2>4, <2>5, RestKeepsSignals
<1> QED
  BY <1>1, <1>2, TablesCorrect, PTL DEF Spec

\* A handler that runs while there is room, or while a SIGCHLD is queued
\* already, leaves a queued SIGCHLD behind (lines 63 to 69).
LEMMA HandlerAnnounces ==
  ASSUME TypeOK, SignalsHeard, NEW s \in Signal, PutSignal(s), UNCHANGED events
  PROVE  /\ ChldInPipe => ChldInPipe'
         /\ s = "CHLD" /\ (Len(sigpipe) < SIG_CAP \/ Carries(sigpipe, "CHLD")) => ChldInPipe'
<1>1. "CHLD" \in Signal
  BY DEF Signal
<1>2. CASE Len(sigpipe) < SIG_CAP
  <2>1. /\ sigpipe' = Append(sigpipe, s) /\ sig_pipefd0 \in ready'
    BY <1>2 DEF PutSignal
  <2>2. /\ Carries(sigpipe, "CHLD") => Carries(sigpipe', "CHLD")
        /\ s = "CHLD" => Carries(sigpipe', "CHLD")
    BY <1>1, <2>1, CarriesAppend DEF TypeOK
  <2> QED
    BY <2>1, <2>2 DEF ChldInPipe
<1>3. CASE ~(Len(sigpipe) < SIG_CAP)
  <2>1. UNCHANGED <<sigpipe, ready>>
    BY <1>3 DEF PutSignal
  <2>2. Carries(sigpipe, "CHLD") => sigpipe # << >>
    BY DEF Carries
  <2> QED
    BY <1>3, <2>1, <2>2 DEF ChldInPipe, SignalsHeard
<1> QED
  BY <1>2, <1>3

\* Either there is room in the signal pipe, or a SIGCHLD in it.
LEMMA FullOfOthers ==
  ASSUME TypeOK, "CHLD" \in pending, ~ChldLost
  PROVE  Len(sigpipe) < SIG_CAP \/ Carries(sigpipe, "CHLD")
BY ChatAssumption DEF TypeOK, ChldLost

\* Only Admit, Reap and ChildExits change which children are dead, or how.
LEMMA ZombiesAnnouncedStep ==
  ASSUME Tables, SignalsHeard, [Next]_vars, ZombiesAnnounced, ~ChldLost
  PROVE  ZombiesAnnounced'
<1> USE DEF loopVars, netVars, signalVars, childVars, mainVars, kernelVars
<1>t. /\ proc \in [Pids -> {"free", "run", "zombie"}]
      /\ signals \in Seq(Signal) /\ sigpipe \in Seq(Signal) /\ pending \subseteq Signal
  BY DEF Tables, TypeOK
<1>c. "CHLD" # "TERM" /\ "CHLD" \in Signal /\ "TERM" \in Signal
  BY DEF Signal
<1>e. ASSUME ~ReadSignals, UNCHANGED sigpipe PROVE ChldInPipe => ChldInPipe'
  BY <1>e, SignalEventKept DEF ChldInPipe
<1>k. ASSUME ChldInPipe => ChldInPipe', "CHLD" \in pending => "CHLD" \in pending',
             UNCHANGED signals, mpc' = "run" => mpc = "run", Zombies' \subseteq Zombies
      PROVE  ZombiesAnnounced'
  BY <1>k DEF ZombiesAnnounced
<1>1. ASSUME NEW s \in Signal, sig_handler(s) PROVE ZombiesAnnounced'
  <2>1. /\ UNCHANGED <<mpc, proc, signals, events>> /\ s \in pending
        /\ pending' = pending \ {s} /\ PutSignal(s)
    BY <1>1 DEF sig_handler
  <2>2. ChldInPipe => ChldInPipe'
    BY <2>1, HandlerAnnounces DEF Tables
  <2>3. CASE s = "CHLD"
    <3>1. ChldInPipe'
      BY <2>1, <2>3, HandlerAnnounces, FullOfOthers DEF Tables
    <3> QED
      BY <3>1 DEF ZombiesAnnounced
  <2>4. CASE s # "CHLD"
    <3>1. Zombies' = Zombies
      BY <2>1 DEF Zombies
    <3> QED
      BY <1>k, <2>1, <2>2, <2>4, <3>1
  <2> QED
    BY <2>3, <2>4
<1>2. ASSUME NEW p \in Pids, ChildSignalled(p) PROVE ZombiesAnnounced'
  <2>1. UNCHANGED <<mpc, proc, signals, pending, events>> /\ Zombies' = Zombies
    BY <1>2 DEF ChildSignalled, Zombies
  <2>2. ChldInPipe => ChldInPipe'
    <3>1. CASE PutSignal("TERM")
      BY <1>c, <2>1, <3>1, HandlerAnnounces DEF Tables
    <3>2. CASE UNCHANGED <<sigpipe, ready>>
      BY <2>1, <3>2 DEF ChldInPipe
    <3> QED
      BY <1>2, <3>1, <3>2 DEF ChildSignalled
  <2> QED
    BY <1>k, <2>1, <2>2
<1>3. CASE ReadSignals
  <2>1. /\ UNCHANGED <<mpc, proc, pending>> /\ Zombies' = Zombies
        /\ signals = << >> /\ signals' = FirstBytes
    BY <1>3 DEF ReadSignals, Handling, Zombies
  <2>2. ~Carries(signals, "CHLD")
    BY <2>1 DEF Carries
  <2>3. ChldInPipe => Carries(signals', "CHLD")
    BY <2>1 DEF ChldInPipe, ChldLost
  <2> QED
    BY <2>1, <2>2, <2>3 DEF ZombiesAnnounced
<1>4. CASE ReapEnd
  <2>1. Zombies = {} /\ UNCHANGED proc
    BY <1>4 DEF ReapEnd, ReapLoopOver
  <2> QED
    BY <2>1 DEF ZombiesAnnounced, Zombies
<1>5. CASE Terminate
  <2>1. /\ UNCHANGED <<mpc, proc, pending, sigpipe, ready, events>> /\ Zombies' = Zombies
        /\ signals # << >> /\ Head(signals) = "TERM" /\ signals' = Tail(signals)
    BY <1>5 DEF Terminate, AtSignal, Zombies
  <2>2. Carries(signals, "CHLD") => Carries(signals', "CHLD")
    BY <2>1, <1>t, <1>c, CarriesTail
  <2>3. ChldInPipe => ChldInPipe'
    BY <2>1 DEF ChldInPipe
  <2> QED
    BY <2>1, <2>2, <2>3 DEF ZombiesAnnounced
<1>6. ASSUME NEW p \in Pids, Reap(p) PROVE ZombiesAnnounced'
  <2>1. /\ UNCHANGED <<mpc, pending, sigpipe, signals>>
        /\ proc' = [proc EXCEPT ![p] = "free"]
    BY <1>6, ReapEffect
  <2>2. Zombies' \subseteq Zombies
    BY <2>1, <1>t DEF Zombies
  <2>3. ~ReadSignals
    BY <1>6 DEF Reap, AtSignal, ReadSignals, Handling
  <2> QED
    BY <1>e, <1>k, <2>1, <2>2, <2>3
<1>7. ASSUME NEW p \in Pids, Admit(p) PROVE ZombiesAnnounced'
  <2>1. /\ UNCHANGED <<mpc, pending, sigpipe, signals>>
        /\ proc' = [proc EXCEPT ![p] = "run"] /\ proc[p] = "free"
    BY <1>7 DEF Admit
  <2>2. Zombies' \subseteq Zombies
    BY <2>1, <1>t DEF Zombies
  <2>3. ~ReadSignals
    BY <1>t, <2>1 DEF ReadSignals
  <2> QED
    BY <1>e, <1>k, <2>1, <2>2, <2>3
<1>8. ASSUME NEW p \in Pids, ChildExits(p) PROVE ZombiesAnnounced'
  BY <1>8 DEF ChildExits, ZombiesAnnounced
<1>9. CASE Exit \/ SocketpairAborts
  BY <1>9 DEF Exit, SocketpairAborts, ZombiesAnnounced
<1>10. ASSUME UNCHANGED <<mpc, proc, signals, pending, sigpipe>>, ~ReadSignals
       PROVE  ZombiesAnnounced'
  <2>1. Zombies' = Zombies
    BY <1>10 DEF Zombies
  <2> QED
    BY <1>e, <1>k, <1>10, <2>1
<1>11. ASSUME Interrupt, ~ReadSignals PROVE ZombiesAnnounced'
  <2>1. /\ UNCHANGED <<mpc, signals, sigpipe>> /\ Zombies' = Zombies
        /\ pending \subseteq pending'
    BY <1>11 DEF Interrupt, Zombies
  <2> QED
    BY <1>e, <1>k, <1>11, <2>1
<1> QED
  BY <1>1, <1>2, <1>3, <1>4, <1>5, <1>6, <1>7, <1>8, <1>9, <1>10, <1>11
     DEF Next, Server, Child, EpollWait, AcceptFails, Reject, ForkFails, Accepts, Handling,
         Relay, RelayNothing, ChildNotifies, ChildReads, ClientConnects, vars

\* No step forgets a zombie, unless its SIGCHLD is lost among other signals.
THEOREM StaysAnnouncedCorrect == Spec => StaysAnnounced
<1>1. Tables /\ SignalsHeard /\ [Next]_vars
      => [ZombiesAnnounced => ZombiesAnnounced' \/ ChldLost]_vars
  BY ZombiesAnnouncedStep
<1> QED
  BY <1>1, TablesCorrect, FullSignalPipeHasEvent, PTL DEF Spec, StaysAnnounced

\* The safe part of ZombieReaped: under its premise, the word of a zombie is
\* always on its way to the reap loop.
THEOREM ZombiesAnnouncedAlways == Spec /\ []~ChldLost => []ZombiesAnnounced
<1>1. Init => ZombiesAnnounced
  BY DEF Init, ZombiesAnnounced, Zombies
<1>2. Tables /\ SignalsHeard /\ ~ChldLost /\ ZombiesAnnounced /\ [Next]_vars => ZombiesAnnounced'
  BY ZombiesAnnouncedStep
<1> QED
  BY <1>1, <1>2, TablesCorrect, FullSignalPipeHasEvent, PTL DEF Spec

\* After a SIGTERM that found children, main() stops as soon as the last one
\* is waited for: it is in the reap loop then, and that loop's end looks.
StopsWithLast ==
  terminate => stop_server \/ user_count > 0 \/ (signals # << >> /\ Head(signals) = "CHLD")

\* A terminated server with no children left is stopping or about to see that
\* it must (lines 337 to 339 are reached after every child of line 314).
THEOREM LastChildNoticed == Spec => []StopsWithLast
<1>1. Init => StopsWithLast
  BY DEF Init, StopsWithLast
<1>2. Tables /\ StopsWithLast /\ [Next]_vars => StopsWithLast'
  <2> SUFFICES ASSUME Tables, StopsWithLast, [Next]_vars PROVE StopsWithLast'
    OBVIOUS
  <2>t. user_count \in Nat
    BY DEF Tables, TypeOK
  <2> USE DEF StopsWithLast, loopVars, flagVars, tableVars, mainVars
  <2>1. CASE ReadSignals
    BY <2>1 DEF ReadSignals, Handling
  <2>2. ASSUME NEW p \in Pids, Admit(p) PROVE StopsWithLast'
    BY <2>2, <2>t DEF Admit, Accepts, Handling
  <2>3. ASSUME NEW p \in Pids, Reap(p) PROVE StopsWithLast'
    BY <2>3 DEF Reap, AtSignal
  <2>4. CASE ReapEnd
    <3>1. /\ stop_server' = (stop_server \/ (terminate /\ user_count = 0))
          /\ UNCHANGED <<terminate, user_count>>
      BY <2>4 DEF ReapEnd, LastUserGone
    <3>2. CASE user_count = 0 /\ terminate
      BY <3>1, <3>2
    <3>3. CASE user_count > 0
      BY <3>1, <3>3
    <3> QED
      BY <3>1, <3>2, <3>3, <2>t
  <2>5. CASE Terminate
    <3>1. CASE user_count = 0 /\ stop_server' = TRUE
      BY <3>1
    <3>2. CASE user_count # 0
      BY <2>5, <3>2, <2>t DEF Terminate
    <3> QED
      BY <2>5, <3>1, <3>2 DEF Terminate
  <2>6. CASE UNCHANGED <<terminate, stop_server, user_count, signals>>
    BY <2>6
  <2> QED
    BY <2>1, <2>2, <2>3, <2>4, <2>5, <2>6
       DEF Next, Server, EpollWait, Exit, AcceptFails, Reject, SocketpairAborts, ForkFails,
           Accepts, Handling, Relay, RelayNothing, Child, ChildNotifies, ChildReads,
           ChildSignalled, ChildExits, ClientConnects, Interrupt, sig_handler, vars
<1> QED
  BY <1>1, <1>2, TablesCorrect, PTL DEF Spec

-----------------------------------------------------------------------------
(* Slot numbers on their way up and down.                                   *)

\* Only a child that runs has numbers waiting for it, and once the loop is
\* told to stop nobody has: one child at most is left, and it gets none of
\* its own (lines 384 to 391).
Quiet ==
  /\ \A p \in Pids : proc[p] # "run" => down[p] = << >>
  /\ stop_server => \A p \in Pids : down[p] = << >>

\* A stopping server finds nobody to relay to; hence a child that outlives it
\* reads the end of file, not a number, from its socketpair.
THEOREM StoppedIsQuiet == Spec => []Quiet
<1>1. Init => Quiet
  BY DEF Init, Quiet
<1>2. Tables /\ Stopping /\ Quiet /\ [Next]_vars => Quiet'
  <2> SUFFICES ASSUME Tables, Stopping, Quiet, [Next]_vars PROVE Quiet'
    OBVIOUS
  <2>t. /\ down \in [Pids -> Seq(Notification)] /\ user_count \in Nat
        /\ proc \in [Pids -> {"free", "run", "zombie"}]
    BY DEF Tables, TypeOK
  <2>e. user_count = 0 => \A p \in Pids : down[p] = << >>
    <3>1. user_count = 0 => Unreaped = {}
      BY DEF Tables, TableConsistent, NamedByBoth, Registered
    <3> QED
      BY <3>1 DEF Unreaped, Quiet
  <2> USE DEF Quiet, loopVars, flagVars, pipeVars, childVars, mainVars, kernelVars
  <2>1. ASSUME NEW p \in Pids, ChildReads(p) PROVE Quiet'
    <3>1. /\ down' = [down EXCEPT ![p] = Tail(down[p])] /\ down[p] # << >>
          /\ proc[p] = "run" /\ UNCHANGED <<proc, stop_server>>
      BY <2>1 DEF ChildReads
    <3> QED
      BY <3>1, <2>t
  <2>2. ASSUME NEW p \in Pids, ChildExits(p) PROVE Quiet'
    BY <2>2, <2>t DEF ChildExits
  <2>3. ASSUME NEW fd \in Fds, Relay(fd) PROVE Quiet'
    <3>1. /\ fdtab[fd] \in Pids /\ UNCHANGED <<proc, stop_server>>
          /\ \A q \in Pids : down'[q] = down[q] \/ (q \in Receivers(fd) /\ proc[q] = "run")
      BY <2>3 DEF Relay
    <3>2. stop_server => Receivers(fd) = {}
      <4>1. PICK i \in Registered : users[i].pipefd = fd
        BY <3>1 DEF Tables, ChannelsMatch
      <4>2. stop_server => \A j \in Registered : j = i
        BY <4>1, <2>t DEF Stopping, Registered
      <4> QED
        BY <4>1, <4>2 DEF Receivers
    <3> QED
      BY <3>1, <3>2
  <2>4. CASE ReapEnd
    <3>1. stop_server' => stop_server \/ user_count = 0
      BY <2>4 DEF ReapEnd, LastUserGone
    <3> QED
      BY <2>4, <2>e, <3>1 DEF ReapEnd
  <2>5. CASE Terminate
    <3>1. stop_server' => stop_server \/ user_count = 0
      BY <2>5 DEF Terminate
    <3> QED
      BY <2>5, <2>e, <3>1 DEF Terminate
  <2>6. ASSUME NEW p \in Pids, Admit(p) PROVE Quiet'
    BY <2>6, <2>t DEF Admit
  <2>7. ASSUME NEW p \in Pids, Reap(p) PROVE Quiet'
    <3>1. /\ p \in Zombies /\ proc' = [proc EXCEPT ![p] = "free"]
          /\ UNCHANGED <<stop_server, down>>
      BY <2>7, ReapEffect
    <3> QED
      BY <3>1, <2>t DEF Zombies
  <2>8. CASE UNCHANGED <<proc, stop_server, down>>
    BY <2>8
  <2> QED
    BY <2>1, <2>2, <2>3, <2>4, <2>5, <2>6, <2>7, <2>8
       DEF Next, Server, EpollWait, Exit, AcceptFails, Reject, SocketpairAborts, ForkFails,
           ReadSignals, RelayNothing, Child, ChildNotifies, ChildSignalled, ClientConnects,
           Interrupt, sig_handler, vars
<1> QED
  BY <1>1, <1>2, TablesCorrect, StoppingInvariant, PTL DEF Spec

\* Only Relay, Reap and the child itself touch the numbers it has sent.
LEMMA RestKeepsUp ==
  ASSUME [Next]_vars,
         \A p \in Pids : ~ChildNotifies(p) /\ ~Reap(p),
         \A fd \in Fds : ~Relay(fd)
  PROVE  UNCHANGED up
<1> USE DEF pipeVars, kernelVars
<1>1. CASE EpollWait \/ Exit \/ AcceptFails \/ Reject \/ SocketpairAborts \/ ForkFails
  BY <1>1 DEF EpollWait, Exit, AcceptFails, Reject, SocketpairAborts, ForkFails
<1>2. CASE ReadSignals \/ ReapEnd \/ Terminate
  BY <1>2 DEF ReadSignals, ReapEnd, Terminate
<1>3. CASE \E p \in Pids : Admit(p) \/ ChildReads(p) \/ ChildSignalled(p) \/ ChildExits(p)
  BY <1>3 DEF Admit, ChildReads, ChildSignalled, ChildExits
<1>4. CASE ClientConnects \/ Interrupt \/ \E s \in Signal : sig_handler(s)
  BY <1>4 DEF ClientConnects, Interrupt, sig_handler
<1>5. CASE (\E fd \in Fds : RelayNothing(fd)) \/ UNCHANGED vars
  BY <1>5 DEF RelayNothing, vars
<1> QED
  BY <1>1, <1>2, <1>3, <1>4, <1>5 DEF Next, Server, Child

\* A process id is taken, let go and handed out again, in this order.
LEMMA ProcessLife ==
  ASSUME Tables, [Next]_vars, NEW p \in Pids, ~Reap(p)
  PROVE  /\ proc'[p] = "free" => proc[p] = "free"
         /\ proc'[p] = "run" => proc[p] # "zombie"
         /\ proc'[p] = "run" /\ ~Admit(p) => proc[p] = "run"
<1>t. proc \in [Pids -> {"free", "run", "zombie"}]
  BY DEF Tables, TypeOK
<1>1. ASSUME NEW q \in Pids, Admit(q)
      PROVE  proc[q] = "free" /\ proc' = [proc EXCEPT ![q] = "run"]
  BY <1>1 DEF Admit
<1>2. ASSUME NEW q \in Pids, Reap(q) PROVE q # p /\ proc' = [proc EXCEPT ![q] = "free"]
  BY <1>2, ReapEffect
<1>3. ASSUME NEW q \in Pids, ChildExits(q)
      PROVE  proc[q] = "run" /\ proc' = [proc EXCEPT ![q] = "zombie"]
  BY <1>3 DEF ChildExits
<1>4. (\E q \in Pids : Admit(q) \/ Reap(q) \/ ChildExits(q)) \/ UNCHANGED proc
  BY RestKeepsChildren DEF childVars, Terminate, ChildSignalled
<1> QED
  BY <1>t, <1>1, <1>2, <1>3, <1>4

\* A child keeps its descriptor until it is reaped.
LEMMA ChannelKept ==
  ASSUME Tables, [Next]_vars, NEW p \in Pids, ~Reap(p), NEW fd \in ChannelOf(p)
  PROVE  fd \in ChannelOf(p)'
<1> USE ChatAssumption DEF ChannelOf, Tables, TypeOK
<1>1. fd \in Fds /\ fdtab[fd] = p
  OBVIOUS
<1>2. SUFFICES fdtab'[fd] = p
  BY <1>1
<1>3. CASE ForkFails
  <2>1. PICK pipe0, pipe1 \in Fds :
          /\ fdtab[pipe0] = NoPid /\ fdtab[pipe1] = NoPid
          /\ fdtab' = [fdtab EXCEPT ![pipe0] = Leaked, ![pipe1] = Leaked]
    BY <1>3 DEF ForkFails, Opened, Least, FreeFds
  <2> QED
    BY <1>1, <2>1
<1>4. ASSUME NEW q \in Pids, Admit(q) PROVE fdtab'[fd] = p
  <2>1. PICK pipe0 \in Fds : fdtab[pipe0] = NoPid /\ fdtab' = [fdtab EXCEPT ![pipe0] = q]
    BY <1>4 DEF Admit, Opened, Least, FreeFds
  <2> QED
    BY <1>1, <2>1
<1>5. ASSUME NEW q \in Pids, Reap(q) PROVE fdtab'[fd] = p
  <2>1. /\ fdtab' = [fdtab EXCEPT ![users[sub_process[q]].pipefd] = NoPid]
        /\ sub_process[q] \in Registered /\ users[sub_process[q]].pid = q
    BY <1>5, ReapEffect
  <2>2. fdtab[users[sub_process[q]].pipefd] = q
    BY <2>1 DEF ChannelsMatch
  <2> QED
    BY <1>1, <1>5, <2>1, <2>2
<1>6. ASSUME NEW q \in Pids, ChildExits(q) PROVE fdtab'[fd] = p
  BY <1>1, <1>6 DEF ChildExits
<1>7. CASE UNCHANGED fdtab
  BY <1>1, <1>7
<1> QED
  BY <1>3, <1>4, <1>5, <1>6, <1>7, OtherSteps DEF tables

\* An event of a child that has sent a number stays on the ready list or in
\* the batch until it is spent on reading one.
LEMMA EventKept ==
  ASSUME Tables, [Next]_vars, NEW p \in Pids, up[p] > 0, ~Reap(p),
         NEW fd \in ChannelOf(p), fd \in ready \cup events, ~Relay(fd)
  PROVE  fd \in ready' \cup events'
<1> USE DEF ChannelOf, loopVars, netVars, mainVars, kernelVars
<1>1. fd \in Fds /\ fdtab[fd] = p /\ fd # listenfd /\ fd # sig_pipefd0
  BY FdsAreOthers
<1>2. CASE EpollWait
  BY <1>2 DEF EpollWait
<1>3. CASE AcceptFails \/ Reject \/ SocketpairAborts \/ ForkFails \/ ReadSignals
  BY <1>1, <1>3 DEF AcceptFails, Reject, SocketpairAborts, ForkFails, ReadSignals, Accepts, Handling
<1>4. ASSUME NEW q \in Pids, Admit(q) PROVE fd \in ready' \cup events'
  BY <1>1, <1>4 DEF Admit, Accepts, Handling
<1>5. ASSUME NEW q \in Pids, Reap(q) PROVE fd \in ready' \cup events'
  <2>1. /\ ready' = ready \ {users[sub_process[q]].pipefd} /\ UNCHANGED events
        /\ sub_process[q] \in Registered /\ users[sub_process[q]].pid = q
    BY <1>5, ReapEffect
  <2>2. fdtab[users[sub_process[q]].pipefd] = q
    BY <2>1 DEF Tables, ChannelsMatch
  <2> QED
    BY <1>1, <1>5, <2>1, <2>2
<1>6. ASSUME NEW other \in Fds, Relay(other) \/ RelayNothing(other)
      PROVE  fd \in ready' \cup events'
  <2>1. /\ UNCHANGED ready /\ events' = events \ {other} /\ other # fd
    <3>1. CASE Relay(other)
      BY <3>1 DEF Relay, Handling
    <3>2. CASE RelayNothing(other)
      BY <1>1, <3>2 DEF RelayNothing, Handling
    <3> QED
      BY <1>6, <3>1, <3>2
  <2> QED
    BY <2>1
<1>7. CASE Exit \/ ReapEnd \/ Terminate \/ UNCHANGED vars
  BY <1>7 DEF Exit, ReapEnd, Terminate, vars
<1>8. ASSUME NEW q \in Pids, Child(q) PROVE fd \in ready' \cup events'
  BY <1>8 DEF Child, ChildNotifies, ChildReads, ChildSignalled, ChildExits, PutSignal
<1>9. CASE ClientConnects \/ Interrupt \/ \E s \in Signal : sig_handler(s)
  BY <1>9 DEF ClientConnects, Interrupt, sig_handler, PutSignal
<1> QED
  BY <1>2, <1>3, <1>4, <1>5, <1>6, <1>7, <1>8, <1>9 DEF Next, Server

\* While numbers of p wait, the server loses none but to a relay or a reap.
LEMMA NumbersKept ==
  ASSUME Tables, [Next]_vars, NEW p \in Pids, ~Reap(p), \A fd \in ChannelOf(p) : ~Relay(fd)
  PROVE  up'[p] >= up[p]
<1>t. up \in [Pids -> 0 .. PIPE_CAP] /\ PIPE_CAP \in Nat
  BY ChatAssumption DEF Tables, TypeOK
<1>1. ASSUME NEW q \in Pids, ChildNotifies(q) PROVE up'[p] >= up[p]
  BY <1>t, <1>1 DEF ChildNotifies
<1>2. ASSUME NEW q \in Pids, Reap(q) PROVE up'[p] >= up[p]
  <2>1. up' = [up EXCEPT ![q] = 0] /\ q # p
    BY <1>2, ReapEffect
  <2> QED
    BY <2>1, <1>t
<1>3. ASSUME NEW fd \in Fds, Relay(fd) PROVE up'[p] >= up[p]
  <2>1. up' = [up EXCEPT ![fdtab[fd]] = @ - 1] /\ fdtab[fd] # p
    BY <1>3 DEF Relay, ChannelOf
  <2> QED
    BY <2>1, <1>t
<1>4. CASE UNCHANGED up
  BY <1>4, <1>t
<1> QED
  BY <1>1, <1>2, <1>3, <1>4, RestKeepsUp

\* A process that is not there has sent nothing, and a full pipe always has
\* an event under way that will make the server read from it.
FullPipe ==
  \A p \in Pids :
    /\ proc[p] = "free" => up[p] = 0
    /\ proc[p] = "run" /\ up[p] = PIPE_CAP => ChannelOf(p) \cap (ready \cup events) # {}

\* The edge-triggered socketpair never falls silent while it is full: a
\* number that line 142 drops leaves others behind which the server will read.
THEOREM FullPipeHasEvent ==
  ASSUME PIPE_CAP > 0
  PROVE  Spec => []FullPipe
<1>1. Init => FullPipe
  BY DEF Init, FullPipe
<1>2. Tables /\ Tables' /\ FullPipe /\ [Next]_vars => FullPipe'
  <2> SUFFICES ASSUME Tables, Tables', FullPipe, [Next]_vars, NEW p \in Pids
               PROVE  /\ proc'[p] = "free" => up'[p] = 0
                      /\ proc'[p] = "run" /\ up'[p] = PIPE_CAP
                           => ChannelOf(p)' \cap (ready' \cup events') # {}
    BY DEF FullPipe
  <2>t. /\ up \in [Pids -> 0 .. PIPE_CAP] /\ up' \in [Pids -> 0 .. PIPE_CAP] /\ PIPE_CAP \in Nat
        /\ proc \in [Pids -> {"free", "run", "zombie"}]
    BY ChatAssumption DEF Tables, TypeOK
  <2> DEFINE Goal == /\ proc'[p] = "free" => up'[p] = 0
                     /\ proc'[p] = "run" /\ up'[p] = PIPE_CAP
                          => ChannelOf(p)' \cap (ready' \cup events') # {}
  <2>1. CASE ChildNotifies(p)
    <3>1. /\ proc[p] = "run" /\ UNCHANGED <<proc, fdtab>>
          /\ ready' = ready \cup ChannelOf(p) /\ ChannelOf(p)' = ChannelOf(p)
      BY <2>1 DEF ChildNotifies, childVars, ChannelOf
    <3>2. ChannelOf(p) # {}
      <4>1. p \in Unreaped
        BY <3>1 DEF Unreaped
      <4> QED
        BY <4>1 DEF ChannelOf, Tables, TableConsistent, NamedByBoth, ChannelsMatch
    <3> QED
      BY <3>1, <3>2
  <2>2. CASE Reap(p)
    <3>1. proc'[p] = "free" /\ up'[p] = 0
      BY <2>2, <2>t, ReapEffect
    <3> QED
      BY <3>1
  <2>3. ASSUME NEW fd \in ChannelOf(p), Relay(fd) PROVE Goal
    <3>1. /\ fdtab[fd] = p /\ up[p] > 0 /\ up' = [up EXCEPT ![p] = @ - 1] /\ UNCHANGED proc
      BY <2>3 DEF Relay, ChannelOf, childVars
    <3> QED
      BY <3>1, <2>t DEF FullPipe
  <2>4. ASSUME ~ChildNotifies(p), ~Reap(p), \A fd \in ChannelOf(p) : ~Relay(fd) PROVE Goal
    <3>1. up'[p] = up[p]
      <4>1. ASSUME NEW q \in Pids, ChildNotifies(q) PROVE up'[p] = up[p]
        BY <2>4, <2>t, <4>1 DEF ChildNotifies
      <4>2. ASSUME NEW q \in Pids, Reap(q) PROVE up'[p] = up[p]
        <5>1. up' = [up EXCEPT ![q] = 0] /\ q # p
          BY <2>4, <4>2, ReapEffect
        <5> QED
          BY <5>1, <2>t
      <4>3. ASSUME NEW fd \in Fds, Relay(fd) PROVE up'[p] = up[p]
        BY <2>4, <2>t, <4>3 DEF Relay, ChannelOf
      <4> QED
        BY <4>1, <4>2, <4>3, RestKeepsUp
    <3>2. /\ proc'[p] = "free" => proc[p] = "free"
          /\ proc'[p] = "run" => proc[p] # "zombie"
      BY <2>4, ProcessLife
    <3>5. CASE proc[p] = "free"
      BY <3>1, <3>5, <2>t DEF FullPipe
    <3>6. CASE proc[p] = "run" /\ up[p] = PIPE_CAP
      <4>1. PICK fd \in ChannelOf(p) : fd \in ready \cup events
        BY <3>6 DEF FullPipe
      <4>2. fd \in ready' \cup events' /\ fd \in ChannelOf(p)'
        BY <2>4, <3>6, <4>1, EventKept, ChannelKept
      <4> QED
        BY <3>2, <3>6, <4>2
    <3> QED
      BY <3>1, <3>2, <3>5, <3>6, <2>t
  <2> QED
    BY <2>1, <2>2, <2>3, <2>4
<1> QED
  BY <1>1, <1>2, TablesCorrect, PTL DEF Spec

-----------------------------------------------------------------------------
(* The server implements the roster.                                        *)

\* There are no more members of the roster than entries of users[].
LEMMA MembersBound ==
  ASSUME Tables
  PROVE  /\ Cardinality(RosterMembers) <= user_count
         /\ Cardinality(RosterMembers) \in Nat
<1> DEFINE f == [i \in 0 .. user_count - 1 |-> users[i].pid]
<1>1. user_count \in Nat
  BY DEF Tables, TypeOK
<1>2. f \in [0 .. user_count - 1 -> RosterMembers]
  BY DEF RosterMembers, Registered
<1>3. \A x \in RosterMembers : \E i \in 0 .. user_count - 1 : f[i] = x
  BY DEF RosterMembers, Registered
<1> HIDE DEF f
<1> QED
  BY <1>1, <1>2, <1>3, ImageBound, FS_CardinalityType

\* Every step of the server, its children and the kernel is a step of the
\* roster or leaves it alone: names join while there is room, stay until the
\* process is dead and leave once, and at most one is left behind.
THEOREM RosterCorrect == Spec => RosterSpec
<1>1. Init => Roster!Init
  BY ChatAssumption DEF Init, Roster!Init, RosterMembers, Registered, Zombies
<1>2. /\ Tables /\ Tables' /\ Stopping /\ [Next]_vars
      => [Roster!Next]_(Roster!vars)
  <2> SUFFICES ASSUME Tables, Tables', Stopping, [Next]_vars
               PROVE  Roster!Next \/ UNCHANGED Roster!vars
    BY DEF Roster!Next
  <2>m. RosterMembers = Unreaped /\ RosterMembers' = Unreaped'
    BY DEF Tables, TableConsistent, NamedByBoth, RosterMembers
  <2>c. /\ Cardinality(RosterMembers) <= user_count /\ Cardinality(RosterMembers) \in Nat
        /\ user_count \in Nat /\ USER_LIMIT \in Nat
    <3>1. user_count \in Nat /\ USER_LIMIT \in Nat
      BY ChatAssumption DEF Tables, TypeOK
    <3> QED
      BY <3>1, MembersBound
  <2>i. Roster!Cardinality(RosterMembers) = Cardinality(RosterMembers)
    BY DEF Cardinality, Roster!Cardinality
  <2>t. proc \in [Pids -> {"free", "run", "zombie"}]
    BY DEF Tables, TypeOK
  <2>1. ASSUME NEW p \in Pids, Admit(p) PROVE Roster!Next
    <3>1. mpc = "run" /\ mpc' = mpc /\ user_count < USER_LIMIT
      BY <2>1, <2>c DEF Admit, Accepts, Handling, TableFull
    <3>2. /\ p \notin Unreaped /\ Unreaped' = Unreaped \cup {p} /\ Zombies' = Zombies
      BY <2>1, <2>t DEF Admit, Unreaped, Zombies
    <3>3. Cardinality(RosterMembers) < USER_LIMIT
      BY <3>1, <2>c
    <3> QED
      BY <3>1, <3>2, <3>3, <2>m, <2>i DEF Roster!Next, Roster!Join
  <2>2. ASSUME NEW p \in Pids, Reap(p) PROVE Roster!Next
    <3>1. /\ p \in Zombies /\ Unreaped' = Unreaped \ {p} /\ Zombies' = Zombies \ {p}
      BY <2>2, <2>t DEF Reap, Unreaped, Zombies
    <3>2. mpc = "run" /\ mpc' = mpc
      BY <2>2 DEF Reap, AtSignal, loopVars
    <3> QED
      BY <3>1, <3>2, <2>m DEF Roster!Next, Roster!Leave
  <2>3. ASSUME NEW p \in Pids, ChildExits(p) PROVE Roster!Next
    <3>1. p \in Unreaped \ Zombies /\ Unreaped' = Unreaped /\ Zombies' = Zombies \cup {p}
      BY <2>3, <2>t DEF ChildExits, Unreaped, Zombies
    <3>2. mpc' = mpc
      BY <2>3 DEF ChildExits, mainVars, loopVars
    <3> QED
      BY <3>1, <3>2, <2>m DEF Roster!Next, Roster!Die
  <2>4. CASE Exit
    <3>1. /\ mpc = "run" /\ mpc' = "exit" /\ user_count <= 1
          /\ Unreaped' = Unreaped /\ Zombies' = Zombies
      BY <2>4, <2>c DEF Exit, Stopping, kernelVars, childVars, Unreaped, Zombies
    <3>2. Cardinality(RosterMembers) <= 1
      BY <3>1, <2>c
    <3> QED
      BY <3>1, <3>2, <2>m, <2>i DEF Roster!Next, Roster!Close
  <2>5. ASSUME UNCHANGED proc, mpc' = mpc \/ (mpc = "run" /\ mpc' = "abort")
        PROVE  UNCHANGED Roster!vars
    BY <2>5, <2>m DEF Roster!vars, Unreaped, Zombies
  <2>6. CASE SocketpairAborts
    BY <2>6, <2>5 DEF SocketpairAborts, Accepts, Handling, childVars
  <2> QED
    BY <2>1, <2>2, <2>3, <2>4, <2>5, <2>6
       DEF Next, Server, EpollWait, AcceptFails, Reject, ForkFails,
       ReadSignals, ReapEnd, Terminate, Relay, RelayNothing, Handling, Child, ChildNotifies,
       ChildReads, ChildSignalled, ClientConnects, Interrupt, sig_handler, vars,
       loopVars, mainVars, childVars, kernelVars
<1> QED
  BY <1>1, <1>2, TablesCorrect, StoppingInvariant, PTL DEF Spec, RosterSpec, Roster!Spec

=============================================================================
