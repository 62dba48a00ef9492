---------------------------- MODULE ProcessProofs ---------------------------
(* Proofs about EchoWaitpid and Zombie, the programs that reap children,    *)
(* and what MutexLock and SelectEcho prove of themselves, carried over.     *)
EXTENDS MCPrograms, FiniteSetTheorems, TLAPS

\* The handler of lines 13 to 19 forgets no zombie.
THEOREM NoZombieForgottenCorrect == Spec => []NoZombieForgotten
<1>1. Init => NoZombieForgotten
  BY DEF Init, SigInit, NoZombieForgotten, Zombies
<1>2. NoZombieForgotten /\ [Next]_vars => NoZombieForgotten'
  <2> SUFFICES ASSUME NoZombieForgotten, [Next]_vars PROVE NoZombieForgotten'
    OBVIOUS
  <2> USE DEF NoZombieForgotten, Zombies
  <2>1. CASE AcceptFails \/ ForkFails \/ Close \/ \E c \in Conns : Accept(c)
    BY <2>1 DEF AcceptFails, ForkFails, Close, Accept, sigVars
  <2>2. CASE Handler
    BY <2>2 DEF Handler, EnterHandler, LeaveHandler, Wait
  <2>3. ASSUME NEW p \in Pids, Fork(p) PROVE NoZombieForgotten'
    BY <2>3 DEF Fork, Forked
  <2>4. ASSUME NEW p \in Pids, Echo(p) PROVE NoZombieForgotten'
    BY <2>4 DEF Echo, Dies
  <2>5. CASE \E c \in Conns : Connect(c) \/ Sends(c) \/ Leaves(c)
    BY <2>5 DEF Connect, Sends, Leaves, sigVars
  <2>6. CASE UNCHANGED vars
    BY <2>6 DEF vars, sigVars
  <2> QED BY <2>1, <2>2, <2>3, <2>4, <2>5, <2>6 DEF Next, Server
<1> QED BY <1>1, <1>2, PTL DEF Spec

\* The parent's descriptors: none between two connections, one meanwhile.
HeldIsConn == held = conn /\ (pc = "accept" => conn = {})

\* The parent never runs out of descriptors (line 52 closes its copy, also
\* when fork() has failed).
THEOREM NeverOutOfDescriptorsCorrect == Spec => []NeverOutOfDescriptors
<1>1. Init => HeldIsConn
  BY DEF Init, HeldIsConn
<1>2. HeldIsConn /\ [Next]_vars => HeldIsConn'
  <2> SUFFICES ASSUME HeldIsConn, [Next]_vars PROVE HeldIsConn'
    OBVIOUS
  <2> USE DEF HeldIsConn, mainVars, fdVars
  <2>1. CASE AcceptFails \/ ForkFails
    BY <2>1 DEF AcceptFails, ForkFails
  <2>2. CASE Close
    BY <2>2 DEF Close, StillHeld
  <2>3. ASSUME NEW c \in Conns, Accept(c) PROVE HeldIsConn'
    BY <2>3 DEF Accept
  <2>4. CASE Handler \/ \E p \in Pids : Fork(p) \/ Echo(p)
    BY <2>4 DEF Handler, Fork, Echo
  <2>5. CASE \E c \in Conns : Connect(c) \/ Sends(c) \/ Leaves(c)
    BY <2>5 DEF Connect, Sends, Leaves
  <2>6. CASE UNCHANGED vars
    BY <2>6 DEF vars
  <2> QED BY <2>1, <2>2, <2>3, <2>4, <2>5, <2>6 DEF Next, Server
<1>3. HeldIsConn => NeverOutOfDescriptors
  BY FS_EmptySet, WaitpidAssumption DEF HeldIsConn, NeverOutOfDescriptors
<1> QED BY <1>1, <1>2, <1>3, PTL DEF Spec

\* What the accept loop holds is one connection at most, so the parent's set
\* of descriptors has at most one member.
TypeInv ==
  /\ TypeOK
  /\ HeldIsConn
  /\ conn = {} \/ \E c \in Conns : conn = {c}

\* The inductive invariant of the accept loop (lines 41 to 53).
LEMMA WaitpidInvariant == Spec => []TypeInv
<1>0. Cardinality({}) = 0 /\ \A c \in Conns : Cardinality({c}) = 1
  BY FS_EmptySet, FS_Singleton
<1>1. Init => TypeInv
  <2> SUFFICES ASSUME Init PROVE TypeInv
    OBVIOUS
  <2>1. held = {} /\ conn = {} /\ Cardinality(held) <= 1
    BY <1>0 DEF Init
  <2>2. SigTypeOK
    BY DEF Init, SigInit, SigTypeOK
  <2>3. TypeOK
    BY <2>1, <2>2 DEF Init, TypeOK
  <2> QED BY <2>1, <2>3 DEF TypeInv, HeldIsConn
<1>2. TypeInv /\ [Next]_vars => TypeInv'
  <2> SUFFICES ASSUME TypeInv, [Next]_vars PROVE TypeInv'
    OBVIOUS
  <2> USE DEF TypeInv, HeldIsConn, TypeOK, SigTypeOK, sigVars, mainVars, connVars, fdVars
  <2>1. CASE AcceptFails \/ ForkFails
    BY <2>1 DEF AcceptFails, ForkFails
  <2>2. CASE Close
    <3>1. held' = {} /\ conn' = {} /\ pc' = "accept"
      BY <2>2 DEF Close, StillHeld
    <3>2. state' \in [Conns -> {"new", "queued", "served", "over"}]
      BY <2>2 DEF Close, Ends
    <3> QED BY <1>0, <2>2, <3>1, <3>2 DEF Close
  <2>3. ASSUME NEW c \in Conns, Accept(c) PROVE TypeInv'
    <3>1. held' = {c} /\ conn' = {c}
      BY <2>3 DEF Accept
    <3> QED BY <1>0, <2>3, <3>1 DEF Accept
  <2>4. CASE Handler
    BY <2>4 DEF Handler, EnterHandler, LeaveHandler, Wait
  <2>5. ASSUME NEW p \in Pids, Fork(p) PROVE TypeInv'
    BY <2>5 DEF Fork, Forked
  <2>6. ASSUME NEW p \in Pids, Echo(p) PROVE TypeInv'
    BY <2>6 DEF Echo, Dies, Ends
  <2>7. ASSUME NEW c \in Conns, Connect(c) \/ Sends(c) \/ Leaves(c) PROVE TypeInv'
    BY <2>7 DEF Connect, Sends, Leaves
  <2>8. CASE UNCHANGED vars
    BY <2>8 DEF vars
  <2> QED BY <2>1, <2>2, <2>3, <2>4, <2>5, <2>6, <2>7, <2>8 DEF Next, Server
<1> QED BY <1>1, <1>2, PTL DEF Spec

\* Every variable has its type, and the parent never has two connections open.
THEOREM WaitpidTypeCorrect == Spec => []TypeOK
<1>1. TypeInv => TypeOK
  BY DEF TypeInv
<1> QED BY <1>1, WaitpidInvariant, PTL

-----------------------------------------------------------------------------

\* A connection its client has not seen end is open in the parent, which is
\* about to close it, or in a running child that is to echo it, and in no
\* process but these; one whose end it has seen is open nowhere.
HasHolder(c) == c \in held \/ \E p \in Pids : c \in holds[p]
Holders ==
  /\ \A c \in Conns : state[c] = "served" <=> HasHolder(c)
  /\ held # {} => pc \in {"fork", "close"}
  /\ \A p \in Pids : serves[p] = holds[p] /\ (holds[p] # {} => child[p] = "run")
  /\ pc = "fork" => \A p \in Pids : holds[p] \cap held = {}
  /\ \A p, q \in Pids : p # q => holds[p] \cap holds[q] = {}

\* The safe part of ClientSeesEnd: no descriptor of a connection is left
\* behind anywhere, not by a fork() that failed, nor in a later child that
\* inherited it (lines 44 to 53).
THEOREM NoDescriptorLeftBehind == Spec => []Holders
<1> USE DEF HasHolder
<1>1. Init => Holders
  BY DEF Init, SigInit, Holders
<1>2. TypeInv /\ Holders /\ [Next]_vars => Holders'
  <2> SUFFICES ASSUME TypeInv, Holders, [Next]_vars PROVE Holders'
    OBVIOUS
  <2> USE DEF TypeInv, HeldIsConn, TypeOK, SigTypeOK, sigVars, mainVars, connVars, fdVars
  <2>1. CASE AcceptFails \/ ForkFails
    BY <2>1 DEF AcceptFails, ForkFails, Holders
  <2>2. CASE Close
    <3>1. /\ held' = {} /\ pc' = "accept" /\ UNCHANGED <<holds, serves, child>>
          /\ Ends({}, holds)
      BY <2>2 DEF Close, StillHeld
    <3> QED BY <3>1 DEF Holders, Ends
  <2>3. ASSUME NEW c \in Conns, Accept(c) PROVE Holders'
    <3>1. /\ held = {} /\ held' = {c} /\ pc' = "fork" /\ state[c] = "queued"
          /\ state' = [state EXCEPT ![c] = "served"] /\ UNCHANGED <<holds, serves, child>>
      BY <2>3 DEF Accept
    <3>2. \A p \in Pids : c \notin holds[p]
      BY <3>1 DEF Holders
    <3> QED BY <3>1, <3>2 DEF Holders
  <2>4. CASE Handler
    <3>1. /\ UNCHANGED <<pc, state, held, holds, serves>>
          /\ \A p \in Pids : child[p] = "run" => child'[p] = "run"
      BY <2>4 DEF Handler, EnterHandler, LeaveHandler, Wait, Zombies
    <3> QED BY <3>1 DEF Holders
  <2>5. ASSUME NEW p \in Pids, Fork(p) PROVE Holders'
    <3>1. /\ pc = "fork" /\ pc' = "close" /\ child[p] = "none" /\ UNCHANGED <<state, held>>
          /\ child' = [child EXCEPT ![p] = "run"]
          /\ holds' = [holds EXCEPT ![p] = held] /\ serves' = [serves EXCEPT ![p] = held]
      BY <2>5 DEF Fork, Forked
    <3>2. holds[p] = {} /\ \A q \in Pids : holds[q] \cap held = {}
      BY <3>1 DEF Holders
    <3>3. \A c \in Conns : HasHolder(c)' <=> HasHolder(c)
      BY <3>1, <3>2
    <3>4. \A q, r \in Pids : q # r => holds'[q] \cap holds'[r] = {}
      BY <3>1, <3>2 DEF Holders
    <3>5. \A q \in Pids : serves'[q] = holds'[q] /\ (holds'[q] # {} => child'[q] = "run")
      BY <3>1 DEF Holders
    <3> HIDE DEF HasHolder
    <3> QED BY <3>1, <3>3, <3>4, <3>5 DEF Holders
  <2>6. ASSUME NEW p \in Pids, Echo(p) PROVE Holders'
    <3>1. /\ holds' = [holds EXCEPT ![p] = {}] /\ serves' = [serves EXCEPT ![p] = {}]
          /\ child' = [child EXCEPT ![p] = "zombie"] /\ UNCHANGED <<pc, held>>
          /\ Ends(held, holds')
      BY <2>6 DEF Echo, Dies
    <3>2. \A c \in Conns : state'[c] = "served" <=> HasHolder(c)'
      BY <3>1 DEF Holders, Ends
    <3> QED BY <3>1, <3>2 DEF Holders
  <2>7. ASSUME NEW c \in Conns, Connect(c) \/ Sends(c) \/ Leaves(c) PROVE Holders'
    BY <2>7 DEF Connect, Sends, Leaves, Holders
  <2>8. CASE UNCHANGED vars
    BY <2>8 DEF vars, Holders
  <2> QED BY <2>1, <2>2, <2>3, <2>4, <2>5, <2>6, <2>7, <2>8 DEF Next, Server
<1> QED BY <1>1, <1>2, WaitpidInvariant, PTL DEF Spec

-----------------------------------------------------------------------------

\* In process/zombie.cc no zombie is forgotten (lines 29 to 41), however many
\* children there are and however their deaths fall into the handler's run.
THEOREM ZombieNotForgottenCorrect == Z!Spec => []Z!NoZombieForgotten
<1>1. Z!Init => Z!NoZombieForgotten
  BY DEF Z!Init, Z!SigInit, Z!NoZombieForgotten, Z!Zombies
<1>2. Z!NoZombieForgotten /\ [Z!Next]_Z!vars => Z!NoZombieForgotten'
  <2> SUFFICES ASSUME Z!NoZombieForgotten, [Z!Next]_Z!vars PROVE Z!NoZombieForgotten'
    OBVIOUS
  <2> USE DEF Z!NoZombieForgotten, Z!Zombies
  <2>1. ASSUME NEW p \in Pids, Z!Fork(p) PROVE Z!NoZombieForgotten'
    BY <2>1 DEF Z!Fork, Z!Forked
  <2>2. CASE Z!ForkFails \/ Z!Sleep \/ Z!SleepOver
    BY <2>2 DEF Z!ForkFails, Z!Sleep, Z!SleepOver, Z!sigVars
  <2>3. CASE Z!Returns
    BY <2>3 DEF Z!Returns, Z!LeaveHandler
  <2>4. CASE Z!Handler
    BY <2>4 DEF Z!Handler, Z!EnterHandler, Z!Wait
  <2>5. ASSUME NEW p \in Pids, Z!ChildExits(p) PROVE Z!NoZombieForgotten'
    BY <2>5 DEF Z!ChildExits, Z!Dies
  <2>6. CASE UNCHANGED Z!vars
    BY <2>6 DEF Z!vars, Z!sigVars
  <2> QED BY <2>1, <2>2, <2>3, <2>4, <2>5, <2>6 DEF Z!Next, Z!Parent
<1> QED BY <1>1, <1>2, PTL DEF Z!Spec

-----------------------------------------------------------------------------

\* What Programs.cfg checks of pkg/sync/Mutex.h, for any number of threads:
\* isLockedByThisThread() tells the truth.
THEOREM AnswerRightAlways ==
  ASSUME Zero \notin Threads
  PROVE  L!Spec => []AnswerRight
BY L!AnswerRightCorrect DEF AnswerRight

\* The assertion of its destructor.
THEOREM HolderClearedAlways ==
  ASSUME Zero \notin Threads
  PROVE  L!Spec => []HolderClearedAtEnd
BY L!HolderClearedCorrect DEF HolderClearedAtEnd

\* And of select/echo_server.cc, for any number of descriptors, any buffer and
\* any clients: readfds names the open connections, and no accept() and no
\* read() of a scan waits or serves a descriptor that has changed hands since
\* select(), however long a write() keeps it (lines 42 to 71).
THEOREM ScanRightAlways ==
  ASSUME E!SocketsAssumption
  PROVE  E!Spec => []ScanRight
BY E!ScanRightCorrect DEF ScanRight

-----------------------------------------------------------------------------

\* What unblock_connect() knows of its attempt: until it returns the attempt
\* is under way or over and the socket is still its own, and SO_ERROR is only
\* asked for once the attempt is over (lines 59 to 77).
ConnectInv ==
  /\ C!TypeOK
  /\ cpc = "connect" => socket = "none" /\ peer = "none" /\ ret = "none"
  /\ cpc \in {"select", "isset", "error", "fail"} =>
       socket = "nonblocking" /\ ret = "none" /\ peer # "none"
  /\ cpc = "error" \/ (cpc = "isset" /\ reported) => peer # "pending"
  /\ peer = "up" => accepted
  /\ C!OutcomeRight

\* A socket is returned only for a connection that was made, and every
\* attempt that was in progress is closed when it is given up, whatever the
\* network does in between.
THEOREM OutcomeRightAlways == C!Spec => []OutcomeRight
<1>1. C!Init => ConnectInv
  BY DEF C!Init, ConnectInv, C!TypeOK, C!OutcomeRight
<1>2. ConnectInv /\ [C!Next]_C!vars => ConnectInv'
  <2> SUFFICES ASSUME ConnectInv, [C!Next]_C!vars PROVE ConnectInv'
    OBVIOUS
  <2> USE DEF ConnectInv, C!TypeOK, C!OutcomeRight, C!Returned
  <2>1. CASE C!Network
    BY <2>1 DEF C!Network
  <2>2. CASE C!AtOnce \/ C!InProgress \/ C!FailsAtOnce
    BY <2>2 DEF C!AtOnce, C!InProgress, C!FailsAtOnce
  <2>3. CASE C!Select
    BY <2>3 DEF C!Select
  <2>4. CASE C!LooksAtBit
    BY <2>4 DEF C!LooksAtBit, C!IsSet
  <2>5. CASE C!LooksAtError
    BY <2>5 DEF C!LooksAtError, C!NoError
  <2>6. CASE C!Fails
    BY <2>6 DEF C!Fails, C!Failed
  <2>7. CASE UNCHANGED C!vars
    BY <2>7 DEF C!vars
  <2> QED BY <2>1, <2>2, <2>3, <2>4, <2>5, <2>6, <2>7 DEF C!Next, C!Function
<1>3. ConnectInv => OutcomeRight
  BY DEF ConnectInv, OutcomeRight
<1> QED BY <1>1, <1>2, <1>3, PTL DEF C!Spec

-----------------------------------------------------------------------------

\* A program that waits for an edge while there is input will get one.
EdgeAhead == edge /\ spc = "wait" /\ input > 0 => ready

\* The safe part of InputRead: the edge-triggered loop (lines 39 to 48) never
\* goes back to epoll_wait() on input whose edge has passed.
THEOREM EdgeNotMissed ==
  ASSUME BUF_SIZE \in Nat \ {0}, MaxBytes \in Nat
  PROVE  S!Spec => [](S!TypeOK /\ EdgeAhead)
<1>1. S!Init => S!TypeOK /\ EdgeAhead
  <2> SUFFICES ASSUME S!Init PROVE S!TypeOK /\ EdgeAhead
    OBVIOUS
  <2>1. input \in 0 .. MaxBytes /\ ~(input > 0)
    BY DEF S!Init
  <2>2. S!TypeOK
    BY <2>1, Zenon DEF S!Init, S!TypeOK
  <2> QED BY <2>1, <2>2, Zenon DEF EdgeAhead
<1>2. S!TypeOK /\ EdgeAhead /\ [S!Next]_S!vars => S!TypeOK' /\ EdgeAhead'
  <2> SUFFICES ASSUME S!TypeOK, EdgeAhead, [S!Next]_S!vars PROVE S!TypeOK' /\ EdgeAhead'
    OBVIOUS
  <2> USE DEF S!TypeOK, EdgeAhead
  <2>1. CASE S!Writes
    <3>1. input' \in 0 .. MaxBytes
      BY <2>1 DEF S!Writes
    <3> QED BY <2>1, <3>1, Zenon DEF S!Writes
  <2>2. CASE S!Closes
    BY <2>2, Zenon DEF S!Closes
  <2>3. CASE S!EpollWait
    BY <2>3 DEF S!EpollWait
  <2>4. CASE S!Read
    <3>1. input' \in 0 .. MaxBytes
      BY <2>4 DEF S!Read
    <3>2. (spc' = "wait" \/ spc' = "read") /\ (edge => spc' = "read")
      BY <2>4 DEF S!Read, S!AfterRead
    <3> QED BY <2>4, <3>1, <3>2 DEF S!Read
  <2>5. CASE S!NothingToRead
    <3>1. ~(input' > 0)
      BY <2>5 DEF S!NothingToRead
    <3> QED BY <2>5, <3>1, Zenon DEF S!NothingToRead
  <2>6. CASE S!End
    <3>1. ~(input' > 0)
      BY <2>6 DEF S!End
    <3>2. spc' \in {"wait", "read"}
      BY <2>6, Zenon DEF S!End
    <3> QED BY <2>6, <3>1, <3>2, Zenon DEF S!End
  <2>7. CASE UNCHANGED S!vars
    BY <2>7 DEF S!vars
  <2> QED BY <2>1, <2>2, <2>3, <2>4, <2>5, <2>6, <2>7 DEF S!Next, S!Program
<1> QED BY <1>1, <1>2, PTL DEF S!Spec

=============================================================================
