----------------------------- MODULE MCPrograms -----------------------------
(* The small programs for TLC: a behaviour is one of EchoWaitpid, Zombie,   *)
(* MutexLock, NoblockConnect, StdinEpoll and SelectEcho, and the variables  *)
(* of the others stay as they begin.                                        *)
EXTENDS EchoWaitpid

CONSTANTS NCHILD, Threads, Zero, BUF_SIZE, MaxBytes

\* Those of SelectEcho.
CONSTANTS SELECT_LIMIT, SELECT_BUF, WINDOW, SelectBytes, MaxClients, MaxGone

VARIABLES
  program,  \* which of them
  zpc, i, zchild, zpending, zhandling,           \* Zombie
  lpc, mutex_, holder_, alive, answer,           \* MutexLock
  cpc, socket, peer, accepted, reported, ret,    \* NoblockConnect
  edge, spc, input, eof, ready, again,           \* StdinEpoll
  epc, readfds, cpyset, maxfd, ei, n,            \* SelectEcho
  epeer, inbox, outbox, queue, sent, clients

waitpidVars == <<sigVars, mainVars, connVars, fdVars>>
zombieVars == <<zpc, i, zchild, zpending, zhandling>>
mutexVars == <<lpc, mutex_, holder_, alive, answer>>
connectVars == <<cpc, socket, peer, accepted, reported, ret>>
stdinVars == <<edge, spc, input, eof, ready, again>>
selectVars ==
  <<epc, readfds, cpyset, maxfd, ei, n, epeer, inbox, outbox, queue, sent, clients>>
allVars ==
  <<program, waitpidVars, zombieVars, mutexVars, connectVars, stdinVars, selectVars>>

Z == INSTANCE Zombie WITH
  pc <- zpc, child <- zchild, pending <- zpending, handling <- zhandling
L == INSTANCE MutexLock WITH pc <- lpc
C == INSTANCE NoblockConnect WITH pc <- cpc
S == INSTANCE StdinEpoll WITH pc <- spc
E == INSTANCE SelectEcho WITH
  FD_LIMIT <- SELECT_LIMIT, BUF_SIZE <- SELECT_BUF, MaxBytes <- SelectBytes,
  pc <- epc, i <- ei, peer <- epeer

ProgramsInit ==
  /\ program \in {"waitpid", "zombie", "mutex", "connect", "stdin", "select"}
  /\ Init /\ Z!Init /\ L!Init /\ C!Init /\ S!Init /\ E!Init
  /\ edge => program = "stdin"

WaitpidSteps(step) ==
  /\ program = "waitpid" /\ step
  /\ UNCHANGED <<program, zombieVars, mutexVars, connectVars, stdinVars, selectVars>>
ZombieSteps(step) ==
  /\ program = "zombie" /\ step
  /\ UNCHANGED <<program, waitpidVars, mutexVars, connectVars, stdinVars, selectVars>>
MutexSteps(step) ==
  /\ program = "mutex" /\ step
  /\ UNCHANGED <<program, waitpidVars, zombieVars, connectVars, stdinVars, selectVars>>
ConnectSteps(step) ==
  /\ program = "connect" /\ step
  /\ UNCHANGED <<program, waitpidVars, zombieVars, mutexVars, stdinVars, selectVars>>
StdinSteps(step) ==
  /\ program = "stdin" /\ step
  /\ UNCHANGED <<program, waitpidVars, zombieVars, mutexVars, connectVars, selectVars>>
SelectSteps(step) ==
  /\ program = "select" /\ step
  /\ UNCHANGED <<program, waitpidVars, zombieVars, mutexVars, connectVars, stdinVars>>

ProgramsNext ==
  \/ WaitpidSteps(Next) \/ ZombieSteps(Z!Next) \/ MutexSteps(L!Next)
  \/ ConnectSteps(C!Next) \/ StdinSteps(S!Next) \/ SelectSteps(E!Next)

\* The fairness of each module; one process runs.
Scheduled == WaitpidSteps(Server) \/ StdinSteps(S!Program) \/ SelectSteps(E!Server)
ProgramsFairness ==
  /\ WF_allVars(Scheduled)
  /\ \A p \in Pids : WF_allVars(WaitpidSteps(Echo(p)))
  /\ WF_allVars(SelectSteps(E!EchoesRead))

ProgramsSpec == ProgramsInit /\ [][ProgramsNext]_allVars /\ ProgramsFairness

\* isLockedByThisThread() of pkg/sync/Mutex.h tells the truth.
AnswerRight == L!AnswerRight
\* The assertion of ~MutexLock() holds.
HolderClearedAtEnd == L!HolderClearedAtEnd
\* unblock_connect() returns connected sockets and closes those whose
\* connection it waited for in vain.
OutcomeRight == C!OutcomeRight
\* epoll/stdin_to_stdout_*.c leave no input unread.
InputRead == S!InputRead
\* readfds of select/echo_server.cc names the open connections, and what its
\* scan still has to serve is open and readable.
ScanRight == E!ScanRight
\* It answers all text and closes every connection that has finished, if
\* clients read their echoes and none breaks the pipe.
AllServed == E!AllServed

=============================================================================
