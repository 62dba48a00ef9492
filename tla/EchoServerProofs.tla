-------------------------- MODULE EchoServerProofs --------------------------
(***************************************************************************)
(* No step of the echo servers blocks on a descriptor of its batch, and    *)
(* the edge-triggered one leaves nothing unread without an event, for any  *)
(* number of descriptors, any buffer and any clients.                      *)
(***************************************************************************)
EXTENDS EchoServer, TLAPS

\* What is known of descriptors: the kernel reports open ones only, and the
\* one being served is open and no longer in the batch.
Descriptors ==
  /\ ready \cup batch \subseteq Open \cup {listenfd}
  /\ pc = "wait" => batch = {}
  /\ pc \in {"read", "write"} => cur \in Conns /\ peer[cur] # "none" /\ cur \notin batch

IInv == TypeOK /\ Descriptors /\ BatchReadable /\ NothingStranded

\* Least is the smaller of two numbers.
LEMMA LeastIs ==
  ASSUME NEW a \in Nat, NEW b \in Nat
  PROVE  Least(a, b) \in Nat /\ Least(a, b) <= a /\ Least(a, b) <= b
BY DEF Least

\* The invariant holds at the start.
LEMMA InitIInv == Init => IInv
BY EchoAssumption DEF Init, IInv, TypeOK, Descriptors, BatchReadable, NothingStranded,
   Readable, Open, Peer

USE DEF IInv, TypeOK, Descriptors, BatchReadable, NothingStranded, Readable, Open,
        Peer, vars, serverVars, connVars, boundVars, restVars

\* A new connection keeps it.
LEMMA ConnectStep == IInv /\ Connect => IInv'
<1> SUFFICES ASSUME IInv, Connect PROVE IInv'
  OBVIOUS
<1>1. /\ clients' = clients + 1 /\ queue' = queue + 1 /\ clients < MaxClients
      /\ ready' = ready \cup {listenfd}
      /\ UNCHANGED <<serverVars, connVars, sent, EdgeTriggered>>
  BY DEF Connect, Arrives
<1>2. TypeOK'
  BY <1>1, EchoAssumption
<1>3. Descriptors' /\ BatchReadable' /\ NothingStranded'
  BY <1>1, EchoAssumption
<1> QED BY <1>2, <1>3

\* A client or the network keeps it: what was readable stays readable, and
\* whatever arrives is put on the ready list.
LEMMA ClientSteps ==
  ASSUME IInv, NEW c \in Conns,
         Sends(c) \/ ShutsDown(c) \/ Closes(c) \/ Resets(c) \/ Reads(c)
  PROVE  IInv'
<1>2. CASE Sends(c)
  BY <1>2, EchoAssumption DEF Sends, Arrives
<1>3. CASE ShutsDown(c)
  BY <1>3, EchoAssumption DEF ShutsDown, Becomes, Arrives
<1>4. CASE Closes(c)
  BY <1>4, EchoAssumption DEF Closes, Becomes, Arrives
<1>5. CASE Resets(c)
  BY <1>5, EchoAssumption DEF Resets, Becomes, Arrives
<1>6. CASE Reads(c)
  BY <1>6, EchoAssumption DEF Reads
<1> QED BY <1>2, <1>3, <1>4, <1>5, <1>6

\* epoll_wait() and accept() keep it.
LEMMA WaitAndAccept ==
  ASSUME IInv, EpollWait \/ AcceptFails \/ BatchDone \/ (\E c \in Conns : Accept(c) \/ Turn(c))
  PROVE  IInv'
<1>1. CASE EpollWait
  <2>1. PICK got \in SUBSET Reportable : batch' = got /\ ready' = ready \ got
    BY <1>1 DEF EpollWait
  <2>2. /\ \A fd \in got : Readable(fd) /\ fd \in Conns \cup {listenfd}
        /\ pc = "wait" /\ pc' = "loop"
        /\ UNCHANGED <<cur, n, queue, connVars, restVars>>
    BY <1>1 DEF EpollWait, Reportable
  <2>3. TypeOK' /\ Descriptors'
    BY <2>1, <2>2, EchoAssumption
  <2>4. BatchReadable' /\ NothingStranded'
    BY <2>1, <2>2, EchoAssumption
  <2> QED BY <2>3, <2>4
<1>2. CASE AcceptFails
  BY <1>2, EchoAssumption DEF AcceptFails
<1>3. CASE BatchDone
  BY <1>3, EchoAssumption DEF BatchDone
<1>4. ASSUME NEW c \in Conns, Accept(c) PROVE IInv'
  BY <1>4, EchoAssumption DEF Accept
<1>5. ASSUME NEW c \in Conns, Turn(c) PROVE IInv'
  BY <1>5, EchoAssumption DEF Turn
<1> QED BY <1>1, <1>2, <1>3, <1>4, <1>5

\* Reading and writing keep it: the connection served is off the batch, and
\* the edge-triggered server leaves it only when nothing is left to read.
LEMMA ReadAndWrite ==
  ASSUME IInv, ReadSome \/ ReadEnd \/ ReadError \/ ReadAgain \/ Write \/ WriteInVain \/ BrokenPipe
  PROVE  IInv'
<1>1. CASE ReadSome
  <2>1. n' \in 0 .. BUF_SIZE /\ n' <= inbox[cur]
    BY <1>1, LeastIs, EchoAssumption DEF ReadSome
  <2> QED BY <1>1, <2>1, EchoAssumption DEF ReadSome
<1>2. CASE ReadEnd
  BY <1>2, EchoAssumption DEF ReadEnd
<1>3. CASE ReadError
  BY <1>3, EchoAssumption DEF ReadError, AfterAnswer
<1>4. CASE ReadAgain
  BY <1>4, EchoAssumption DEF ReadAgain
<1>5. CASE Write
  <2>1. Least(WINDOW, outbox[cur] + n) \in 0 .. WINDOW
    BY <1>5, LeastIs, EchoAssumption DEF Write
  <2> QED BY <1>5, <2>1, EchoAssumption DEF Write, AfterAnswer
<1>6. CASE WriteInVain
  BY <1>6, EchoAssumption DEF WriteInVain, AfterAnswer
<1>7. CASE BrokenPipe
  BY <1>7, EchoAssumption DEF BrokenPipe
<1> QED BY <1>1, <1>2, <1>3, <1>4, <1>5, <1>6, <1>7

\* Every reachable state satisfies the invariant.
THEOREM EchoInvariant == Spec => []IInv
<1>1. IInv /\ [Next]_vars => IInv'
  <2> SUFFICES ASSUME IInv, [Next]_vars PROVE IInv'
    OBVIOUS
  <2>1. CASE Server
    BY <2>1, WaitAndAccept, ReadAndWrite DEF Server
  <2>2. CASE Connect
    BY <2>2, ConnectStep
  <2>3. ASSUME NEW c \in Conns,
               Sends(c) \/ ShutsDown(c) \/ Closes(c) \/ Resets(c) \/ Reads(c)
        PROVE  IInv'
    BY <2>3, ClientSteps
  <2>4. CASE UNCHANGED vars
    BY <2>4
  <2> QED BY <2>1, <2>2, <2>3, <2>4 DEF Next
<1> QED BY <1>1, InitIInv, PTL DEF Spec

\* read() and accept() are never called on a descriptor that could block
\* them or is closed (lines 28 to 45 of echo_lt.cc, 30 to 50 of echo_et.cc).
THEOREM BatchReadableCorrect == Spec => []BatchReadable
<1>1. IInv => BatchReadable
  OBVIOUS
<1> QED BY <1>1, EchoInvariant, PTL

\* The edge-triggered server, which reads until EAGAIN (lines 49 to 65 of
\* echo_et.cc), never leaves text or an end of file without an event to come.
THEOREM NothingStrandedCorrect == Spec => []NothingStranded
<1>1. IInv => NothingStranded
  OBVIOUS
<1> QED BY <1>1, EchoInvariant, PTL

\* Lengths and descriptors stay in their ranges; no read() overruns buf.
THEOREM EchoTypeCorrect == Spec => []TypeOK
<1>1. IInv => TypeOK
  OBVIOUS
<1> QED BY <1>1, EchoInvariant, PTL

=============================================================================
