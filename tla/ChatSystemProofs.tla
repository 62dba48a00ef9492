-------------------------- MODULE ChatSystemProofs --------------------------
(***************************************************************************)
(* Proofs about the whole service.  Its steps are built on ChatMain's, so   *)
(* that what is proved of ChatMain holds of it; what run_child promises    *)
(* is proved here.                                                         *)
(***************************************************************************)
EXTENDS ChatSystem, ChatMainProofs

\* Every step of the service is a step of ChatMain or changes nothing there.
LEMMA SysStep == [SysNext]_sysVars => [Next]_vars
<1> SUFFICES ASSUME [SysNext]_sysVars PROVE Next \/ UNCHANGED vars
  OBVIOUS
<1>1. CASE SysServer
  BY <1>1 DEF SysServer, Alone, Returns, Forks, Relays, Next, Server
<1>2. ASSUME NEW p \in Pids, Runs(p) PROVE Next \/ UNCHANGED vars
  <2>1. UNCHANGED vars \/ ChildExits(p) \/ ChildNotifies(p) \/ ChildReads(p)
    BY <1>2 DEF Runs, ClosesInherited, InstallsHandler, Continues, Ends, EntersWait, Wakes,
       ClearsSlot, ReadsText, SeesClientGone, ReadsNumber, SeesServerGone
  <2> QED
    BY <2>1 DEF Next, Child
<1>3. ASSUME NEW p \in Pids, IsTermed(p) PROVE Next
  BY <1>3 DEF IsTermed, Next, Child
<1>4. ASSUME NEW p \in Pids, Types(p) \/ Leaves(p) PROVE UNCHANGED vars
  BY <1>4 DEF Types, Leaves
<1>5. CASE Connect \/ Kills
  BY <1>5 DEF Connect, Kills, Next
<1>6. ASSUME NEW s \in Signal, Handles(s) PROVE Next
  BY <1>6 DEF Handles, Next
<1>7. CASE UNCHANGED sysVars
  BY <1>7 DEF sysVars
<1> QED
  BY <1>1, <1>2, <1>3, <1>4, <1>5, <1>6, <1>7 DEF SysNext

\* The service starts as ChatMain does and takes only its steps, since each of
\* its own is made from one of them.
LEMMA ServiceIsChatMain == SysSpec => Spec
<1>1. SysInit => Init
  BY DEF SysInit
<1> QED
  BY <1>1, SysStep, PTL DEF SysSpec, Spec

\* A child that outlives the server is alone: nobody but it and the server
\* held its socketpair, which is why Returns shows it the end of file.
THEOREM SysExitLeavesAtMostOne == SysSpec => []ExitLeavesAtMostOne
BY ServiceIsChatMain, ExitLeavesAtMostOneCorrect, PTL

\* The types of what run_child and its clients add.
RunTypes ==
  /\ cpc \in [Pids -> {"none", "fork", "closed", "loop", "enter", "wait", "recv"}]
  /\ stop_child \in [Pids -> BOOLEAN]
  /\ cready \in [Pids -> SUBSET Source]
  /\ cevents \in [Pids -> SUBSET Source]
  /\ typed \in [Pids -> 0 .. Chunks]
  /\ gone \in [Pids -> BOOLEAN]
  /\ clients \in 0 .. MaxClients

\* A child's place, flag and events keep their types.
LEMMA RunTypesStep == RunTypes /\ [SysNext]_sysVars => RunTypes'
<1> SUFFICES ASSUME RunTypes, [SysNext]_sysVars PROVE RunTypes'
  OBVIOUS
<1> USE SystemAssumption DEF RunTypes, Source
<1>1. CASE Alone
  BY <1>1 DEF Alone, runVars, clientVars
<1>2. CASE Returns
  BY <1>2 DEF Returns, clientVars
<1>3. ASSUME NEW p \in Pids, Forks(p) PROVE RunTypes'
  <2>1. PICK n \in 0 .. Chunks, left \in BOOLEAN :
          /\ typed' = [typed EXCEPT ![p] = n]
          /\ gone' = [gone EXCEPT ![p] = left]
          /\ cready' = [cready EXCEPT ![p] = IF n > 0 \/ left THEN {"conn"} ELSE {}]
    BY <1>3 DEF Forks
  <2> QED
    BY <1>3, <2>1 DEF Forks
<1>4. ASSUME NEW fd \in Fds, Relays(fd) PROVE RunTypes'
  BY <1>4 DEF Relays, clientVars
<1>5. ASSUME NEW p \in Pids,
             ClosesInherited(p) \/ InstallsHandler(p) \/ Continues(p) \/ EntersWait(p)
             \/ ClearsSlot(p)
      PROVE  RunTypes'
  BY <1>5 DEF ClosesInherited, InstallsHandler, Continues, EntersWait, ClearsSlot, Goes, Looks,
     clientVars
<1>6. ASSUME NEW p \in Pids, Ends(p) PROVE RunTypes'
  BY <1>6 DEF Ends, Goes
<1>7. ASSUME NEW p \in Pids, Wakes(p) PROVE RunTypes'
  BY <1>7 DEF Wakes, Goes, clientVars
<1>8. ASSUME NEW p \in Pids, ReadsText(p) \/ SeesClientGone(p) PROVE RunTypes'
  <2>1. CASE ReadsText(p)
    <3>1. /\ cpc' = [cpc EXCEPT ![p] = "loop"]
          /\ typed' = [typed EXCEPT ![p] = IF @ > RECV_CAP THEN @ - RECV_CAP ELSE 0]
          /\ UNCHANGED <<stop_child, cready, cevents, gone, clients>>
      BY <2>1 DEF ReadsText, Goes
    <3>2. typed[p] > RECV_CAP => typed[p] - RECV_CAP \in 0 .. Chunks
      OBVIOUS
    <3>3. typed' \in [Pids -> 0 .. Chunks]
      BY <3>1, <3>2
    <3> QED
      BY <3>1, <3>3
  <2>2. CASE SeesClientGone(p)
    <3>1. /\ cpc' = [cpc EXCEPT ![p] = "loop"] /\ stop_child' = [stop_child EXCEPT ![p] = TRUE]
          /\ UNCHANGED <<cready, cevents, typed, gone, clients>>
      BY <2>2 DEF SeesClientGone, Goes, Stops, clientVars
    <3> QED
      BY <3>1
  <2> QED
    BY <1>8, <2>1, <2>2
<1>9. ASSUME NEW p \in Pids, ReadsNumber(p) \/ SeesServerGone(p) PROVE RunTypes'
  <2>1. /\ cevents' = [cevents EXCEPT ![p] = @ \ {"pipe"}]
        /\ stop_child' = stop_child \/ stop_child' = [stop_child EXCEPT ![p] = TRUE]
        /\ UNCHANGED <<cpc, cready, typed, gone, clients>>
    BY <1>9 DEF ReadsNumber, SeesServerGone, Looks, Stops, clientVars
  <2> QED
    BY <2>1
<1>10. ASSUME NEW p \in Pids, IsTermed(p) PROVE RunTypes'
  BY <1>10 DEF IsTermed, Goes, Stops, clientVars
<1>11. ASSUME NEW p \in Pids, Types(p) \/ Leaves(p) PROVE RunTypes'
  <2>1. CASE Types(p)
    <3>1. /\ typed[p] < Chunks /\ typed' = [typed EXCEPT ![p] = @ + 1]
          /\ cready' = [cready EXCEPT ![p] = @ \cup {"conn"}]
          /\ UNCHANGED <<cpc, stop_child, cevents, gone, clients>>
      BY <2>1 DEF Types
    <3> QED
      BY <3>1
  <2>2. CASE Leaves(p)
    <3>1. /\ gone' = [gone EXCEPT ![p] = TRUE]
          /\ cready' = [cready EXCEPT ![p] = @ \cup {"conn"}]
          /\ UNCHANGED <<cpc, stop_child, cevents, typed, clients>>
      BY <2>2 DEF Leaves
    <3> QED
      BY <3>1
  <2> QED
    BY <1>11, <2>1, <2>2
<1>12. CASE Connect
  BY <1>12 DEF Connect, runVars, clientVars
<1>13. CASE Kills \/ (\E s \in Signal : Handles(s)) \/ UNCHANGED sysVars
  BY <1>13 DEF Kills, Handles, sysVars, runVars, clientVars
<1> QED
  BY <1>1, <1>2, <1>3, <1>4, <1>5, <1>6, <1>7, <1>8, <1>9, <1>10, <1>11, <1>12, <1>13
  DEF SysNext, SysServer, Runs

\* All variables of the service keep their types.
THEOREM SysTypeCorrect == SysSpec => []SysTypeOK
<1>1. SysInit => RunTypes
  BY SystemAssumption DEF SysInit, RunTypes
<1>2. TypeOK /\ RunTypes => SysTypeOK
  BY DEF SysTypeOK, RunTypes
<1>3. SysSpec => []TypeOK
  BY ServiceIsChatMain, TypeCorrect, PTL
<1> QED
  BY <1>1, <1>2, <1>3, RunTypesStep, PTL DEF SysSpec

-----------------------------------------------------------------------------
(* What ChatMain promises, promised of the service.                         *)

\* With run_child itself for children, the tables and descriptors stay in
\* step, kill() finds its own, dead children stay announced and the roster is
\* kept.  Under SystemAssumption, which excludes a failing accept() or fork()
\* and gives the server two descriptors more than it has users, the listening
\* socket is never deaf and the assertion of line 270 holds.
THEOREM WholeService ==
  SysSpec => /\ []TableConsistent /\ []ChannelsMatch /\ []SlotAtOrAboveIndex
             /\ []KillOnlyOwn /\ []NoSelfNotify /\ []NeverDeaf /\ []NoAbort
             /\ StaysAnnounced /\ RosterSpec
<1>1. Faults = {} /\ FD_LIMIT >= USER_LIMIT + 2
  BY SystemAssumption
<1>2. Spec => []NeverDeaf /\ []NoAbort
  <2>1. "fork" \notin Faults
    BY <1>1
  <2> QED
    BY <1>1, <2>1, NeverDeafCorrect, NoAbortCorrect, PTL
<1> QED
  BY <1>2, ServiceIsChatMain, TableConsistentCorrect, ChannelsMatchCorrect, SlotCorrect,
     KillOnlyOwnCorrect, NoSelfNotifyCorrect, StaysAnnouncedCorrect, RosterCorrect, PTL

-----------------------------------------------------------------------------
(* A child is told of the ends it must see.                                 *)

\* A child that waits has looked at all of its last batch.
WaitsWithNothing == \A p \in Pids : cpc[p] \in {"enter", "wait"} => cevents[p] = {}

\* What run_child's steps do to the events a child has yet to look at.
LEMMA ChildLoop ==
  ASSUME RunTypes, WaitsWithNothing, [SysNext]_sysVars, NEW p \in Pids,
         ~Forks(p), ~Ends(p), ~Wakes(p), ~ClearsSlot(p), ~ReadsText(p), ~SeesClientGone(p),
         ~ReadsNumber(p), ~SeesServerGone(p)
  PROVE  /\ cready[p] \subseteq cready'[p] /\ cevents'[p] = cevents[p]
         /\ stop_child[p] => stop_child'[p]
         /\ cpc[p] = "recv" => cpc'[p] = "recv"
         /\ cpc'[p] \in {"enter", "wait"} => cevents[p] = {}
<1> DEFINE Goal == /\ cready[p] \subseteq cready'[p] /\ cevents'[p] = cevents[p]
                   /\ stop_child[p] => stop_child'[p]
                   /\ cpc[p] = "recv" => cpc'[p] = "recv"
                   /\ cpc'[p] \in {"enter", "wait"} => cevents[p] = {}
<1> USE DEF RunTypes, WaitsWithNothing, runVars, clientVars
<1>1. CASE SysServer
  <2>1. CASE Alone
    BY <2>1 DEF Alone
  <2>2. CASE Returns
    BY <2>2 DEF Returns
  <2>3. ASSUME NEW q \in Pids, Forks(q) PROVE Goal
    <3>1. PICK S \in {{"conn"}, {}} :
            /\ q # p /\ cready' = [cready EXCEPT ![q] = S]
            /\ cpc' = [cpc EXCEPT ![q] = "fork"]
            /\ stop_child' = [stop_child EXCEPT ![q] = FALSE]
            /\ cevents' = [cevents EXCEPT ![q] = {}]
      BY <2>3 DEF Forks
    <3> QED
      BY <3>1
  <2>4. ASSUME NEW fd \in Fds, Relays(fd) PROVE Goal
    BY <2>4 DEF Relays
  <2> QED
    BY <1>1, <2>1, <2>2, <2>3, <2>4 DEF SysServer
<1>2. ASSUME NEW q \in Pids, Runs(q), q = p PROVE Goal
  BY <1>2 DEF Runs, ClosesInherited, InstallsHandler, Continues, EntersWait, At, Goes
<1>3. ASSUME NEW q \in Pids, Runs(q), q # p PROVE Goal
  <2>1. CASE ClosesInherited(q) \/ InstallsHandler(q) \/ Continues(q) \/ EntersWait(q)
    BY <1>3, <2>1 DEF ClosesInherited, InstallsHandler, Continues, EntersWait, Goes
  <2>2. CASE Ends(q)
    BY <1>3, <2>2 DEF Ends, Goes
  <2>3. CASE Wakes(q)
    BY <1>3, <2>3 DEF Wakes, Goes
  <2>4. CASE ClearsSlot(q) \/ ReadsText(q) \/ SeesClientGone(q)
    BY <1>3, <2>4 DEF ClearsSlot, ReadsText, SeesClientGone, Goes, Stops, Looks
  <2>5. CASE ReadsNumber(q) \/ SeesServerGone(q)
    BY <1>3, <2>5 DEF ReadsNumber, SeesServerGone, Stops, Looks
  <2> QED
    BY <1>3, <2>1, <2>2, <2>3, <2>4, <2>5 DEF Runs
<1>4. ASSUME NEW q \in Pids, IsTermed(q) PROVE Goal
  BY <1>4 DEF IsTermed, Goes, Stops
<1>5. ASSUME NEW q \in Pids, Types(q) \/ Leaves(q) PROVE Goal
  BY <1>5 DEF Types, Leaves
<1>6. CASE Connect \/ Kills \/ (\E s \in Signal : Handles(s)) \/ UNCHANGED sysVars
  BY <1>6 DEF Connect, Kills, Handles, sysVars
<1> QED
  BY <1>1, <1>2, <1>3, <1>4, <1>5, <1>6 DEF SysNext

\* epoll_wait() overwrites the batch only when there is nothing left of it.
LEMMA WaitsStep == RunTypes /\ WaitsWithNothing /\ [SysNext]_sysVars => WaitsWithNothing'
<1> SUFFICES ASSUME RunTypes, WaitsWithNothing, [SysNext]_sysVars, NEW p \in Pids
             PROVE  cpc'[p] \in {"enter", "wait"} => cevents'[p] = {}
  BY DEF WaitsWithNothing
<1>1. CASE Forks(p) \/ Ends(p) \/ Wakes(p) \/ ClearsSlot(p) \/ ReadsText(p) \/ SeesClientGone(p)
  BY <1>1 DEF Forks, Ends, Wakes, ClearsSlot, ReadsText, SeesClientGone, Goes, RunTypes
<1>2. CASE ReadsNumber(p) \/ SeesServerGone(p)
  BY <1>2 DEF ReadsNumber, SeesServerGone, Looks, At, RunTypes, clientVars
<1> QED
  BY <1>1, <1>2, ChildLoop

\* What holds of the loop of every child.
LEMMA LoopInvariant == SysSpec => [](RunTypes /\ WaitsWithNothing)
<1>1. SysInit => RunTypes /\ WaitsWithNothing
  BY SystemAssumption DEF SysInit, RunTypes, WaitsWithNothing
<1> QED
  BY <1>1, RunTypesStep, WaitsStep, PTL DEF SysSpec

\* Only when main() returns does the server leave its loop.
LEMMA OnlyReturnsLeaves ==
  ASSUME [SysNext]_sysVars, ~Returns
  PROVE  mpc' = mpc
<1> USE DEF loopVars, mainVars
<1>1. CASE Alone
  BY <1>1 DEF Alone, EpollWait, AcceptFails, Reject, ReadSignals, Reap, ReapEnd, Terminate,
     RelayNothing, Accepts, Handling
<1>2. CASE (\E p \in Pids : Forks(p)) \/ \E fd \in Fds : Relays(fd)
  BY <1>2 DEF Forks, Admit, Relays, Relay
<1>3. ASSUME NEW p \in Pids, Runs(p) PROVE mpc' = mpc
  BY <1>3 DEF Runs, ClosesInherited, InstallsHandler, Continues, Ends, EntersWait, Wakes,
     ClearsSlot, ReadsText, SeesClientGone, ReadsNumber, SeesServerGone, ChildExits,
     ChildNotifies, ChildReads, vars
<1>4. ASSUME NEW p \in Pids, IsTermed(p) \/ Types(p) \/ Leaves(p) PROVE mpc' = mpc
  BY <1>4 DEF IsTermed, ChildSignalled, Types, Leaves, vars
<1>5. CASE Connect \/ Kills \/ (\E s \in Signal : Handles(s)) \/ UNCHANGED sysVars
  BY <1>5 DEF Connect, ClientConnects, Kills, Interrupt, Handles, sig_handler, sysVars, vars
<1> QED
  BY <1>1, <1>2, <1>3, <1>4, <1>5 DEF SysNext, SysServer

\* Only the client, recv() and the child's start and end change what waits for it.
LEMMA ClientKept ==
  ASSUME RunTypes, [SysNext]_sysVars, NEW p \in Pids,
         ~Forks(p), ~Ends(p), ~ReadsText(p), ~Types(p), ~Leaves(p)
  PROVE  gone'[p] = gone[p] /\ typed'[p] = typed[p]
<1> DEFINE Goal == gone'[p] = gone[p] /\ typed'[p] = typed[p]
<1> USE DEF RunTypes, runVars, clientVars
<1>1. CASE Alone \/ Returns \/ \E fd \in Fds : Relays(fd)
  BY <1>1 DEF Alone, Returns, Relays
<1>2. ASSUME NEW q \in Pids, Forks(q) PROVE Goal
  <2>1. q # p
    BY <1>2
  <2>2. PICK n \in 0 .. Chunks, left \in BOOLEAN :
          /\ n = 0 \/ q \in Talkers
          /\ typed' = [typed EXCEPT ![q] = n]
          /\ gone' = [gone EXCEPT ![q] = left]
          /\ cready' = [cready EXCEPT ![q] = IF n > 0 \/ left THEN {"conn"} ELSE {}]
    BY <1>2, Zenon DEF Forks
  <2> QED
    BY <2>1, <2>2
<1>3. ASSUME NEW q \in Pids, Ends(q) PROVE Goal
  BY <1>3 DEF Ends
<1>4. ASSUME NEW q \in Pids, ReadsText(q) PROVE Goal
  <2>1. PICK n : q # p /\ typed' = [typed EXCEPT ![q] = n] /\ UNCHANGED gone
    BY <1>4 DEF ReadsText
  <2> QED
    BY <2>1
<1>5. ASSUME NEW q \in Pids, Runs(q), ~Ends(q), ~ReadsText(q) PROVE Goal
  BY <1>5 DEF Runs, ClosesInherited, InstallsHandler, Continues, EntersWait, Wakes,
     ClearsSlot, SeesClientGone, ReadsNumber, SeesServerGone
<1>6. ASSUME NEW q \in Pids, Types(q) \/ Leaves(q) PROVE Goal
  BY <1>6 DEF Types, Leaves
<1>7. ASSUME NEW q \in Pids, IsTermed(q) PROVE Goal
  BY <1>7 DEF IsTermed
<1>8. CASE Connect \/ Kills \/ (\E s \in Signal : Handles(s)) \/ UNCHANGED sysVars
  BY <1>8 DEF Connect, Kills, Handles, sysVars
<1> QED
  BY <1>1, <1>2, <1>3, <1>4, <1>5, <1>6, <1>7, <1>8 DEF SysNext, SysServer

\* Only Forks makes a process a running child.
LEMMA OnlyForksStarts ==
  ASSUME Tables, [SysNext]_sysVars, NEW p \in Pids, ~Forks(p), proc'[p] = "run"
  PROVE  proc[p] = "run"
<1>t. proc \in [Pids -> {"free", "run", "zombie"}]
  BY DEF Tables, TypeOK
<1>1. ASSUME NEW q \in Pids, Reap(q) \/ ChildExits(q) PROVE proc[p] = "run"
  BY <1>1, <1>t DEF Reap, ChildExits
<1>2. ASSUME NEW q \in Pids, Forks(q) PROVE proc[p] = "run"
  BY <1>2, <1>t DEF Forks, Admit
<1>3. CASE UNCHANGED proc
  BY <1>3
<1>4. CASE SysServer
  BY <1>1, <1>2, <1>3, <1>4 DEF SysServer, Alone, Returns, Relays, EpollWait, Exit, AcceptFails,
     Reject, ReadSignals, ReapEnd, Terminate, Relay, RelayNothing, kernelVars, childVars
<1>5. ASSUME NEW q \in Pids, Runs(q) PROVE proc[p] = "run"
  BY <1>1, <1>3, <1>5 DEF Runs, ClosesInherited, InstallsHandler, Continues, Ends, EntersWait,
     Wakes, ClearsSlot, ReadsText, SeesClientGone, ReadsNumber, SeesServerGone, ChildNotifies,
     ChildReads, vars, childVars
<1>6. ASSUME NEW q \in Pids, IsTermed(q) \/ Types(q) \/ Leaves(q) PROVE proc[p] = "run"
  BY <1>3, <1>6 DEF IsTermed, ChildSignalled, Types, Leaves, vars
<1>7. CASE Connect \/ Kills \/ (\E s \in Signal : Handles(s)) \/ UNCHANGED sysVars
  BY <1>3, <1>7 DEF Connect, ClientConnects, Kills, Interrupt, Handles, sig_handler, sysVars, vars,
     childVars
<1> QED
  BY <1>4, <1>5, <1>6, <1>7 DEF SysNext

\* A child that outlives the server has the end of the socketpair before it,
\* or has seen it.
OrphanNotified ==
  mpc = "exit" =>
    \A p \in Pids : proc[p] = "run" => stop_child[p] \/ "pipe" \in cready[p] \cup cevents[p]

\* The safe part of OrphanEnds, for socketpairs of any size: no number that
\* is still queued takes the place of the end of file (lines 155 to 174).
THEOREM OrphanNotifiedAlways == SysSpec => []OrphanNotified
<1>1. SysInit => OrphanNotified
  BY DEF SysInit, Init, OrphanNotified
<1>2. /\ Tables /\ Stopping /\ Quiet /\ RunTypes /\ WaitsWithNothing /\ OrphanNotified
      /\ [SysNext]_sysVars
      => OrphanNotified'
  <2> SUFFICES ASSUME Tables, Stopping, Quiet, RunTypes, WaitsWithNothing, OrphanNotified,
                      [SysNext]_sysVars, mpc' = "exit", NEW p \in Pids, proc'[p] = "run"
               PROVE  stop_child'[p] \/ "pipe" \in cready'[p] \cup cevents'[p]
    BY DEF OrphanNotified
  <2>1. CASE Returns
    BY <2>1 DEF Returns, Exit, kernelVars, childVars, RunTypes
  <2>2. CASE ~Returns
    <3>1. mpc = "exit" /\ proc[p] = "run"
      <4>1. mpc' = mpc
        BY <2>2, OnlyReturnsLeaves
      <4>2. \A q \in Pids : ~Admit(q)
        BY <4>1 DEF Admit, Accepts, Handling
      <4>3. \A q \in Pids : ~Reap(q)
        BY <4>1 DEF Reap, AtSignal
      <4> QED
        BY <4>1, <4>2, <4>3, SysStep, ProcessLife
    <3>2. down[p] = << >>
      BY <3>1 DEF Stopping, Quiet
    <3>3. stop_child[p] \/ "pipe" \in cready[p] \cup cevents[p]
      BY <3>1 DEF OrphanNotified
    <3>4. CASE Ends(p)
      BY <3>4, <3>1 DEF Ends, ChildExits, Tables, TypeOK
    <3>5. CASE Forks(p)
      BY <3>5, <3>1 DEF Forks, Admit
    <3>6. CASE Wakes(p)
      <4>1. /\ cevents' = [cevents EXCEPT ![p] = cready[p] \cap Readable(p)] /\ cevents[p] = {}
            /\ UNCHANGED stop_child
        BY <3>6 DEF Wakes, At, WaitsWithNothing
      <4>2. "pipe" \in Readable(p)
        BY <3>1 DEF Readable
      <4> QED
        BY <3>3, <4>1, <4>2 DEF RunTypes
    <3>7. CASE ClearsSlot(p) \/ ReadsText(p) \/ SeesClientGone(p)
      BY <3>3, <3>7 DEF ClearsSlot, ReadsText, SeesClientGone, Looks, Stops, RunTypes
    <3>8. CASE ReadsNumber(p)
      BY <3>2, <3>8 DEF ReadsNumber
    <3>9. CASE SeesServerGone(p)
      BY <3>9 DEF SeesServerGone, Stops, RunTypes
    <3> QED
      BY <3>3, <3>4, <3>5, <3>6, <3>7, <3>8, <3>9, ChildLoop
  <2> QED
    BY <2>1, <2>2
<1>3. SysSpec => []Tables /\ []Stopping /\ []Quiet
  BY ServiceIsChatMain, TablesCorrect, StoppingInvariant, StoppedIsQuiet, PTL
<1> QED
  BY <1>1, <1>2, <1>3, LoopInvariant, PTL DEF SysSpec

\* The safe part of LeaverEnds: no step but the one recv() that leaves a rest
\* takes away the event, or the read, by which a child will learn of its
\* client's text and end (lines 112 to 138).
THEOREM StaysHeardCorrect == SysSpec => StaysHeard
<1>1. ASSUME Tables, RunTypes, WaitsWithNothing, [SysNext]_sysVars, NEW p \in Pids,
             Heard(p), ~LeavesRest(p)
      PROVE  Heard(p)'
  <2> SUFFICES ASSUME proc'[p] = "run", typed'[p] > 0 \/ gone'[p], ~stop_child'[p]
               PROVE  "conn" \in cready'[p] \cup cevents'[p] \/ cpc'[p] = "recv"
    BY DEF Heard
  <2> DEFINE Goal == "conn" \in cready'[p] \cup cevents'[p] \/ cpc'[p] = "recv"
  <2> USE <1>1 DEF RunTypes
  <2>1. CASE Forks(p)
    <3>1. PICK n \in 0 .. Chunks, left \in BOOLEAN :
            /\ typed' = [typed EXCEPT ![p] = n]
            /\ gone' = [gone EXCEPT ![p] = left]
            /\ cready' = [cready EXCEPT ![p] = IF n > 0 \/ left THEN {"conn"} ELSE {}]
      BY <2>1 DEF Forks
    <3>2. n > 0 \/ left
      BY <3>1
    <3>3. cready'[p] = {"conn"}
      BY <3>1, <3>2
    <3> QED
      BY <3>3
  <2>2. CASE Types(p) \/ Leaves(p)
    BY <2>2 DEF Types, Leaves
  <2>3. CASE Ends(p)
    BY <2>3 DEF Ends, ChildExits, Tables, TypeOK
  <2>4. CASE ReadsText(p)
    <3>1. /\ cpc[p] = "recv" /\ typed[p] > 0 /\ UNCHANGED gone
          /\ typed' = [typed EXCEPT ![p] = IF @ > RECV_CAP THEN @ - RECV_CAP ELSE 0]
      BY <2>4 DEF ReadsText, At
    <3>2. ~(typed[p] > RECV_CAP) /\ ~gone[p]
      BY <3>1 DEF LeavesRest
    <3>3. typed'[p] = 0
      BY <3>1, <3>2
    <3> QED
      BY <3>1, <3>2, <3>3
  <2>5. ASSUME ~Forks(p), ~Types(p), ~Leaves(p), ~Ends(p), ~ReadsText(p) PROVE Goal
    <3>1. proc[p] = "run"
      BY <2>5, OnlyForksStarts
    <3>2. typed[p] > 0 \/ gone[p]
      BY <2>5, ClientKept
    <3>3. "conn" \in cready[p] \cup cevents[p] \/ cpc[p] = "recv" \/ stop_child[p]
      BY <3>1, <3>2 DEF Heard
    <3>4. CASE Wakes(p)
      <4>1. /\ cpc[p] = "wait" /\ cevents' = [cevents EXCEPT ![p] = cready[p] \cap Readable(p)]
            /\ cevents[p] = {} /\ UNCHANGED stop_child
        BY <3>4 DEF Wakes, At, WaitsWithNothing
      <4>2. "conn" \in Readable(p)
        BY <3>2 DEF Readable
      <4> QED
        BY <3>3, <4>1, <4>2
    <3>5. CASE ClearsSlot(p)
      BY <3>5 DEF ClearsSlot, Goes
    <3>6. CASE SeesClientGone(p) \/ SeesServerGone(p)
      BY <3>6 DEF SeesClientGone, SeesServerGone, Stops
    <3>7. CASE ReadsNumber(p)
      BY <3>3, <3>7 DEF ReadsNumber, Looks
    <3> QED
      BY <2>5, <3>3, <3>4, <3>5, <3>6, <3>7, ChildLoop
  <2> QED
    BY <2>1, <2>2, <2>3, <2>4, <2>5
<1>2. Tables /\ RunTypes /\ WaitsWithNothing /\ [SysNext]_sysVars
      => [\A p \in Pids : Heard(p) => Heard(p)' \/ LeavesRest(p)]_sysVars
  BY <1>1
<1>3. SysSpec => []Tables
  BY ServiceIsChatMain, TablesCorrect, PTL
<1> QED
  BY <1>2, <1>3, LoopInvariant, PTL DEF SysSpec, StaysHeard

=============================================================================
