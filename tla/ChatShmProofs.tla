---------------------------- MODULE ChatShmProofs ---------------------------
(***************************************************************************)
(* Proofs about the shared memory of the chat service: who may find his    *)
(* own text announced to him, and how long a slot stays blank.             *)
(***************************************************************************)
EXTENDS ChatShm, ChatSystemProofs

\* The shared memory adds to the service and takes nothing from it.
LEMMA ShmStep == [ShmNext]_shmVars => [SysNext]_sysVars
BY DEF ShmNext, ShmServer, ShmForks, ShmRuns, ShmClears, ShmReadsText, ShmReadsNumber, ShmEnds,
   Untouched, SysNext, SysServer, Runs, shmVars

\* What holds of the service holds of it with its shared memory.
LEMMA ShmIsSys == ShmSpec => SysSpec
BY ShmStep, PTL DEF ShmSpec, ShmInit, SysSpec

-----------------------------------------------------------------------------
(* The invariant.                                                           *)

SlotTypes ==
  /\ shm \in [Slots -> [by : Pids \cup {NoPid}, blank : BOOLEAN]]
  /\ unseen \in [Pids -> SUBSET Pids]
  /\ shared \subseteq Pids

\* What the steps of the service alone are known to keep.
Known == Tables /\ SlotAtOrAboveIndex /\ RunTypes

\* Only a child that runs has numbers waiting for it.
OnlyRunningRead == \A p \in Pids : proc[p] # "run" => down[p] = << >>

\* A child outside shared has its slot to itself, and no number on its way
\* to it names that slot.
SlotToItself ==
  \A p \in Unreaped \ shared :
    /\ \A q \in Unreaped \ {p} : slot[q] # slot[p]
    /\ \A k \in DOMAIN down[p] : down[p][k].idx # slot[p]

\* A child has written its own slot only.
OwnSlotOnly ==
  \A p \in Unreaped, k \in Slots : shm[k].by = p => k = slot[p]

SlotInv == SlotTypes /\ OnlyRunningRead /\ SlotToItself /\ OwnSlotOnly /\ BlankIsBrief

\* No process runs at first, and nothing was written.
LEMMA InitSlotInv == ShmInit => SlotInv
<1> SUFFICES ASSUME ShmInit PROVE SlotInv
  OBVIOUS
<1> USE ChatAssumption DEF ShmInit, SysInit, Init
<1>1. Unreaped = {} /\ \A p \in Pids : proc[p] = "free" /\ down[p] = << >>
  BY DEF Unreaped
<1>2. SlotTypes
  BY DEF SlotTypes, Slots, Nobody
<1> QED
  BY <1>1, <1>2 DEF SlotInv, OnlyRunningRead, SlotToItself, OwnSlotOnly, BlankIsBrief

\* The steps that neither fork nor reap a child, and touch neither a slot
\* nor a number on its way.
Elsewhere ==
  /\ UNCHANGED <<proc, slot, down, shm, slotVars>>
  /\ \A p \in Pids : proc[p] = "run" /\ (cpc[p] = "recv" \/ stop_child[p])
                     => cpc'[p] = "recv" \/ stop_child'[p]

\* They keep the invariant.
LEMMA ElsewhereKeeps == SlotInv /\ Elsewhere => SlotInv'
BY DEF SlotInv, SlotTypes, OnlyRunningRead, SlotToItself, OwnSlotOnly, BlankIsBrief, Elsewhere,
   Unreaped, slotVars

\* All steps but those named are such steps.
LEMMA OtherShmSteps ==
  ASSUME Known, [ShmNext]_shmVars,
         \A p \in Pids : /\ ~ShmForks(p) /\ ~ShmClears(p) /\ ~ShmReadsText(p)
                         /\ ~ShmReadsNumber(p) /\ ~ShmEnds(p)
                         /\ ~(Alone /\ Reap(p) /\ UNCHANGED <<shm, slotVars>>)
                         /\ ~(Untouched(p) /\ SeesClientGone(p)),
         \A fd \in Fds : ~(Relays(fd) /\ UNCHANGED <<shm, slotVars>>)
  PROVE  Elsewhere
<1> USE DEF Elsewhere, childVars, pipeVars, kernelVars, runVars, clientVars, slotVars
<1>1. CASE Alone /\ UNCHANGED <<shm, slotVars>>
  <2>1. UNCHANGED <<proc, slot, down>>
    BY <1>1 DEF Alone, EpollWait, AcceptFails, Reject, ReadSignals, ReapEnd, Terminate, RelayNothing
  <2> QED
    BY <1>1, <2>1 DEF Alone
<1>2. CASE Returns /\ UNCHANGED <<shm, slotVars>>
  BY <1>2 DEF Returns, Exit
<1>3. ASSUME NEW p \in Pids, Untouched(p) PROVE Elsewhere
  <2>1. UNCHANGED <<shm, slotVars>>
    BY <1>3 DEF Untouched
  <2>2. CASE ClosesInherited(p) \/ InstallsHandler(p) \/ Continues(p) \/ EntersWait(p) \/ Wakes(p)
    <3>1. /\ UNCHANGED <<vars, stop_child>> /\ cpc[p] # "recv"
          /\ \E where \in {"closed", "loop", "enter", "wait"} : cpc' = [cpc EXCEPT ![p] = where]
      BY <2>2 DEF ClosesInherited, InstallsHandler, Continues, EntersWait, Wakes, At, Goes
    <3> QED
      BY <2>1, <3>1 DEF Known, RunTypes, vars
  <2>3. CASE SeesServerGone(p)
    BY <2>1, <2>3 DEF SeesServerGone, Stops, Known, RunTypes, vars
  <2> QED
    BY <1>3, <2>2, <2>3 DEF Untouched
<1>4. ASSUME NEW p \in Pids, IsTermed(p), UNCHANGED <<shm, slotVars>> PROVE Elsewhere
  <2>1. UNCHANGED <<proc, slot, down>>
    BY <1>4 DEF IsTermed, ChildSignalled
  <2>2. \/ UNCHANGED <<cpc, stop_child>>
        \/ UNCHANGED cpc /\ stop_child' = [stop_child EXCEPT ![p] = TRUE]
        \/ /\ cpc[p] = "wait" /\ stop_child' = [stop_child EXCEPT ![p] = TRUE]
           /\ cpc' = [cpc EXCEPT ![p] = "loop"]
    BY <1>4 DEF IsTermed, Stops, Goes
  <2> QED
    BY <1>4, <2>1, <2>2 DEF Known, RunTypes
<1>5. ASSUME NEW p \in Pids, Types(p) \/ Leaves(p), UNCHANGED <<shm, slotVars>> PROVE Elsewhere
  BY <1>5 DEF Types, Leaves, vars
<1>6. CASE (Connect \/ Kills) /\ UNCHANGED <<shm, slotVars>>
  BY <1>6 DEF Connect, Kills, ClientConnects, Interrupt
<1>7. ASSUME NEW s \in Signal, Handles(s), UNCHANGED <<shm, slotVars>> PROVE Elsewhere
  BY <1>7 DEF Handles, sig_handler
<1>8. CASE UNCHANGED shmVars
  BY <1>8 DEF shmVars, sysVars, vars
<1> QED
  BY <1>1, <1>2, <1>3, <1>4, <1>5, <1>6, <1>7, <1>8 DEF ShmNext, ShmServer, ShmRuns

\* A new child finds mates, or none, and no number waiting for it.
LEMMA ForksKeeps ==
  ASSUME SlotInv, Known, NEW p \in Pids, ShmForks(p)
  PROVE  SlotInv'
<1> USE DEF SlotInv, Known, Tables, TypeOK
<1> DEFINE mates == {q \in Unreaped \ {p} : slot[q] = slot'[p]}
<1>1. /\ proc[p] = "free" /\ proc' = [proc EXCEPT ![p] = "run"]
      /\ slot' = [slot EXCEPT ![p] = ChildIdx]
      /\ down' = down /\ down[p] = << >>
  BY DEF ShmForks, Forks, Admit, OnlyRunningRead, pipeVars
<1>2. /\ shm' = [k \in Slots |-> IF shm[k].by = p THEN [shm[k] EXCEPT !.by = NoPid] ELSE shm[k]]
      /\ unseen' = [q \in Pids |-> IF q = p THEN {} ELSE unseen[q] \ {p}]
      /\ shared' = (shared \ {p}) \cup mates \cup (IF mates = {} THEN {} ELSE {p})
  BY DEF ShmForks, SlotMates
<1>3. /\ cpc' = [cpc EXCEPT ![p] = "fork"] /\ stop_child' = [stop_child EXCEPT ![p] = FALSE]
  BY DEF ShmForks, Forks
<1>4. /\ Unreaped' = Unreaped \cup {p} /\ p \notin Unreaped
      /\ \A q \in Unreaped : slot'[q] = slot[q]
  BY <1>1 DEF Unreaped
<1>w. ASSUME NEW k \in Slots
      PROVE  /\ shm'[k] \in [by : Pids \cup {NoPid}, blank : BOOLEAN]
             /\ shm'[k].by # p
             /\ shm'[k].by \in Pids => shm'[k] = shm[k]
  <2>1. shm[k] \in [by : Pids \cup {NoPid}, blank : BOOLEAN]
    BY DEF SlotTypes
  <2>2. CASE shm[k].by = p
    <3>1. shm'[k] = [by |-> NoPid, blank |-> shm[k].blank]
      BY <1>2, <2>1, <2>2
    <3>2. shm'[k].by = NoPid /\ NoPid \notin Pids /\ shm[k].blank \in BOOLEAN
      BY <2>1, <3>1, ChatAssumption
    <3> QED
      BY <3>1, <3>2
  <2>3. CASE shm[k].by # p
    BY <1>2, <2>1, <2>3
  <2> QED
    BY <2>2, <2>3
<1>5. SlotTypes'
  <2>1. shm' \in [Slots -> [by : Pids \cup {NoPid}, blank : BOOLEAN]]
    BY <1>2, <1>w
  <2>2. unseen' \in [Pids -> SUBSET Pids] /\ shared' \subseteq Pids
    BY <1>2 DEF SlotTypes, Unreaped
  <2> QED
    BY <2>1, <2>2 DEF SlotTypes
<1>6. OnlyRunningRead'
  BY <1>1 DEF OnlyRunningRead
<1>7. ASSUME NEW q \in Unreaped' \ shared'
      PROVE  /\ \A r \in Unreaped' \ {q} : slot'[r] # slot'[q]
             /\ \A k \in DOMAIN down'[q] : down'[q][k].idx # slot'[q]
  <2>1. CASE q = p
    <3>1. mates = {} /\ down'[q] = << >>
      BY <2>1, <1>1, <1>2
    <3> QED
      BY <2>1, <3>1, <1>4
  <2>2. CASE q # p
    <3>1. q \in Unreaped \ shared /\ q \notin mates
      BY <2>2, <1>2, <1>4
    <3> QED
      BY <2>2, <3>1, <1>1, <1>4 DEF SlotToItself
  <2> QED
    BY <2>1, <2>2
<1>8. OwnSlotOnly'
  <2> SUFFICES ASSUME NEW q \in Unreaped', NEW k \in Slots, shm'[k].by = q PROVE k = slot'[q]
    BY DEF OwnSlotOnly
  <2>1. q # p /\ shm[k].by = q
    BY <1>w DEF Unreaped
  <2> QED
    BY <2>1, <1>4 DEF OwnSlotOnly
<1>9. BlankIsBrief'
  <2> SUFFICES ASSUME NEW q \in Pids, NEW k \in Slots, proc'[q] = "run",
                      shm'[k] = [by |-> q, blank |-> TRUE]
               PROVE  cpc'[q] = "recv" \/ stop_child'[q]
    BY DEF BlankIsBrief
  <2>1. q # p /\ shm[k] = [by |-> q, blank |-> TRUE]
    BY <1>w
  <2> QED
    BY <2>1, <1>1, <1>3 DEF BlankIsBrief, RunTypes
<1> QED
  BY <1>5, <1>6, <1>7, <1>8, <1>9 DEF SlotToItself

\* A child that is reaped gives up its slot.
LEMMA ReapKeeps ==
  ASSUME SlotInv, Known, NEW p \in Pids, Reap(p), Alone, UNCHANGED <<shm, slotVars>>
  PROVE  SlotInv'
<1> USE DEF SlotInv, Known, Tables, TypeOK
<1>1. /\ proc[p] = "zombie" /\ proc' = [proc EXCEPT ![p] = "free"]
      /\ slot' = [slot EXCEPT ![p] = 0] /\ down' = down
      /\ UNCHANGED <<cpc, stop_child, shm, shared, unseen>>
  BY DEF Reap, Zombies, Alone, runVars, slotVars
<1>2. Unreaped' = Unreaped \ {p} /\ \A q \in Unreaped' : slot'[q] = slot[q]
  BY <1>1 DEF Unreaped
<1>3. SlotTypes' /\ OnlyRunningRead' /\ BlankIsBrief'
  BY <1>1 DEF SlotTypes, OnlyRunningRead, BlankIsBrief
<1>4. SlotToItself' /\ OwnSlotOnly'
  BY <1>1, <1>2 DEF SlotToItself, OwnSlotOnly
<1> QED
  BY <1>3, <1>4

\* A relayed number names its sender's slot, and the server knows better
\* than to send it back.
LEMMA RelayKeeps ==
  ASSUME SlotInv, Known, NEW fd \in Fds, Relays(fd), UNCHANGED <<shm, slotVars>>
  PROVE  SlotInv'
<1> USE DEF SlotInv, Known
<1>t. down \in [Pids -> Seq(Notification)]
  BY DEF Tables, TypeOK
<1> DEFINE from == fdtab[fd]
           note == [from |-> from, idx |-> slot[from]]
<1>1. /\ from \in Pids
      /\ down' = [q \in Pids |->
            IF q \in Receivers(fd) /\ proc[q] = "run" /\ Len(down[q]) < PIPE_CAP
            THEN Append(down[q], note) ELSE down[q]]
      /\ UNCHANGED <<proc, slot, cpc, stop_child, shm, shared, unseen>>
  BY DEF Relays, Relay, childVars, slotVars
<1>2. from \in Unreaped /\ from \notin Receivers(fd)
  <2>1. PICK i \in Registered : users[i].pipefd = fd /\ users[i].pid = from
    BY <1>1 DEF Tables, ChannelsMatch
  <2>2. \A j \in Registered : users[j].pid = from => j = i
    BY <2>1 DEF Tables, TableConsistent, NamedByBoth
  <2> QED
    BY <2>1, <2>2 DEF Receivers, Tables, ChannelsMatch, TableConsistent, NamedByBoth
<1>3. Unreaped' = Unreaped
  BY <1>1 DEF Unreaped
<1>4. SlotTypes' /\ OwnSlotOnly' /\ BlankIsBrief'
  BY <1>1, <1>3 DEF SlotTypes, OwnSlotOnly, BlankIsBrief
<1>5. OnlyRunningRead'
  BY <1>1 DEF OnlyRunningRead
<1>6. ASSUME NEW q \in Unreaped \ shared, NEW k \in DOMAIN down'[q]
      PROVE  down'[q][k].idx # slot[q]
  <2>1. down[q] \in Seq(Notification) /\ q \in Pids
    BY <1>t DEF Unreaped
  <2>2. CASE down'[q] = down[q]
    BY <2>2 DEF SlotToItself
  <2>3. CASE down'[q] = Append(down[q], note) /\ q \in Receivers(fd)
    <3>1. slot[from] # slot[q]
      BY <1>2, <2>3 DEF SlotToItself
    <3>2. CASE k = Len(down[q]) + 1
      <4>1. down'[q][k] = note /\ note.idx = slot[from]
        BY <2>1, <2>3, <3>2
      <4> QED
        BY <3>1, <4>1
    <3>3. CASE k # Len(down[q]) + 1
      <4>1. k \in DOMAIN down[q] /\ down'[q][k] = down[q][k]
        BY <2>1, <2>3, <3>3
      <4> QED
        BY <4>1 DEF SlotToItself
    <3> QED
      BY <3>2, <3>3
  <2> QED
    BY <1>1, <2>1, <2>2, <2>3
<1>7. SlotToItself'
  <2>1. ASSUME NEW q \in Unreaped \ shared, NEW r \in Unreaped \ {q} PROVE slot[r] # slot[q]
    BY DEF SlotToItself
  <2>2. UNCHANGED <<slot, shared, Unreaped>>
    BY <1>1, <1>3
  <2> QED
    BY <1>6, <2>1, <2>2 DEF SlotToItself
<1> QED
  BY <1>4, <1>5, <1>7

\* Clearing and refilling its slot, a child writes there and nowhere else;
\* what it leaves blank it refills before it goes on, or it stops.
LEMMA WritesKeep ==
  ASSUME SlotInv, Known, NEW p \in Pids,
         ShmClears(p) \/ ShmReadsText(p) \/ (SeesClientGone(p) /\ UNCHANGED <<shm, slotVars>>)
  PROVE  SlotInv'
<1> USE DEF SlotInv, Known
<1>1. UNCHANGED <<proc, slot, down, shared>> /\ proc[p] = "run"
  BY DEF ShmClears, ClearsSlot, ShmReadsText, ReadsText, SeesClientGone, ChildNotifies,
     Looks, At, slotVars, childVars, vars
<1>2. p \in Unreaped /\ Unreaped' = Unreaped
  BY <1>1 DEF Unreaped
<1>3. slot[p] \in Slots
  BY <1>2, ChatAssumption DEF SlotAtOrAboveIndex, Slots, Tables, TypeOK
<1>4. OnlyRunningRead' /\ SlotToItself'
  BY <1>1, <1>2 DEF OnlyRunningRead, SlotToItself
<1>5. CASE ShmClears(p)
  <2>1. /\ shm' = [shm EXCEPT ![slot[p]] = [by |-> p, blank |-> TRUE]]
        /\ cpc' = [cpc EXCEPT ![p] = "recv"] /\ UNCHANGED <<stop_child, unseen>>
    BY <1>5 DEF ShmClears, Put, ClearsSlot, Goes, slotVars
  <2>2. SlotTypes' /\ OwnSlotOnly' /\ BlankIsBrief'
    BY <1>1, <1>2, <1>3, <2>1 DEF SlotTypes, OwnSlotOnly, BlankIsBrief, RunTypes
  <2> QED
    BY <1>4, <2>2
<1>6. CASE ShmReadsText(p)
  <2>1. /\ shm' = [shm EXCEPT ![slot[p]] = [by |-> p, blank |-> FALSE]]
        /\ unseen' = [unseen EXCEPT ![p] = {q \in Unreaped \ {p} : proc[q] = "run"}]
        /\ cpc' = [cpc EXCEPT ![p] = "loop"] /\ UNCHANGED stop_child
    BY <1>6 DEF ShmReadsText, Put, ReadsText, Goes
  <2>2. SlotTypes'
    BY <1>1, <1>3, <2>1 DEF SlotTypes, Unreaped
  <2>3. OwnSlotOnly'
    BY <1>1, <1>2, <1>3, <2>1 DEF SlotTypes, OwnSlotOnly
  <2>4. ASSUME NEW q \in Pids, NEW k \in Slots, proc[q] = "run", shm'[k] = [by |-> q, blank |-> TRUE]
        PROVE  cpc'[q] = "recv" \/ stop_child'[q]
    <3>1. shm'[k] # [by |-> p, blank |-> FALSE]
      BY <2>4
    <3>2. k # slot[p] /\ shm[k] = [by |-> q, blank |-> TRUE]
      BY <1>3, <2>1, <2>4, <3>1 DEF SlotTypes
    <3>3. q # p
      BY <1>2, <3>2 DEF OwnSlotOnly
    <3> QED
      BY <2>1, <2>4, <3>2, <3>3 DEF BlankIsBrief, RunTypes
  <2>5. BlankIsBrief'
    BY <1>1, <2>4 DEF BlankIsBrief
  <2> QED
    BY <1>4, <2>2, <2>3, <2>5
<1>7. CASE SeesClientGone(p) /\ UNCHANGED <<shm, slotVars>>
  <2>1. /\ cpc' = [cpc EXCEPT ![p] = "loop"] /\ stop_child' = [stop_child EXCEPT ![p] = TRUE]
        /\ UNCHANGED <<shm, unseen>>
    BY <1>7 DEF SeesClientGone, Goes, Stops, slotVars
  <2>2. SlotTypes' /\ OwnSlotOnly' /\ BlankIsBrief'
    BY <1>1, <1>2, <2>1 DEF SlotTypes, OwnSlotOnly, BlankIsBrief, RunTypes
  <2> QED
    BY <1>4, <2>2
<1> QED
  BY <1>5, <1>6, <1>7

\* A child that has read a number has one less to read.
LEMMA ReadsKeeps ==
  ASSUME SlotInv, Known, NEW p \in Pids, ShmReadsNumber(p)
  PROVE  SlotInv'
<1> USE DEF SlotInv, Known
<1>1. /\ proc[p] = "run" /\ down[p] # << >> /\ down' = [down EXCEPT ![p] = Tail(down[p])]
      /\ UNCHANGED <<proc, slot, shared, shm, cpc, stop_child>>
  BY DEF ShmReadsNumber, ReadsNumber, ChildReads, childVars
<1>2. down \in [Pids -> Seq(Notification)]
  BY DEF Tables, TypeOK
<1>3. Unreaped' = Unreaped
  BY <1>1 DEF Unreaped
<1>4. SlotTypes'
  BY <1>1 DEF SlotTypes, ShmReadsNumber
<1>5. OnlyRunningRead' /\ OwnSlotOnly' /\ BlankIsBrief'
  BY <1>1, <1>2, <1>3 DEF OnlyRunningRead, OwnSlotOnly, BlankIsBrief
<1>6. ASSUME NEW q \in Unreaped \ shared, NEW k \in DOMAIN down'[q]
      PROVE  down'[q][k].idx # slot[q]
  <2>1. CASE q = p
    <3>1. down'[q] = Tail(down[q]) /\ down[q] \in Seq(Notification) /\ down[q] # << >>
      BY <1>1, <1>2, <2>1
    <3>2. k + 1 \in DOMAIN down[q] /\ down'[q][k] = down[q][k + 1]
      BY <3>1
    <3> QED
      BY <3>2 DEF SlotToItself
  <2>2. CASE q # p
    BY <1>1, <1>2, <2>2 DEF SlotToItself, Unreaped
  <2> QED
    BY <2>1, <2>2
<1>7. SlotToItself'
  <2>1. ASSUME NEW q \in Unreaped \ shared, NEW r \in Unreaped \ {q} PROVE slot[r] # slot[q]
    BY DEF SlotToItself
  <2>2. UNCHANGED <<slot, shared, Unreaped>>
    BY <1>1, <1>3
  <2> QED
    BY <1>6, <2>1, <2>2 DEF SlotToItself
<1> QED
  BY <1>4, <1>5, <1>7

\* A child that ends keeps its slot until it is reaped.
LEMMA EndsKeeps ==
  ASSUME SlotInv, Known, NEW p \in Pids, ShmEnds(p)
  PROVE  SlotInv'
<1> USE DEF SlotInv, Known
<1>1. /\ proc[p] = "run" /\ proc' = [proc EXCEPT ![p] = "zombie"]
      /\ down' = [down EXCEPT ![p] = << >>]
      /\ cpc' = [cpc EXCEPT ![p] = "none"] /\ stop_child' = [stop_child EXCEPT ![p] = FALSE]
      /\ UNCHANGED <<slot, shared, shm>>
  BY DEF ShmEnds, Ends, ChildExits, Goes
<1>2. /\ down \in [Pids -> Seq(Notification)]
      /\ proc \in [Pids -> {"free", "run", "zombie"}]
  BY DEF Tables, TypeOK
<1>3. Unreaped' = Unreaped
  BY <1>1, <1>2 DEF Unreaped
<1>4. SlotTypes'
  BY <1>1 DEF SlotTypes, ShmEnds
<1>5. OnlyRunningRead' /\ OwnSlotOnly'
  BY <1>1, <1>2, <1>3 DEF OnlyRunningRead, OwnSlotOnly
<1>6. BlankIsBrief'
  BY <1>1, <1>2 DEF BlankIsBrief, RunTypes
<1>7. SlotToItself'
  BY <1>1, <1>2, <1>3 DEF SlotToItself, Unreaped
<1> QED
  BY <1>4, <1>5, <1>6, <1>7

-----------------------------------------------------------------------------
(* The theorems.                                                            *)

\* The invariant of the shared memory, relative to that of the tables.
LEMMA SlotInvStep == SlotInv /\ Known /\ [ShmNext]_shmVars => SlotInv'
<1> SUFFICES ASSUME SlotInv, Known, [ShmNext]_shmVars PROVE SlotInv'
  OBVIOUS
<1>1. ASSUME NEW p \in Pids,
             ShmForks(p) \/ ShmReadsNumber(p) \/ ShmEnds(p) \/ ShmClears(p) \/ ShmReadsText(p)
      PROVE  SlotInv'
  BY <1>1, ForksKeeps, ReadsKeeps, EndsKeeps, WritesKeep
<1>2. ASSUME NEW p \in Pids, Untouched(p), SeesClientGone(p) PROVE SlotInv'
  BY <1>2, WritesKeep DEF Untouched
<1>3. ASSUME NEW p \in Pids, Alone, Reap(p), UNCHANGED <<shm, slotVars>> PROVE SlotInv'
  BY <1>3, ReapKeeps
<1>4. ASSUME NEW fd \in Fds, Relays(fd), UNCHANGED <<shm, slotVars>> PROVE SlotInv'
  BY <1>4, RelayKeeps
<1>5. CASE Elsewhere
  BY <1>5, ElsewhereKeeps
<1> QED
  BY <1>1, <1>2, <1>3, <1>4, <1>5, OtherShmSteps

\* Whatever ChatMain and ChatSystem keep is kept here too.
LEMMA KnownCorrect == ShmSpec => []Known
<1>1. SysSpec => []RunTypes
  <2>1. SysInit => RunTypes
    BY SystemAssumption DEF SysInit, RunTypes
  <2> QED
    BY <2>1, RunTypesStep, PTL DEF SysSpec
<1>2. SysSpec => []Tables /\ []SlotAtOrAboveIndex
  BY ServiceIsChatMain, TablesCorrect, SlotCorrect, PTL
<1>3. Tables /\ SlotAtOrAboveIndex /\ RunTypes => Known
  BY DEF Known
<1> QED
  BY <1>1, <1>2, <1>3, ShmIsSys, PTL

\* The invariant: a child outside shared has its slot to itself and is sent
\* no number of it, and every child writes its own slot only.
THEOREM SlotInvariant == ShmSpec => []SlotInv
BY InitSlotInv, SlotInvStep, KnownCorrect, PTL DEF ShmSpec

\* All variables keep their types.
THEOREM ShmTypeCorrect == ShmSpec => []ShmTypeOK
<1>1. SlotInv /\ SysTypeOK => ShmTypeOK
  BY DEF SlotInv, SlotTypes, ShmTypeOK
<1> QED
  BY <1>1, SlotInvariant, SysTypeCorrect, ShmIsSys, PTL

\* A slot is blank only between memset() and recv(), or for good once the
\* client has gone (lines 126 to 138).
THEOREM BlankIsBriefCorrect == ShmSpec => []BlankIsBrief
<1>1. SlotInv => BlankIsBrief
  BY DEF SlotInv
<1> QED
  BY <1>1, SlotInvariant, PTL

\* With any number of clients, only a child that shares its slot, or did
\* once, sends its client the client's own text (lines 155 to 163).
THEOREM OwnTextIfSharedCorrect == ShmSpec => OwnTextIfShared
<1>1. ASSUME Known, SlotInv, NEW p \in Pids, ReadsNumber(p),
             shm[Head(down[p]).idx] = [by |-> p, blank |-> FALSE]
      PROVE  p \in shared
  <2>1. down[p] \in Seq(Notification) /\ down[p] # << >> /\ proc[p] = "run"
    BY <1>1 DEF ReadsNumber, ChildReads, Known, Tables, TypeOK
  <2>2. p \in Unreaped /\ 1 \in DOMAIN down[p] /\ Head(down[p]) = down[p][1]
    BY <2>1 DEF Unreaped
  <2>3. Head(down[p]).idx \in Slots
    <3>1. Head(down[p]) \in Notification
      BY <2>1
    <3> QED
      BY <3>1 DEF Notification, Slots
  <2>4. CASE p \notin shared
    <3>1. Head(down[p]).idx = slot[p]
      BY <1>1, <2>2, <2>3 DEF SlotInv, OwnSlotOnly
    <3> QED
      BY <1>1, <2>2, <2>4, <3>1 DEF SlotInv, SlotToItself
  <2> QED
    BY <2>4
<1>2. Known /\ SlotInv => [\A p \in Pids :
        ReadsNumber(p) /\ shm[Head(down[p]).idx] = [by |-> p, blank |-> FALSE] => p \in shared]_shmVars
  BY <1>1
<1> QED
  BY <1>2, KnownCorrect, SlotInvariant, PTL DEF OwnTextIfShared

-----------------------------------------------------------------------------
(* What a child's siblings have yet to be told.                             *)

\* Only a child that runs has a text that others have yet to see, others that
\* run; and a child outside shared finds its own text in its slot.
UnseenRuns ==
  \A p \in Pids : \A q \in unseen[p] : q # p /\ proc[p] = "run" /\ proc[q] = "run"
Wrote ==
  \A p \in Pids \ shared : unseen[p] # {} => shm[slot[p]].by = p

TextInv == UnseenRuns /\ Wrote

\* A child that does not end goes on running, with the slot it has.
LEMMA RunsOn ==
  ASSUME Known, [ShmNext]_shmVars, NEW p \in Pids, proc[p] = "run", ~ShmEnds(p)
  PROVE  proc'[p] = "run" /\ slot'[p] = slot[p]
<1>t. /\ proc \in [Pids -> {"free", "run", "zombie"}]
      /\ slot \in [Pids -> 0 .. USER_LIMIT - 1]
  BY DEF Known, Tables, TypeOK
<1>1. ASSUME NEW r \in Pids, ShmForks(r) PROVE proc'[p] = "run" /\ slot'[p] = slot[p]
  BY <1>1, <1>t DEF ShmForks, Forks, Admit
<1>2. ASSUME NEW r \in Pids,
             ShmClears(r) \/ ShmReadsText(r) \/ ShmReadsNumber(r) \/ SeesClientGone(r)
      PROVE  UNCHANGED <<proc, slot>>
  BY <1>2 DEF ShmClears, ClearsSlot, ShmReadsText, ReadsText, ShmReadsNumber, ReadsNumber,
     SeesClientGone, ChildNotifies, ChildReads, childVars, vars
<1>3. ASSUME NEW r \in Pids, ShmEnds(r) PROVE proc'[p] = "run" /\ slot'[p] = slot[p]
  BY <1>3, <1>t DEF ShmEnds, Ends, ChildExits
<1>4. ASSUME NEW r \in Pids, Reap(r) PROVE proc'[p] = "run" /\ slot'[p] = slot[p]
  <2>1. /\ r \in Zombies /\ proc' = [proc EXCEPT ![r] = "free"]
        /\ slot' = [slot EXCEPT ![r] = 0]
    BY <1>4, ReapEffect DEF Known
  <2> QED
    BY <2>1, <1>t DEF Zombies
<1>5. ASSUME NEW fd \in Fds, Relays(fd) PROVE UNCHANGED <<proc, slot>>
  BY <1>5 DEF Relays, Relay, childVars
<1>6. CASE Elsewhere
  BY <1>6 DEF Elsewhere
<1> QED
  BY <1>1, <1>2, <1>3, <1>4, <1>5, <1>6, OtherShmSteps

\* A text is new to others when it is read; after that they only drop out.
LEMMA UnseenFrom ==
  ASSUME Known, SlotTypes, [ShmNext]_shmVars,
         NEW p \in Pids, NEW q \in unseen'[p], ~ShmReadsText(p)
  PROVE  /\ q \in unseen[p] /\ q \in Pids
         /\ ~ShmEnds(p) /\ ~ShmEnds(q) /\ ~ShmForks(p) /\ ~ShmForks(q)
         /\ p \notin shared' => p \notin shared
<1> USE DEF SlotTypes
<1>1. ASSUME NEW r \in Pids, ShmForks(r) \/ ShmEnds(r)
      PROVE  q \in unseen[p] /\ p # r /\ q # r /\ shared \ {r} \subseteq shared'
  <2>1. /\ unseen' = [x \in Pids |-> IF x = r THEN {} ELSE unseen[x] \ {r}]
        /\ shared \ {r} \subseteq shared'
    BY <1>1 DEF ShmForks, ShmEnds
  <2> QED
    BY <2>1
<1>2. ASSUME NEW r \in Pids, ShmReadsText(r) PROVE q \in unseen[p] /\ UNCHANGED shared
  BY <1>2 DEF ShmReadsText
<1>3. ASSUME NEW r \in Pids, ShmReadsNumber(r) PROVE q \in unseen[p] /\ UNCHANGED shared
  BY <1>3 DEF ShmReadsNumber
<1>4. ASSUME UNCHANGED <<unseen, shared>>
      PROVE  q \in unseen[p] /\ (p \notin shared' => p \notin shared)
  BY <1>4
<1>5. q \in unseen[p] /\ (p \notin shared' => p \notin shared)
  BY <1>1, <1>2, <1>3, <1>4, OtherShmSteps DEF ShmClears, Untouched, Elsewhere, slotVars
<1> QED
  BY <1>1, <1>5

\* A child outside shared keeps its slot while others write theirs.
LEMMA TextInvStep == SlotInv /\ Known /\ TextInv /\ [ShmNext]_shmVars => TextInv'
<1> SUFFICES ASSUME SlotInv, Known, TextInv, [ShmNext]_shmVars PROVE TextInv'
  OBVIOUS
<1> USE DEF TextInv
<1>t. /\ shm \in [Slots -> [by : Pids \cup {NoPid}, blank : BOOLEAN]]
      /\ slot \in [Pids -> Slots] /\ SlotTypes /\ unseen \in [Pids -> SUBSET Pids]
  BY DEF SlotInv, SlotTypes, Known, Tables, TypeOK, Slots
<1>r. ASSUME NEW p \in Pids, ShmReadsText(p)
      PROVE  /\ proc[p] = "run" /\ UNCHANGED <<proc, slot>>
             /\ unseen' = [unseen EXCEPT ![p] = {q \in Unreaped \ {p} : proc[q] = "run"}]
             /\ shm' = [shm EXCEPT ![slot[p]] = [by |-> p, blank |-> FALSE]]
  BY <1>r DEF ShmReadsText, ReadsText, At, ChildNotifies, childVars, vars, Put
<1>1. UnseenRuns'
  <2> SUFFICES ASSUME NEW p \in Pids, NEW q \in unseen'[p]
               PROVE  q # p /\ proc'[p] = "run" /\ proc'[q] = "run"
    BY DEF UnseenRuns
  <2>1. CASE ShmReadsText(p)
    BY <2>1, <1>r, <1>t
  <2>2. CASE ~ShmReadsText(p)
    <3>1. q \in unseen[p] /\ q \in Pids /\ ~ShmEnds(p) /\ ~ShmEnds(q)
      BY <1>t, <2>2, UnseenFrom
    <3>2. q # p /\ proc[p] = "run" /\ proc[q] = "run"
      BY <3>1 DEF UnseenRuns
    <3> QED
      BY <3>1, <3>2, RunsOn
  <2> QED
    BY <2>1, <2>2
<1>2. Wrote'
  <2> SUFFICES ASSUME NEW p \in Pids, p \notin shared', NEW q \in unseen'[p]
               PROVE  shm'[slot'[p]].by = p
    BY DEF Wrote
  <2>1. CASE ShmReadsText(p)
    BY <2>1, <1>r, <1>t
  <2>2. CASE ~ShmReadsText(p)
    <3>1. q \in unseen[p] /\ ~ShmEnds(p) /\ ~ShmForks(p) /\ p \notin shared
      BY <1>t, <2>2, UnseenFrom
    <3>2. proc[p] = "run" /\ shm[slot[p]].by = p
      BY <3>1 DEF UnseenRuns, Wrote
    <3>3. slot'[p] = slot[p] /\ slot[p] \in Slots
      BY <3>1, <3>2, RunsOn, <1>t
    <3>4. \A r \in Pids \ {p} : proc[r] = "run" => slot[r] # slot[p]
      BY <3>1, <3>2 DEF SlotInv, SlotToItself, Unreaped
    <3>5. ASSUME NEW r \in Pids, ShmForks(r) PROVE shm'[slot[p]].by = p
      <4>1. shm' = [k \in Slots |-> IF shm[k].by = r THEN [shm[k] EXCEPT !.by = NoPid] ELSE shm[k]]
        BY <3>5 DEF ShmForks
      <4> QED
        BY <3>1, <3>2, <3>3, <3>5, <4>1
    <3>6. ASSUME NEW r \in Pids, ShmClears(r) \/ ShmReadsText(r) PROVE shm'[slot[p]].by = p
      <4>1. proc[r] = "run" /\ \E b \in BOOLEAN : Put(r, b)
        BY <3>6 DEF ShmClears, ClearsSlot, Looks, ShmReadsText, ReadsText, At
      <4>2. PICK b \in BOOLEAN : shm' = [shm EXCEPT ![slot[r]] = [by |-> r, blank |-> b]]
        BY <4>1 DEF Put
      <4>3. CASE r = p
        BY <4>2, <4>3, <3>3, <1>t
      <4>4. CASE r # p
        BY <4>1, <4>2, <4>4, <3>2, <3>3, <3>4, <1>t
      <4> QED
        BY <4>3, <4>4
    <3>7. ASSUME UNCHANGED shm PROVE shm'[slot[p]].by = p
      BY <3>2, <3>7
    <3>8. shm'[slot[p]].by = p
      BY <3>5, <3>6, <3>7, OtherShmSteps
         DEF ShmReadsNumber, ShmEnds, Untouched, Elsewhere
    <3> QED
      BY <3>3, <3>8
  <2> QED
    BY <2>1, <2>2
<1> QED
  BY <1>1, <1>2

\* A number in q's pipe stays there until q reads it or ends.
LEMMA NoteKept ==
  ASSUME Known, [ShmNext]_shmVars, NEW q \in Pids, NEW c,
         ~ShmReadsNumber(q), ~ShmEnds(q), \E k \in DOMAIN down[q] : down[q][k].idx = c
  PROVE  \E k \in DOMAIN down'[q] : down'[q][k].idx = c
<1>t. down \in [Pids -> Seq(Notification)]
  BY DEF Known, Tables, TypeOK
<1> DEFINE Goal == \E k \in DOMAIN down'[q] : down'[q][k].idx = c
<1>1. ASSUME NEW r \in Pids,
             ShmForks(r) \/ ShmClears(r) \/ ShmReadsText(r) \/ SeesClientGone(r) \/ Reap(r)
      PROVE  UNCHANGED down
  BY <1>1 DEF ShmForks, Forks, Admit, ShmClears, ClearsSlot, ShmReadsText, ReadsText,
     ChildNotifies, SeesClientGone, Reap, pipeVars, vars
<1>2. ASSUME NEW r \in Pids, ShmReadsNumber(r) \/ ShmEnds(r) PROVE down'[q] = down[q]
  <2>1. r # q /\ \E x : down' = [down EXCEPT ![r] = x]
    BY <1>2 DEF ShmReadsNumber, ReadsNumber, ChildReads, ShmEnds, Ends, ChildExits
  <2> QED
    BY <2>1, <1>t
<1>3. ASSUME NEW fd \in Fds, Relays(fd) PROVE Goal
  <2>1. down'[q] = down[q] \/ \E note : down'[q] = Append(down[q], note)
    BY <1>3 DEF Relays, Relay
  <2>2. ASSUME NEW note, down'[q] = Append(down[q], note) PROVE Goal
    <3>1. PICK k \in DOMAIN down[q] : down[q][k].idx = c
      OBVIOUS
    <3>2. k \in DOMAIN Append(down[q], note) /\ Append(down[q], note)[k] = down[q][k]
      BY <1>t
    <3> QED
      BY <2>2, <3>1, <3>2
  <2> QED
    BY <2>1, <2>2
<1>4. CASE Elsewhere
  BY <1>4 DEF Elsewhere
<1>5. CASE down'[q] = down[q]
  BY <1>5
<1> QED
  BY <1>1, <1>2, <1>3, <1>4, <1>5, OtherShmSteps

\* A number of p's on its way up gets to q's pipe, or the relay finds it full.
LEMMA RelayHandsOn ==
  ASSUME Known, NEW p \in Pids, NEW q \in unseen[p], q \in Pids, q # p, proc[q] = "run",
         ~NumberLost, NEW fd \in ChannelOf(p), Relay(fd)
  PROVE  \E k \in DOMAIN down'[q] : down'[q][k].idx = slot[p]
<1>t. down \in [Pids -> Seq(Notification)] /\ PIPE_CAP \in Nat
  BY ChatAssumption DEF Known, Tables, TypeOK
<1> DEFINE note == [from |-> p, idx |-> slot[p]]
<1>1. /\ fd \in Fds /\ fdtab[fd] = p /\ up[p] > 0
      /\ down'[q] = IF q \in Receivers(fd) /\ Len(down[q]) < PIPE_CAP
                    THEN Append(down[q], note) ELSE down[q]
  BY DEF Relay, ChannelOf
<1>2. q \in Receivers(fd)
  <2>1. q \in Unreaped
    BY DEF Unreaped
  <2>2. PICK j \in Registered : users[j].pid = q
    BY <2>1 DEF Known, Tables, TableConsistent, NamedByBoth
  <2>3. users[j].pipefd \in Fds /\ fdtab[users[j].pipefd] = q
    BY <2>2 DEF Known, Tables, ChannelsMatch
  <2> QED
    BY <1>1, <2>3 DEF Receivers
<1>3. CASE Len(down[q]) < PIPE_CAP
  <2>1. down'[q] = Append(down[q], note)
    BY <1>1, <1>2, <1>3
  <2>2. /\ Len(down[q]) + 1 \in DOMAIN Append(down[q], note)
        /\ Append(down[q], note)[Len(down[q]) + 1] = note
    BY <1>t
  <2> QED
    BY <2>1, <2>2
<1>4. CASE ~(Len(down[q]) < PIPE_CAP)
  <2>1. Len(down[q]) \in Nat
    BY <1>t
  <2>2. \E k \in DOMAIN down[q] : down[q][k].idx = slot[p]
    BY <1>1, <1>4, <1>t, <2>1 DEF NumberLost
  <2> QED
    BY <1>1, <1>4, <2>2
<1> QED
  BY <1>3, <1>4

\* The number q reads may be p's: then q has seen p's text, or p blanked it.
LEMMA ReadingSees ==
  ASSUME Known, SlotInv, TextInv, NEW p \in Pids \ shared, NEW q \in Pids, q \in unseen[p],
         ShmReadsNumber(q), q \in unseen'[p],
         \E k \in DOMAIN down[q] : down[q][k].idx = slot[p]
  PROVE  \/ \E k \in DOMAIN down'[q] : down'[q][k].idx = slot[p]
         \/ cpc[p] = "recv" \/ stop_child[p]
<1>t. /\ down \in [Pids -> Seq(Notification)] /\ slot \in [Pids -> Slots]
      /\ shm \in [Slots -> [by : Pids \cup {NoPid}, blank : BOOLEAN]]
      /\ unseen \in [Pids -> SUBSET Pids]
  BY DEF Known, Tables, TypeOK, SlotInv, SlotTypes, Slots
<1>1. /\ down[q] # << >> /\ down'[q] = Tail(down[q])
      /\ unseen' = [x \in Pids |-> IF x = shm[Head(down[q]).idx].by /\ ~shm[Head(down[q]).idx].blank
                                   THEN unseen[x] \ {q} ELSE unseen[x]]
  BY <1>t DEF ShmReadsNumber, ReadsNumber, ChildReads
<1>2. PICK k \in DOMAIN down[q] : down[q][k].idx = slot[p]
  OBVIOUS
<1>3. CASE k = 1
  <2>1. Head(down[q]).idx = slot[p]
    BY <1>1, <1>2, <1>3, <1>t
  <2>2. shm[slot[p]].by = p /\ proc[p] = "run"
    BY DEF TextInv, Wrote, UnseenRuns
  <2>3. shm[slot[p]].blank
    BY <1>1, <2>1, <2>2
  <2>4. shm[slot[p]] = [by |-> p, blank |-> TRUE] /\ slot[p] \in Slots
    BY <1>t, <2>2, <2>3
  <2> QED
    BY <2>2, <2>4 DEF SlotInv, BlankIsBrief
<1>4. CASE k # 1
  <2>1. k \in 2 .. Len(down[q]) /\ Len(down[q]) \in Nat /\ down[q] \in Seq(Notification)
    BY <1>2, <1>4, <1>t
  <2>2. k - 1 \in DOMAIN Tail(down[q]) /\ Tail(down[q])[k - 1] = down[q][k]
    BY <2>1, <1>1
  <2> QED
    BY <1>1, <1>2, <2>2
<1> QED
  BY <1>3, <1>4

\* A child about to read, or to stop, still is until it has read or is gone.
LEMMA WaitOrStop ==
  ASSUME Known, WaitsWithNothing, [ShmNext]_shmVars, NEW p \in Pids, proc[p] = "run",
         ~ShmReadsText(p), ~ShmEnds(p), ~ShmForks(p), cpc[p] = "recv" \/ stop_child[p]
  PROVE  cpc'[p] = "recv" \/ stop_child'[p]
<1> USE DEF Known, RunTypes
<1>1. CASE ShmClears(p) \/ (Untouched(p) /\ SeesClientGone(p)) \/ ShmReadsNumber(p)
  BY <1>1 DEF ShmClears, ClearsSlot, SeesClientGone, ShmReadsNumber, ReadsNumber, Goes, Stops
<1>2. ASSUME NEW r \in Pids \ {p},
             \/ ShmForks(r) \/ ShmClears(r) \/ ShmReadsText(r) \/ SeesClientGone(r)
             \/ ShmReadsNumber(r) \/ ShmEnds(r)
      PROVE  cpc'[p] = cpc[p] /\ stop_child'[p] = stop_child[p]
  BY <1>2 DEF ShmForks, Forks, ShmClears, ClearsSlot, ShmReadsText, ReadsText, SeesClientGone,
     ShmReadsNumber, ReadsNumber, ShmEnds, Ends, Goes, Stops
<1>3. CASE Alone \/ \E fd \in Fds : Relays(fd)
  BY <1>3 DEF Alone, Relays, runVars
<1>4. CASE Elsewhere
  BY <1>4 DEF Elsewhere
<1> QED
  BY <1>1, <1>2, <1>3, <1>4, OtherShmSteps

\* No step leaves a text unannounced, unless a pipe of line 389 is full.
LEMMA TextsAnnouncedStep ==
  ASSUME PIPE_CAP > 0, Known, SlotInv, TextInv, WaitsWithNothing, FullPipe,
         TextsAnnounced, ~NumberLost, [ShmNext]_shmVars
  PROVE  TextsAnnounced'
<1> SUFFICES ASSUME NEW p \in Pids, NEW q \in unseen'[p], proc'[p] = "run", p \notin shared'
             PROVE  NumberOnWay(p, q)' \/ cpc'[p] = "recv" \/ stop_child'[p]
  BY DEF TextsAnnounced
<1>n. [SysNext]_sysVars /\ [Next]_vars /\ Tables /\ RunTypes /\ SlotTypes
  BY ShmStep, SysStep DEF Known, SlotInv
<1>1. CASE ShmReadsText(p)
  <2>1. p \in Unreaped /\ proc[p] = "run" /\ ChannelOf(p) # {}
    <3>1. proc[p] = "run"
      BY <1>1 DEF ShmReadsText, ReadsText, At
    <3>2. p \in Unreaped
      BY <3>1 DEF Unreaped
    <3> QED
      BY <1>n, <3>1, <3>2 DEF ChannelOf, Tables, TableConsistent, NamedByBoth, ChannelsMatch
  <2>2. CASE ChildNotifies(p)
    <3>1. /\ up'[p] = up[p] + 1 /\ up[p] \in Nat
          /\ ready' = ready \cup ChannelOf(p) /\ ChannelOf(p)' = ChannelOf(p)
      BY <1>n, <2>2, ChatAssumption DEF ChildNotifies, ChannelOf, Tables, TypeOK
    <3> QED
      BY <2>1, <3>1 DEF NumberOnWay
  <2>3. CASE up[p] = PIPE_CAP /\ UNCHANGED vars
    <3>1. ChannelOf(p) \cap (ready \cup events) # {}
      BY <2>1, <2>3 DEF FullPipe
    <3>2. UNCHANGED <<up, ready, events, fdtab>>
      BY <2>3 DEF vars
    <3> QED
      BY <2>3, <3>1, <3>2 DEF NumberOnWay, ChannelOf
  <2> QED
    BY <1>1, <2>2, <2>3 DEF ShmReadsText, ReadsText
<1>2. CASE ~ShmReadsText(p)
  <2>1. /\ q \in unseen[p] /\ q \in Pids /\ p \notin shared
        /\ ~ShmEnds(p) /\ ~ShmEnds(q) /\ ~ShmForks(p) /\ ~ShmForks(q)
    BY <1>2, <1>n, UnseenFrom
  <2>2. q # p /\ proc[p] = "run" /\ proc[q] = "run"
    BY <2>1 DEF TextInv, UnseenRuns
  <2>3. slot'[p] = slot[p]
    BY <2>1, <2>2, RunsOn
  <2>4. ASSUME cpc[p] = "recv" \/ stop_child[p] PROVE cpc'[p] = "recv" \/ stop_child'[p]
    BY <1>2, <1>n, <2>1, <2>2, <2>4, WaitOrStop
  <2>5. CASE cpc[p] = "recv" \/ stop_child[p]
    BY <2>4, <2>5
  <2>6. CASE up[p] > 0 /\ ChannelOf(p) \cap (ready \cup events) # {}
    <3>1. CASE \E fd \in ChannelOf(p) : Relay(fd)
      <4>1. \E k \in DOMAIN down'[q] : down'[q][k].idx = slot[p]
        BY <2>1, <2>2, <3>1, RelayHandsOn
      <4> QED
        BY <2>3, <4>1 DEF NumberOnWay
    <3>2. CASE \A fd \in ChannelOf(p) : ~Relay(fd)
      <4>1. ~Reap(p)
        BY <2>2 DEF Reap, Zombies
      <4>2. PICK fd \in ChannelOf(p) : fd \in ready \cup events
        BY <2>6
      <4>3. fd \in ready' \cup events' /\ fd \in ChannelOf(p)'
        BY <1>n, <2>6, <3>2, <4>1, <4>2, EventKept, ChannelKept
      <4>4. up'[p] >= up[p] /\ up[p] \in Int /\ up'[p] \in Int
        <5>1. up' \in [Pids -> 0 .. PIPE_CAP] /\ up \in [Pids -> 0 .. PIPE_CAP]
          BY <1>n, TypeStep DEF Tables, TypeOK
        <5>2. up'[p] >= up[p]
          BY <1>n, <3>2, <4>1, NumbersKept
        <5> QED
          BY <5>1, <5>2, ChatAssumption
      <4>5. up'[p] > 0
        BY <2>6, <4>4
      <4> QED
        BY <4>3, <4>5 DEF NumberOnWay
    <3> QED
      BY <3>1, <3>2
  <2>7. CASE \E k \in DOMAIN down[q] : down[q][k].idx = slot[p]
    <3>1. CASE ShmReadsNumber(q)
      BY <2>1, <2>3, <2>4, <2>7, <3>1, ReadingSees DEF NumberOnWay
    <3>2. CASE ~ShmReadsNumber(q)
      <4>1. \E k \in DOMAIN down'[q] : down'[q][k].idx = slot[p]
        BY <2>1, <2>7, <3>2, NoteKept
      <4> QED
        BY <2>3, <4>1 DEF NumberOnWay
    <3> QED
      BY <3>1, <3>2
  <2> QED
    BY <2>1, <2>2, <2>5, <2>6, <2>7 DEF TextsAnnounced, NumberOnWay
<1> QED
  BY <1>1, <1>2

\* What the theorems below know of every state.
LEMMA TextKnown ==
  ASSUME PIPE_CAP > 0
  PROVE  ShmSpec => [](Known /\ SlotInv /\ TextInv /\ WaitsWithNothing /\ FullPipe)
<1>1. ShmInit => TextInv
  BY DEF ShmInit, TextInv, UnseenRuns, Wrote
<1>2. SysSpec => []FullPipe
  <2>1. Spec => []FullPipe
    BY FullPipeHasEvent
  <2> QED
    BY <2>1, ServiceIsChatMain, PTL
<1>3. ShmSpec => []TextInv
  BY <1>1, TextInvStep, SlotInvariant, KnownCorrect, PTL DEF ShmSpec
<1> QED
  BY <1>2, <1>3, SlotInvariant, KnownCorrect, LoopInvariant, ShmIsSys, PTL

\* For any number of clients and pipes of any size but none: no step leaves a
\* text unannounced, unless a number finds the pipe of line 389 full.
THEOREM TextStaysAnnouncedCorrect ==
  ASSUME PIPE_CAP > 0
  PROVE  ShmSpec => TextStaysAnnounced
<1>1. /\ Known /\ SlotInv /\ TextInv /\ WaitsWithNothing /\ FullPipe /\ [ShmNext]_shmVars
      => [TextsAnnounced => TextsAnnounced' \/ NumberLost]_shmVars
  BY TextsAnnouncedStep
<1> QED
  BY <1>1, TextKnown, PTL DEF ShmSpec, TextStaysAnnounced

\* So a client whose pipe never fills has always been told, or is about to be
\* told, of every text it has not seen: the safe part of LatestTextSeen.
THEOREM TextsAnnouncedAlways ==
  ASSUME PIPE_CAP > 0
  PROVE  ShmSpec /\ []~NumberLost => []TextsAnnounced
<1>1. ShmInit => TextsAnnounced
  BY DEF ShmInit, TextsAnnounced
<1>2. /\ Known /\ SlotInv /\ TextInv /\ WaitsWithNothing /\ FullPipe
      /\ TextsAnnounced /\ ~NumberLost /\ [ShmNext]_shmVars
      => TextsAnnounced'
  BY TextsAnnouncedStep
<1> QED
  BY <1>1, <1>2, TextKnown, PTL DEF ShmSpec

=============================================================================
