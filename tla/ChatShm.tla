------------------------------- MODULE ChatShm ------------------------------
(***************************************************************************)
(* The shared memory of demo/chat_server_shm.cc: one slot per child, which *)
(* the child clears and refills with its client's text, and from which the *)
(* siblings that get its number send that text to their clients.  Nothing  *)
(* orders the two.  Extends ChatSystem: each step of run_child that reads  *)
(* or writes a slot is conjoined with what it does to it.                  *)
(*                                                                         *)
(* A slot holds whose text it is, or that it is blank, and who made it so; *)
(* copying a slot takes one step.                                          *)
(***************************************************************************)
EXTENDS ChatSystem

Slots == 0 .. USER_LIMIT - 1

VARIABLES
  shm,     \* slot -> the child that last wrote it, and whether it is blank
  unseen,  \* child -> the siblings whose clients its latest text has not reached
  shared   \* children that have had their slot with another at the same time

slotVars == <<unseen, shared>>
shmVars == <<sysVars, shm, slotVars>>

\* Old text belongs to nobody who is still there.
Nobody == [by |-> NoPid, blank |-> FALSE]

ShmTypeOK ==
  /\ SysTypeOK
  /\ shm \in [Slots -> [by : Pids \cup {NoPid}, blank : BOOLEAN]]
  /\ unseen \in [Pids -> SUBSET Pids]
  /\ shared \subseteq Pids

\* ftruncate() makes all of it zeros.
ShmInit ==
  /\ SysInit
  /\ shm = [k \in Slots |-> [Nobody EXCEPT !.blank = TRUE]]
  /\ unseen = [p \in Pids |-> {}]
  /\ shared = {}

SlotMates(p, k) == {q \in Unreaped \ {p} : slot[q] = k}

-----------------------------------------------------------------------------

Put(p, isBlank) == shm' = [shm EXCEPT ![slot[p]] = [by |-> p, blank |-> isBlank]]

\* A new child finds in its slot what others left there.
ShmForks(p) ==
  /\ Forks(p)
  /\ shm' = [k \in Slots |-> IF shm[k].by = p THEN [shm[k] EXCEPT !.by = NoPid] ELSE shm[k]]
  /\ unseen' = [q \in Pids |-> IF q = p THEN {} ELSE unseen[q] \ {p}]
  /\ LET mates == SlotMates(p, slot'[p])
     IN shared' = (shared \ {p}) \cup mates \cup (IF mates = {} THEN {} ELSE {p})

\* memset() of line 126.
ShmClears(p) == ClearsSlot(p) /\ Put(p, TRUE) /\ UNCHANGED slotVars

\* recv() of line 127.
ShmReadsText(p) ==
  /\ ReadsText(p)
  /\ Put(p, FALSE)
  /\ unseen' = [unseen EXCEPT ![p] = {q \in Unreaped \ {p} : proc[q] = "run"}]
  /\ UNCHANGED shared

\* send() of line 161.
ShmReadsNumber(p) ==
  /\ ReadsNumber(p)
  /\ LET seen == shm[Head(down[p]).idx]
     IN unseen' = [q \in Pids |-> IF q = seen.by /\ ~seen.blank
                                  THEN unseen[q] \ {p} ELSE unseen[q]]
  /\ UNCHANGED <<shm, shared>>

ShmEnds(p) ==
  /\ Ends(p)
  /\ unseen' = [q \in Pids |-> IF q = p THEN {} ELSE unseen[q] \ {p}]
  /\ UNCHANGED <<shm, shared>>

\* The other steps of run_child do not touch the shared memory.
Untouched(p) ==
  /\ \/ ClosesInherited(p) \/ InstallsHandler(p)
     \/ Continues(p) \/ EntersWait(p) \/ Wakes(p)
     \/ SeesClientGone(p) \/ SeesServerGone(p)
  /\ UNCHANGED <<shm, slotVars>>

ShmRuns(p) ==
  \/ ShmClears(p) \/ ShmReadsText(p) \/ ShmReadsNumber(p) \/ ShmEnds(p)
  \/ Untouched(p)

ShmServer ==
  \/ \E p \in Pids : ShmForks(p)
  \/ /\ Alone \/ Returns \/ \E fd \in Fds : Relays(fd)
     /\ UNCHANGED <<shm, slotVars>>

ShmNext ==
  \/ ShmServer
  \/ \E p \in Pids : ShmRuns(p)
  \/ /\ \/ \E p \in Pids : IsTermed(p) \/ Types(p) \/ Leaves(p)
        \/ Connect \/ Kills
        \/ \E s \in Signal : Handles(s)
     /\ UNCHANGED <<shm, slotVars>>

ShmFairness ==
  /\ WF_shmVars(ShmServer)
  /\ \A p \in Pids : /\ WF_shmVars(ShmRuns(p))
                     /\ WF_shmVars(IsTermed(p) /\ UNCHANGED <<shm, slotVars>>)
  /\ \A s \in Signal : WF_shmVars(Handles(s) /\ UNCHANGED <<shm, slotVars>>)

ShmSpec == ShmInit /\ [][ShmNext]_shmVars
ShmFairSpec == ShmSpec /\ ShmFairness

-----------------------------------------------------------------------------
(* Properties.                                                              *)

\* A client is sent its own text only if its child shares its slot, or did
\* once: entries move (line 332), slots do not, and the next child is given
\* the slot of one that has moved.
OwnTextIfShared ==
  [][\A p \in Pids :
       ReadsNumber(p) /\ shm[Head(down[p]).idx] = [by |-> p, blank |-> FALSE] => p \in shared]_shmVars

\* A slot that a living child has blanked is about to be refilled, or the
\* child has seen its client's end (lines 126 to 138).
BlankIsBrief ==
  \A p \in Pids, k \in Slots :
    proc[p] = "run" /\ shm[k] = [by |-> p, blank |-> TRUE] => cpc[p] = "recv" \/ stop_child[p]

\* Between two clients the latest text that a child has read gets through in
\* the end, although numbers are dropped, wait for the next one to arrive (line
\* 372) or overtake the text they announce, if both stop sending after a while
\* and have slots of their own.  Among three it need not: of the numbers of two
\* siblings that reach a child in one event, the second waits for a third.
LatestTextSeen ==
  <>[][\A p \in Pids : typed'[p] <= typed[p]]_shmVars =>
    \A p \in Pids : \A q \in Pids \ {p} :
      (q \in unseen[p]) ~> (q \notin unseen[p] \/ p \in shared \/ stop_child[p])

\* The number of p's slot is on its way to q: in p's pipe, and the server
\* has been told, or in q's.
NumberOnWay(p, q) ==
  \/ up[p] > 0 /\ ChannelOf(p) \cap (ready \cup events) # {}
  \/ \E k \in DOMAIN down[q] : down[q][k].idx = slot[p]

\* Whoever has not seen p's latest text will be told to look, unless p is
\* about to put another in its place.
TextsAnnounced ==
  \A p \in Pids : \A q \in unseen[p] :
    proc[p] = "run" /\ p \notin shared =>
      NumberOnWay(p, q) \/ cpc[p] = "recv" \/ stop_child[p]

\* p's number would find q's pipe full of others.
NumberLost ==
  \E p \in Pids : \E q \in unseen[p] :
    /\ up[p] > 0 /\ Len(down[q]) >= PIPE_CAP
    /\ \A k \in DOMAIN down[q] : down[q][k].idx # slot[p]

\* No step leaves a text unannounced, among any number of clients: neither a
\* number dropped on the way up (line 142: those before it tell the server),
\* nor one that finds the slot blank (line 126), nor descriptors and slots
\* that change hands meanwhile; only send() to a full pipe of line 389 can.
TextStaysAnnounced == [][TextsAnnounced => TextsAnnounced' \/ NumberLost]_shmVars

=============================================================================
