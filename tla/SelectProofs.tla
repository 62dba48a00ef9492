---------------------------- MODULE SelectProofs ----------------------------
(* Proofs about SelectTable.                                                *)
EXTENDS SelectTable, FiniteSetTheorems, TLAPS

\* The slots whose connections are in a set.
SlotsOf(R) == {s \in Slots : client[s] \in R}

\* The reported slots the scan has not come to.
ToCome == {s \in Slots : s >= i /\ client[s] \in rset}

\* Every descriptor the server remembers is open; before the scan nready
\* counts the descriptors reported, in it the slots to come; what is read is
\* written to the connection of the same slot.
TableInv ==
  /\ TypeOK
  /\ TableMatchesSet
  /\ allset \cup rset \subseteq Open \cup {listenfd}
  /\ pc = "accept" =>
       /\ listenfd \in rset /\ rset \subseteq allset
       /\ nready = Cardinality(rset)
       /\ queue > 0 /\ i = 0
  /\ pc = "write" => i < maxi /\ client[i] \in rset
  /\ NreadyCounts

LEMMA SlotsFinite == IsFiniteSet(Slots) /\ \A S \in SUBSET Slots : IsFiniteSet(S)
<1>1. IsFiniteSet(Slots)
  BY FS_Interval, SelectAssumption DEF Slots
<1> QED BY <1>1, FS_Subset

\* As many slots as connections: no connection is in the table twice.
LEMMA SlotCount ==
  ASSUME TypeOK, TableMatchesSet, NEW R \in SUBSET (allset \ {listenfd})
  PROVE  IsFiniteSet(R) /\ Cardinality(SlotsOf(R)) = Cardinality(R)
<1> DEFINE f == [s \in SlotsOf(R) |-> client[s]]
<1>1. f \in [SlotsOf(R) -> R]
  BY DEF SlotsOf
<1>2. \A fd \in R : \E s \in SlotsOf(R) : f[s] = fd
  BY DEF SlotsOf, TableMatchesSet
<1>3. \A s, t \in SlotsOf(R) : f[s] = f[t] => s = t
  <2> SUFFICES ASSUME NEW s \in SlotsOf(R), NEW t \in SlotsOf(R), f[s] = f[t] PROVE s = t
    OBVIOUS
  <2>1. client[s] = client[t] /\ client[s] \in R /\ s \in Slots /\ t \in Slots
    BY DEF SlotsOf
  <2>2. client[s] # -1
    BY <2>1 DEF TableMatchesSet
  <2> QED BY <2>1, <2>2 DEF TableMatchesSet
<1>4. f \in Bijection(SlotsOf(R), R)
  BY <1>1, <1>2, <1>3 DEF Bijection, Injection, Surjection, IsInjective
<1>5. IsFiniteSet(SlotsOf(R))
  BY SlotsFinite DEF SlotsOf
<1> QED BY <1>4, <1>5, FS_Bijection DEF ExistsBijection

LEMMA TableInit ==
  ASSUME Init
  PROVE  TableInv
BY SelectAssumption, SocketsAssumption
DEF Init, NetInit, TableInv, TypeOK, NetTypeOK, TableMatchesSet, NreadyCounts, Open, Fds, Slots,
    Peer, listenfd

\* Whatever clients do, they leave the open descriptors as they are.
LEMMA ClientStep ==
  ASSUME TableInv, Client, UNCHANGED serverVars
  PROVE  TableInv'
<1> USE SocketsAssumption DEF NetTypeOK, Open, Peer
<1>1. NetTypeOK' /\ Open' = Open /\ queue' >= queue
  <2> SUFFICES ASSUME NetTypeOK PROVE NetTypeOK' /\ Open' = Open /\ queue' >= queue
    BY DEF TableInv, TypeOK
  <2>1. CASE Connect
    BY <2>1 DEF Connect
  <2>2. ASSUME NEW fd \in Fds, Sends(fd) PROVE NetTypeOK' /\ Open' = Open /\ queue' >= queue
    BY <2>2 DEF Sends
  <2>3. ASSUME NEW fd \in Fds, ShutsDown(fd) \/ Closes(fd) \/ Resets(fd)
        PROVE  NetTypeOK' /\ Open' = Open /\ queue' >= queue
    BY <2>3 DEF ShutsDown, Closes, Resets, Becomes
  <2>4. ASSUME NEW fd \in Fds, Reads(fd) PROVE NetTypeOK' /\ Open' = Open /\ queue' >= queue
    BY <2>4 DEF Reads
  <2> QED BY <2>1, <2>2, <2>3, <2>4 DEF Client
<1>2. queue \in Int /\ queue' \in Int
  BY <1>1 DEF TableInv, TypeOK
<1> HIDE DEF NetTypeOK, Open
<1>3. UNCHANGED <<pc, client, maxi, maxfd, allset, rset, nready, i, n>>
  BY DEF serverVars, tableVars, loopVars
<1> QED
  BY <1>1, <1>2, <1>3 DEF TableInv, TypeOK, TableMatchesSet, NreadyCounts

LEMMA SelectStep ==
  ASSUME TableInv, Select
  PROVE  TableInv'
<1> USE DEF TableInv, tableVars, netVars, Open
<1>1. /\ rset' = {fd \in allset : fd <= maxfd /\ Readable(fd)}
      /\ nready' = Cardinality(rset') /\ i' = 0
      /\ pc' \in {"accept", "scan"} /\ UNCHANGED <<tableVars, n, netVars>>
  BY DEF Select
<1>2. rset' \subseteq allset
  BY <1>1
<1>3. IsFiniteSet(rset' \ {listenfd}) /\ Cardinality(SlotsOf(rset' \ {listenfd})) = Cardinality(rset' \ {listenfd})
  BY <1>2, SlotCount
<1>4. IsFiniteSet(rset')
  <2>1. rset' \subseteq (rset' \ {listenfd}) \cup {listenfd}
    OBVIOUS
  <2> QED BY <1>3, <2>1, FS_AddElement, FS_Subset
<1>5. nready' \in Nat
  BY <1>1, <1>4, FS_CardinalityType
<1>6. TypeOK'
  BY <1>1, <1>2, <1>5, SelectAssumption DEF TypeOK, NetTypeOK
<1>7. TableMatchesSet'
  BY <1>1 DEF TableMatchesSet
<1>8. pc' = "accept" => listenfd \in rset' /\ queue' > 0
  BY <1>1 DEF Select, Readable
<1>9. NreadyCounts'
  <2> SUFFICES ASSUME listenfd \notin rset' PROVE nready' = Cardinality(ToCome')
    BY DEF NreadyCounts, ToCome, Select
  <2>1. rset' \ {listenfd} = rset'
    OBVIOUS
  <2>2. ToCome' = SlotsOf(rset')
    BY <1>1 DEF ToCome, SlotsOf, Slots
  <2> QED BY <1>1, <1>3, <2>1, <2>2
<1> QED BY <1>1, <1>2, <1>6, <1>7, <1>8, <1>9

\* accept() changes one descriptor, which was not open.
LEMMA AcceptsOne ==
  ASSUME TableInv, pc = "accept", NEW fd \in Fds, Accepts(fd)
  PROVE  NetTypeOK' /\ Open' = Open \cup {fd} /\ fd \notin Open
<1>1. PICK k \in 0 .. MaxBytes - sent, state \in {"open", "shut"} :
        /\ peer' = [peer EXCEPT ![fd] = state]
        /\ inbox' = [inbox EXCEPT ![fd] = k]
        /\ outbox' = [outbox EXCEPT ![fd] = 0]
        /\ sent' = sent + k /\ queue' = queue - 1 /\ clients' = clients
  BY DEF Accepts
<1>2. NetTypeOK /\ queue > 0
  BY DEF TableInv, TypeOK
<1>3. NetTypeOK'
  BY <1>1, <1>2, SocketsAssumption DEF NetTypeOK, Peer
<1>4. Open' = Open \cup {fd}
  BY <1>1, <1>2 DEF Open, NetTypeOK
<1> QED BY <1>3, <1>4 DEF Accepts

\* accept() takes one from nready and none from the slots to come.
LEMMA AcceptStep ==
  ASSUME TableInv, NEW fd \in Fds, Accept(fd)
  PROVE  TableInv' /\ nready' = Cardinality(ToCome')
<1> USE DEF TableInv, tableVars
<1>1. PICK s \in Slots :
        /\ FirstFree(s)
        /\ client' = [client EXCEPT ![s] = fd]
        /\ maxi' = IF s > maxi THEN s ELSE maxi
        /\ allset' = allset \cup {fd}
  BY DEF Accept, Watches
<1>2. /\ pc = "accept" /\ maxfd' = IF fd > maxfd THEN fd ELSE maxfd
      /\ nready' = nready - 1
      /\ UNCHANGED <<rset, i, n>>
      /\ pc' \in {"select", "scan"}
  BY DEF Accept, Counted
<1>3. fd # listenfd /\ fd # -1 /\ fd \notin Open
  BY <1>2, AcceptsOne DEF Fds, listenfd, Accept
<1>4. NetTypeOK' /\ Open' = Open \cup {fd}
  BY <1>2, AcceptsOne DEF Accept
<1>5. client[s] = -1 /\ fd \notin allset /\ fd \notin rset
  BY <1>1, <1>3 DEF FirstFree, TypeOK, Fds
<1>6. TypeOK'
  <2>1. client' \in [Slots -> Fds \cup {-1}] /\ maxi' \in Slots \cup {-1}
    BY <1>1 DEF TypeOK
  <2>2. allset' \subseteq Fds \cup {listenfd} /\ maxfd' \in Fds \cup {listenfd} /\ nready' \in Int
    BY <1>1, <1>2 DEF TypeOK
  <2> QED BY <1>2, <1>4, <2>1, <2>2 DEF TypeOK
<1>7. TableMatchesSet'
  <2>1. \A t \in Slots : client[t] # fd
    BY <1>3, <1>5 DEF TableMatchesSet
  <2>2. \A t, u \in Slots : client'[t] = client'[u] /\ client'[t] # -1 => t = u
    BY <1>1, <2>1 DEF TableMatchesSet, TypeOK
  <2>3. allset' \ {listenfd} = {client'[t] : t \in Slots} \ {-1}
    <3>1. \A c : c \in {client'[t] : t \in Slots} \ {-1} <=> c \in ({client[t] : t \in Slots} \ {-1}) \cup {fd}
      BY <1>1, <1>3, <1>5 DEF TypeOK
    <3>2. allset' \ {listenfd} = (allset \ {listenfd}) \cup {fd}
      BY <1>1, <1>3
    <3> QED BY <3>1, <3>2 DEF TableMatchesSet
  <2>4. \A c \in allset' : c <= maxfd'
    BY <1>1, <1>2 DEF TypeOK, TableMatchesSet, Fds, listenfd
  <2> QED BY <2>2, <2>3, <2>4 DEF TableMatchesSet
<1>8. (allset \cup rset)' \subseteq Open' \cup {listenfd}
  BY <1>1, <1>2, <1>4
<1>9. nready' = Cardinality(ToCome')
  <2> DEFINE R == rset \ {listenfd}
  <2>1. IsFiniteSet(R) /\ Cardinality(SlotsOf(R)) = Cardinality(R)
    BY <1>2, SlotCount
  <2>2. rset = R \cup {listenfd}
    BY <1>2
  <2>3. Cardinality(rset) = Cardinality(R) + 1
    BY <2>1, <2>2, FS_AddElement
  <2>4. \A t \in Slots : t >= 0
    BY DEF Slots
  <2>5. -1 \notin rset
    BY DEF TypeOK, Fds, listenfd
  <2>6. \A t \in Slots : client[t] # listenfd
    BY DEF TypeOK, Fds, listenfd
  <2>7. ToCome' = SlotsOf(R)
    BY <1>1, <1>2, <1>5, <2>4, <2>5, <2>6 DEF ToCome, SlotsOf, TypeOK
  <2>8. Cardinality(R) \in Nat
    BY <2>1, FS_CardinalityType
  <2> QED BY <1>2, <2>1, <2>3, <2>7, <2>8
<1> QED BY <1>2, <1>6, <1>7, <1>8, <1>9 DEF NreadyCounts, ToCome

\* Serving slot i takes it from those to come.
LEMMA OneLess ==
  ASSUME TableInv, i \in Slots
  PROVE  Cardinality(ToCome \ {i}) = IF client[i] \in rset THEN Cardinality(ToCome) - 1 ELSE Cardinality(ToCome)
<1>1. IsFiniteSet(ToCome)
  BY SlotsFinite DEF ToCome
<1>2. i \in ToCome <=> client[i] \in rset
  BY DEF ToCome, Slots
<1> QED BY <1>1, <1>2, FS_RemoveElement

LEMMA SkipStep ==
  ASSUME TableInv, Skip
  PROVE  TableInv'
<1> USE DEF TableInv, tableVars, netVars
<1>1. /\ pc = "scan" /\ i < maxi /\ client[i] \notin rset /\ i' = i + 1
      /\ UNCHANGED <<tableVars, pc, rset, nready, n, netVars>>
  BY DEF Skip, InScan
<1>2. i \in Slots /\ i' \in 0 .. SLOTS
  BY <1>1, SelectAssumption DEF TypeOK, Slots
<1>3. ToCome' = ToCome \ {i}
  BY <1>1, <1>2 DEF ToCome, Slots
<1>4. NreadyCounts'
  BY <1>1, <1>2, <1>3, OneLess DEF NreadyCounts, ToCome
<1>5. TypeOK' /\ TableMatchesSet'
  BY <1>1, <1>2 DEF TypeOK, NetTypeOK, TableMatchesSet
<1> QED BY <1>1, <1>4, <1>5 DEF Open

\* What a read() or a write() of the scan does to a socket, it stays open.
LEMMA SocketServed ==
  ASSUME TableInv, NEW fd \in Fds, ReadsText(fd) \/ ReadFails(fd) \/ Writes(fd, n) \/ UNCHANGED netVars,
         peer[fd] # "none"
  PROVE  NetTypeOK' /\ Open' = Open
<1> USE SocketsAssumption DEF TableInv, TypeOK, NetTypeOK, Open, Peer
<1>1. CASE ReadsText(fd)
  <2>1. inbox[fd] - Taken(fd) \in Nat
    BY <1>1 DEF ReadsText, Taken
  <2> QED BY <1>1, <2>1 DEF ReadsText
<1>2. CASE ReadFails(fd)
  BY <1>2 DEF ReadFails, Becomes
<1>3. CASE Writes(fd, n)
  <2>1. CASE peer[fd] \in {"open", "shut"} /\ outbox[fd] + n <= WINDOW
    <3>1. outbox[fd] + n \in 0 .. WINDOW
      BY <2>1
    <3> QED BY <1>3, <2>1, <3>1 DEF Writes, Becomes, netVars
  <2>2. CASE ~(peer[fd] \in {"open", "shut"} /\ outbox[fd] + n <= WINDOW)
    BY <1>3, <2>2 DEF Writes, Becomes, netVars
  <2> QED BY <2>1, <2>2
<1>4. CASE UNCHANGED netVars
  BY <1>4 DEF netVars
<1> QED BY <1>1, <1>2, <1>3, <1>4

\* The slot of the scan holds an open connection.
LEMMA SlotOpen ==
  ASSUME TableInv, Turn \/ pc = "write"
  PROVE  /\ i \in Slots /\ i + 1 \in 0 .. SLOTS /\ i < maxi
         /\ client[i] \in Fds \cap rset /\ peer[client[i]] # "none"
<1> USE DEF TableInv
<1>1. i < maxi /\ client[i] \in rset
  BY DEF Turn, InScan
<1>2. i \in Slots /\ i + 1 \in 0 .. SLOTS
  BY <1>1, SelectAssumption DEF TypeOK, Slots
<1>3. client[i] \in Fds /\ -1 \notin rset
  BY <1>1, <1>2 DEF TypeOK, Fds, listenfd
<1> QED BY <1>1, <1>2, <1>3 DEF Open, Fds, listenfd

LEMMA ReadStep ==
  ASSUME TableInv, ReadSome
  PROVE  TableInv'
<1> USE DEF TableInv
<1>1. /\ pc = "scan" /\ pc' = "write" /\ n' = Taken(client[i]) /\ inbox[client[i]] > 0
      /\ UNCHANGED <<client, maxi, maxfd, allset, rset, nready, i>>
  BY DEF ReadSome, ReadsText, Turn, tableVars
<1>2. i < maxi /\ client[i] \in Fds \cap rset /\ NetTypeOK' /\ Open' = Open
  BY SlotOpen, SocketServed DEF ReadSome
<1>3. n' \in 0 .. BUF_SIZE
  BY <1>1, <1>2, SocketsAssumption DEF Taken, TypeOK, NetTypeOK
<1>4. TypeOK' /\ TableMatchesSet' /\ NreadyCounts'
  BY <1>1, <1>2, <1>3 DEF TypeOK, TableMatchesSet, NreadyCounts
<1> QED BY <1>1, <1>2, <1>4

\* A connection served is one less in both counts.
LEMMA ServedStep ==
  ASSUME TableInv, ReadEnd \/ ReadError \/ Write
  PROVE  TableInv' /\ nready' = Cardinality(ToCome')
<1> USE DEF TableInv
<1>1. /\ pc \in {"scan", "write"} /\ i' = i + 1 /\ nready' = nready - 1
      /\ pc' \in {"select", "scan"}
      /\ UNCHANGED <<maxi, maxfd, rset, n>>
  BY DEF ReadEnd, ReadError, Write, Turn, Served, tableVars
<1>2. /\ i \in Slots /\ i' \in 0 .. SLOTS /\ client[i] \in Fds \cap rset
      /\ peer[client[i]] # "none"
  BY <1>1, SlotOpen DEF ReadEnd, ReadError, Write
<1>3. client[i] # -1 /\ client[i] # listenfd /\ -1 \notin rset
  BY <1>2 DEF TypeOK, Fds, listenfd
<1>4. \/ UNCHANGED <<client, allset>>
      \/ allset' = allset \ {client[i]} /\ client' = [client EXCEPT ![i] = -1]
  BY DEF ReadEnd, ReadError, Write, Ended, tableVars
<1>5. NetTypeOK' /\ Open' = Open
  BY <1>2, SocketServed DEF ReadEnd, ReadError, Write
<1>6. TypeOK'
  <2>1. client' \in [Slots -> Fds \cup {-1}] /\ allset' \subseteq Fds \cup {listenfd}
    BY <1>4 DEF TypeOK
  <2> QED BY <1>1, <1>2, <1>5, <2>1 DEF TypeOK
<1>7. TableMatchesSet'
  <2>1. CASE UNCHANGED <<client, allset>>
    BY <1>1, <2>1 DEF TableMatchesSet
  <2>2. CASE allset' = allset \ {client[i]} /\ client' = [client EXCEPT ![i] = -1]
    <3>1. \A t \in Slots : t # i /\ client[t] # -1 => client[t] # client[i]
      BY <1>2 DEF TableMatchesSet
    <3>2. {client'[t] : t \in Slots} \ {-1} = ({client[t] : t \in Slots} \ {-1}) \ {client[i]}
      BY <1>2, <1>3, <2>2, <3>1 DEF TypeOK
    <3>3. \A t, u \in Slots : client'[t] = client'[u] /\ client'[t] # -1 => t = u
      BY <1>2, <2>2 DEF TypeOK, TableMatchesSet
    <3> QED BY <1>1, <2>2, <3>2, <3>3 DEF TableMatchesSet
  <2> QED BY <1>4, <2>1, <2>2
<1>8. nready' = Cardinality(ToCome')
  <2>1. ToCome' = ToCome \ {i}
    <3>1. \A s \in Slots : s # i => client'[s] = client[s]
      BY <1>2, <1>4 DEF TypeOK
    <3>2. \A s \in Slots : s >= i' <=> s >= i /\ s # i
      BY <1>1, <1>2 DEF Slots
    <3> QED BY <1>1, <3>1, <3>2 DEF ToCome
  <2> QED BY <1>1, <1>2, <2>1, OneLess DEF NreadyCounts, ToCome, TypeOK
<1>9. (allset \cup rset)' \subseteq Open' \cup {listenfd}
  BY <1>1, <1>4, <1>5
<1> QED BY <1>1, <1>6, <1>7, <1>8, <1>9 DEF NreadyCounts, ToCome

LEMMA TableStep ==
  ASSUME TableInv, [Next]_vars
  PROVE  TableInv'
<1> USE DEF TableInv, tableVars
<1>1. ASSUME NEW fd \in Fds, TooMany(fd) PROVE TableInv'
  <2>1. NetTypeOK' /\ Open' = Open \cup {fd}
    BY <1>1, AcceptsOne DEF TooMany
  <2>2. pc' = "exit" /\ UNCHANGED <<tableVars, rset, nready, i, n>>
    BY <1>1 DEF TooMany
  <2> QED BY <2>1, <2>2 DEF TypeOK, TableMatchesSet, NreadyCounts
<1>2. CASE AcceptFails \/ BrokenPipe
  <2>1. pc' = "dead" /\ UNCHANGED <<tableVars, rset, nready, i, n, netVars>>
    BY <1>2 DEF AcceptFails, BrokenPipe
  <2> QED BY <2>1 DEF TypeOK, NetTypeOK, TableMatchesSet, NreadyCounts, netVars, Open
<1>3. CASE ScanDone
  <2>1. pc' = "select" /\ UNCHANGED <<tableVars, rset, nready, i, n, netVars>>
    BY <1>3 DEF ScanDone
  <2> QED BY <2>1 DEF TypeOK, NetTypeOK, TableMatchesSet, NreadyCounts, netVars, Open
<1>4. CASE UNCHANGED vars
  BY <1>4 DEF vars, serverVars, loopVars, netVars, TypeOK, NetTypeOK, TableMatchesSet,
              NreadyCounts, Open
<1> QED
  BY SelectStep, AcceptStep, SkipStep, ReadStep, ServedStep, ClientStep, <1>1, <1>2, <1>3, <1>4
  DEF Next, Server

\* The inductive invariant, for tables of every size.
THEOREM TableInvariant == Spec => []TableInv
BY TableInit, TableStep, PTL DEF Spec

\* Every variable has its type.
THEOREM TableTypeCorrect == Spec => []TypeOK
<1>1. TableInv => TypeOK
  BY DEF TableInv
<1> QED BY <1>1, TableInvariant, PTL

\* client[] and allset never part, although slots are reused (lines 44 to 79).
THEOREM TableMatchesSetCorrect == Spec => []TableMatchesSet
<1>1. TableInv => TableMatchesSet
  BY DEF TableInv
<1> QED BY <1>1, TableInvariant, PTL

\* The early ends of lines 64 and 81 skip no reported connection.
THEOREM NreadyCountsCorrect == Spec => []NreadyCounts
<1>1. TableInv => NreadyCounts
  BY DEF TableInv
<1> QED BY <1>1, TableInvariant, PTL

\* When the loop goes back to select(), no connection that was reported and
\* has a slot below maxi is still to come.
NobodySkipped ==
  [][\A s \in Slots :
       pc \in {"accept", "scan", "write"} /\ pc' = "select" /\ client'[s] \in rset' =>
         s < i' \/ maxi' <= s]_vars

\* The safe part of ServedBelowMaxi: neither the count of line 81 nor the
\* one after accept() ends a scan early, however slots are reused.
THEOREM NobodySkippedCorrect == Spec => NobodySkipped
<1>1. ASSUME TableInv, [Next]_vars, pc \in {"accept", "scan", "write"}, pc' = "select",
             NEW s \in Slots, client'[s] \in rset'
      PROVE  s < i' \/ maxi' <= s
  <2> USE <1>1
  <2>1. CASE (\E fd \in Fds : Accept(fd)) \/ ReadEnd \/ ReadError \/ Write
    <3>1. nready' = Cardinality(ToCome') /\ nready' <= 0
      BY <2>1, AcceptStep, ServedStep DEF Accept, ReadEnd, ReadError, Write, Served
    <3>2. IsFiniteSet(ToCome')
      BY SlotsFinite DEF ToCome
    <3>3. Cardinality(ToCome') \in Nat
      BY <3>2, FS_CardinalityType
    <3>4. ToCome' = {}
      BY <3>1, <3>2, <3>3, FS_EmptySet
    <3>5. i' \in Int
      BY TableStep DEF TableInv, TypeOK
    <3> QED BY <3>4, <3>5 DEF ToCome, Slots
  <2>2. CASE ScanDone
    BY <2>2, SelectAssumption DEF ScanDone, InScan, TableInv, TypeOK, Slots, tableVars
  <2>3. CASE ~((\E fd \in Fds : Accept(fd)) \/ ReadEnd \/ ReadError \/ Write \/ ScanDone)
    BY <2>3 DEF Next, Server, Select, TooMany, AcceptFails, Skip, ReadSome, BrokenPipe, vars,
                serverVars, loopVars
  <2> QED BY <2>1, <2>2, <2>3
<1>2. TableInv /\ [Next]_vars =>
        \A s \in Slots :
          pc \in {"accept", "scan", "write"} /\ pc' = "select" /\ client'[s] \in rset' =>
            s < i' \/ maxi' <= s
  BY <1>1
<1> QED BY <1>2, TableInvariant, PTL DEF Spec, NobodySkipped

=============================================================================
