--------------------------- MODULE NoblockConnect ---------------------------
(***************************************************************************)
(* unblock_connect() of select/select_demo_noblock_conn.c: a connect()     *)
(* that does not block, select() with a timeout for its end, and           *)
(* SO_ERROR for its outcome, while the network goes on meanwhile.          *)
(*                                                                         *)
(* writefds is not cleared before its one FD_SET(): select() also watches  *)
(* whatever descriptors below the socket its old bits name, and may report *)
(* one of those or fail on one that is closed.                             *)
(***************************************************************************)

VARIABLES
  pc,        \* "connect", "select", "isset", "error", "fail" or "done"
  socket,    \* "none", "nonblocking", "blocking" or "closed"
  peer,      \* "none", "pending", "up" or "broken"
  accepted,  \* the peer did accept the connection
  reported,  \* writefds still names the socket
  ret        \* "none", "fd" or "-1"

vars == <<pc, socket, peer, accepted, reported, ret>>

TypeOK ==
  /\ pc \in {"connect", "select", "isset", "error", "fail", "done"}
  /\ socket \in {"none", "nonblocking", "blocking", "closed"}
  /\ peer \in {"none", "pending", "up", "broken"}
  /\ accepted \in BOOLEAN /\ reported \in BOOLEAN
  /\ ret \in {"none", "fd", "-1"}

Init ==
  /\ pc = "connect" /\ socket = "none" /\ peer = "none"
  /\ accepted = FALSE /\ reported = FALSE /\ ret = "none"

Returned(how, value) == pc' = "done" /\ socket' = how /\ ret' = value

\* The other side answers, refuses, or resets the connection later.
Network ==
  /\ \/ peer = "pending" /\ peer' = "up" /\ accepted' = TRUE
     \/ peer \in {"pending", "up"} /\ peer' = "broken" /\ UNCHANGED accepted
  /\ UNCHANGED <<pc, socket, reported, ret>>

\* connect() is done at once, and the socket's flags are put back.
AtOnce ==
  /\ pc = "connect"
  /\ peer' = "up" /\ accepted' = TRUE
  /\ Returned("blocking", "fd")
  /\ UNCHANGED reported

\* EINPROGRESS.
InProgress ==
  /\ pc = "connect"
  /\ peer' = "pending" /\ socket' = "nonblocking"
  /\ pc' = "select"
  /\ UNCHANGED <<accepted, reported, ret>>

\* Another error; the socket, if there is one, is not closed.
FailsAtOnce ==
  /\ pc = "connect"
  /\ \E how \in {"none", "nonblocking"} : Returned(how, "-1")
  /\ UNCHANGED <<peer, accepted, reported>>

\* select() returns: the socket is writable, an old bit is reported, or
\* nothing is before the timeout or an error.
Select ==
  /\ pc = "select"
  /\ \/ pc' = "isset" /\ reported' = (peer # "pending")
     \/ pc' = "fail" /\ UNCHANGED reported
  /\ UNCHANGED <<socket, peer, accepted, ret>>

IsSet == reported

LooksAtBit ==
  /\ pc = "isset"
  /\ pc' = IF IsSet THEN "error" ELSE "fail"
  /\ UNCHANGED <<socket, peer, accepted, reported, ret>>

\* getsockopt() hands out the socket's error, if it works.
NoErrorBug == TRUE
NoError == peer # "broken"

LooksAtError ==
  /\ pc = "error"
  /\ \/ NoError /\ Returned("blocking", "fd")
     \/ pc' = "fail" /\ UNCHANGED <<socket, ret>>
  /\ UNCHANGED <<peer, accepted, reported>>

Failed == Returned("closed", "-1")

Fails == pc = "fail" /\ Failed /\ UNCHANGED <<peer, accepted, reported>>

Function ==
  \/ AtOnce \/ InProgress \/ FailsAtOnce
  \/ Select \/ LooksAtBit \/ LooksAtError \/ Fails

Next == Network \/ Function

Spec == Init /\ [][Next]_vars

-----------------------------------------------------------------------------
(* Properties.                                                              *)

\* A socket is returned only when its connection was made, and was not yet
\* seen to break: neither an early return of select() nor a refused
\* connection, which makes a socket writable too, passes for one.  An attempt
\* that has begun and is given up later is closed on every path (lines 59 to
\* 85), so that an answer that comes too late finds nobody; the socket of one
\* that fails at once is left open (lines 41 to 46), and nothing is connected.
OutcomeRight ==
  /\ ret = "fd" => accepted /\ socket = "blocking"
  /\ ret = "-1" /\ peer # "none" => socket = "closed"

=============================================================================
