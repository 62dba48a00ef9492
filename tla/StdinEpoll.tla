----------------------------- MODULE StdinEpoll -----------------------------
(***************************************************************************)
(* epoll/stdin_to_stdout_et.c and epoll/stdin_to_stdout_lt.c: standard     *)
(* input read two bytes at a time, edge-triggered until read() fails with  *)
(* EAGAIN, or level-triggered once per event.  Neither leaves its loop.    *)
(*                                                                         *)
(* Standard input is a pipe: its writer writes, then closes.  At the end   *)
(* read() returns 0 and leaves errno as it was, and the edge-triggered     *)
(* loop goes by that.                                                      *)
(***************************************************************************)
EXTENDS Integers

CONSTANTS
  BUF_SIZE,  \* bytes per read(), 2 in the source
  MaxBytes   \* bound: bytes in the pipe

VARIABLES
  edge,   \* which of the two programs
  pc,     \* "wait" or "read"
  input,  \* bytes in the pipe
  eof,    \* the writer has closed it
  ready,  \* an event has happened since epoll_wait() last returned one
  again   \* errno is EAGAIN

vars == <<edge, pc, input, eof, ready, again>>

TypeOK ==
  /\ edge \in BOOLEAN /\ pc \in {"wait", "read"}
  /\ input \in 0 .. MaxBytes
  /\ eof \in BOOLEAN /\ ready \in BOOLEAN /\ again \in BOOLEAN

Init ==
  /\ edge \in BOOLEAN /\ pc = "wait"
  /\ input = 0 /\ eof = FALSE /\ ready = FALSE /\ again = FALSE

-----------------------------------------------------------------------------

Writes ==
  /\ ~eof /\ input < MaxBytes
  /\ \E n \in 1 .. MaxBytes - input : input' = input + n
  /\ ready' = TRUE
  /\ UNCHANGED <<edge, pc, eof, again>>

Closes ==
  /\ ~eof
  /\ eof' = TRUE
  /\ ready' = TRUE
  /\ UNCHANGED <<edge, pc, input, again>>

EpollWait ==
  /\ pc = "wait"
  /\ IF edge THEN ready ELSE input > 0 \/ eof
  /\ ready' = FALSE
  /\ pc' = "read"
  /\ UNCHANGED <<edge, input, eof, again>>

\* Back to epoll_wait() after one read(), as the other program does.
AfterReadBug == "wait"
AfterRead == IF edge THEN "read" ELSE "wait"

Read ==
  /\ pc = "read" /\ input > 0
  /\ input' = IF input > BUF_SIZE THEN input - BUF_SIZE ELSE 0
  /\ pc' = AfterRead
  /\ UNCHANGED <<edge, eof, ready, again>>

\* -1 with EAGAIN.
NothingToRead ==
  /\ pc = "read" /\ input = 0 /\ ~eof
  /\ again' = TRUE
  /\ pc' = "wait"
  /\ UNCHANGED <<edge, input, eof, ready>>

\* 0: the edge-triggered loop stops only if an earlier read() failed.
Leaves == again \/ ~edge

End ==
  /\ pc = "read" /\ input = 0 /\ eof
  /\ pc' = IF Leaves THEN "wait" ELSE "read"
  /\ UNCHANGED <<edge, input, eof, ready, again>>

Program == EpollWait \/ Read \/ NothingToRead \/ End

Next == Writes \/ Closes \/ Program

Spec == Init /\ [][Next]_vars
Fairness == WF_vars(Program)

-----------------------------------------------------------------------------
(* Properties.                                                              *)

\* No byte waits for an edge that has passed (the loop of lines 39 to 48
\* reads to EAGAIN): while there is input, read() goes on taking some of it,
\* however fast the writer is.
InputRead == <>[](input > 0) => []<><<Read>>_vars

=============================================================================
