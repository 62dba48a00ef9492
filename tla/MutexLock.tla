------------------------------ MODULE MutexLock -----------------------------
(***************************************************************************)
(* pkg/sync/Mutex.h: a mutex that remembers its holder, taken and given    *)
(* back by MutexLockGuard.  holder_ is written while the pthread mutex is  *)
(* held, but isLockedByThisThread() reads it without the mutex, at any     *)
(* time, and the destructor asserts that it is 0.  holder_ is one word,    *)
(* which is read and written at once.  getPthreadMutex() is for a condition *)
(* variable, of which the repository has none, and is left out.            *)
(***************************************************************************)
EXTENDS TLAPS

CONSTANTS
  Threads,
  Zero     \* no thread id

VARIABLES
  pc,       \* Threads -> "idle", "lock", "locked", "held" or "unlock"
  mutex_,   \* the thread that has the pthread mutex, or Zero
  holder_,
  alive,    \* the MutexLock exists
  answer    \* Threads -> what isLockedByThisThread() last said, if just called

vars == <<pc, mutex_, holder_, alive, answer>>

TypeOK ==
  /\ pc \in [Threads -> {"idle", "lock", "locked", "held", "unlock"}]
  /\ mutex_ \in Threads \cup {Zero} /\ holder_ \in Threads \cup {Zero}
  /\ alive \in BOOLEAN
  /\ answer \in [Threads -> {"yes", "no", "none"}]

Init ==
  /\ pc = [t \in Threads |-> "idle"]
  /\ mutex_ = Zero /\ holder_ = Zero
  /\ alive = TRUE
  /\ answer = [t \in Threads |-> "none"]

Goes(t, from, to) ==
  /\ alive /\ pc[t] = from
  /\ pc' = [pc EXCEPT ![t] = to]
  /\ answer' = [answer EXCEPT ![t] = "none"]
  /\ UNCHANGED alive

\* MutexLockGuard's constructor.
Lock(t) == Goes(t, "idle", "lock") /\ UNCHANGED <<mutex_, holder_>>

PthreadLock(t) ==
  /\ Goes(t, "lock", "locked")
  /\ mutex_ = Zero /\ mutex_' = t
  /\ UNCHANGED holder_

SetHolder(t) == Goes(t, "locked", "held") /\ holder_' = t /\ UNCHANGED mutex_

\* unlock() only unlocks the pthread mutex.
ResetHolderBug(t) == Goes(t, "held", "unlock") /\ UNCHANGED <<mutex_, holder_>>
\* unlock(), from MutexLockGuard's destructor.
ResetHolder(t) == Goes(t, "held", "unlock") /\ holder_' = Zero /\ UNCHANGED mutex_

PthreadUnlock(t) == Goes(t, "unlock", "idle") /\ mutex_' = Zero /\ UNCHANGED holder_

isLockedByThisThread(t) ==
  /\ alive /\ pc[t] \in {"idle", "held"}
  /\ answer' = [answer EXCEPT ![t] = IF holder_ = t THEN "yes" ELSE "no"]
  /\ UNCHANGED <<pc, mutex_, holder_, alive>>

\* ~MutexLock(), called when nobody uses the lock any more.
Destroy ==
  /\ alive /\ \A t \in Threads : pc[t] = "idle"
  /\ alive' = FALSE
  /\ UNCHANGED <<pc, mutex_, holder_, answer>>

Next ==
  \/ \E t \in Threads :
       Lock(t) \/ PthreadLock(t) \/ SetHolder(t) \/ ResetHolder(t)
       \/ PthreadUnlock(t) \/ isLockedByThisThread(t)
  \/ Destroy

Spec == Init /\ [][Next]_vars

-----------------------------------------------------------------------------
(* Properties.                                                              *)

\* The answer of isLockedByThisThread() (lines 33 to 35) is right whatever
\* the other threads are in the middle of.
AnswerRight ==
  \A t \in Threads :
    /\ answer[t] = "yes" => mutex_ = t /\ pc[t] = "held"
    /\ answer[t] = "no" => mutex_ # t

\* The assertion of the destructor (line 19) holds.
HolderClearedAtEnd == ~alive => holder_ = Zero

-----------------------------------------------------------------------------
(* Proofs.                                                                  *)

\* A thread has the pthread mutex from PthreadLock to PthreadUnlock, and
\* holder_ names it in the middle part of that time only.
Inv ==
  /\ TypeOK
  /\ \A t \in Threads : mutex_ = t <=> pc[t] \in {"locked", "held", "unlock"}
  /\ \A t \in Threads : holder_ = t <=> pc[t] = "held"
  /\ AnswerRight
  /\ HolderClearedAtEnd

\* The inductive invariant, for any number of threads.
THEOREM MutexInvariant ==
  ASSUME Zero \notin Threads
  PROVE  Spec => []Inv
<1>1. Init => Inv
  BY DEF Init, Inv, TypeOK, AnswerRight, HolderClearedAtEnd
<1>2. Inv /\ [Next]_vars => Inv'
  <2> SUFFICES ASSUME Inv, [Next]_vars PROVE Inv'
    OBVIOUS
  <2> USE DEF Inv, TypeOK, AnswerRight, HolderClearedAtEnd, Goes
  <2>1. ASSUME NEW t \in Threads, Lock(t) PROVE Inv'
    BY <2>1 DEF Lock
  <2>2. ASSUME NEW t \in Threads, PthreadLock(t) PROVE Inv'
    BY <2>2 DEF PthreadLock
  <2>3. ASSUME NEW t \in Threads, SetHolder(t) PROVE Inv'
    BY <2>3 DEF SetHolder
  <2>4. ASSUME NEW t \in Threads, ResetHolder(t) PROVE Inv'
    BY <2>4 DEF ResetHolder
  <2>5. ASSUME NEW t \in Threads, PthreadUnlock(t) PROVE Inv'
    BY <2>5 DEF PthreadUnlock
  <2>6. ASSUME NEW t \in Threads, isLockedByThisThread(t) PROVE Inv'
    BY <2>6 DEF isLockedByThisThread
  <2>7. CASE Destroy
    BY <2>7 DEF Destroy
  <2>8. CASE UNCHANGED vars
    BY <2>8 DEF vars
  <2> QED BY <2>1, <2>2, <2>3, <2>4, <2>5, <2>6, <2>7, <2>8 DEF Next
<1> QED BY <1>1, <1>2, PTL DEF Spec

\* isLockedByThisThread() tells the truth (line 34).
THEOREM AnswerRightCorrect ==
  ASSUME Zero \notin Threads
  PROVE  Spec => []AnswerRight
<1>1. Inv => AnswerRight
  BY DEF Inv
<1> QED BY <1>1, MutexInvariant, PTL

\* The destructor's assertion never fails (line 19).
THEOREM HolderClearedCorrect ==
  ASSUME Zero \notin Threads
  PROVE  Spec => []HolderClearedAtEnd
<1>1. Inv => HolderClearedAtEnd
  BY DEF Inv
<1> QED BY <1>1, MutexInvariant, PTL

=============================================================================
