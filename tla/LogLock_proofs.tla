--------------------------- MODULE LogLock_proofs ---------------------------
(***************************************************************************)
(* Proofs about LogLock for every set of processes and every, possibly     *)
(* infinite, supply of inodes.                                             *)
(***************************************************************************)
EXTENDS LogLock, TLAPS

(* Every handle leads to a file that exists; a file that has not been      *)
(* allocated is nobody's.                                                  *)
HandlesOK ==
    /\ path \in used
    /\ \A p \in Procs : IF pc[p] = "closed" THEN head[p] = NoIno ELSE head[p] \in used
    /\ \A p \in Procs : pc[p] = "rot" => new[p] \in used
    /\ \A i \in Inodes \ used : lock[i] = NoProc

(* Who owns which lock.  A process that passed the check still has the     *)
(* current file locked; a rotating process also has locked the file it     *)
(* is about to publish, and that file is not yet anybody's head.           *)
LockOwner ==
    /\ \A p \in Procs : pc[p] \in {"check", "crit", "rot"} => lock[head[p]] = p
    /\ \A p \in Procs : pc[p] \in {"crit", "rot"} => head[p] = path
    /\ \A p \in Procs : pc[p] = "rot" =>
          /\ lock[new[p]] = p
          /\ new[p] # path
          /\ \A q \in Procs : head[q] # new[p]

IInv == TypeOK /\ HandlesOK /\ LockOwner

(* Initially the invariant holds. *)
LEMMA InitIInv == Init => IInv
<1>. SUFFICES ASSUME Init PROVE IInv
    OBVIOUS
<1>1. TypeOK
    BY LockAssumption DEF Init, TypeOK, Places
<1>2. HandlesOK
    BY LockAssumption DEF Init, HandlesOK
<1>3. LockOwner
    BY DEF Init, LockOwner
<1>. QED BY <1>1, <1>2, <1>3 DEF IInv

(* Every step keeps the types; that the published file is an inode rests   *)
(* on HandlesOK.                                                           *)
LEMMA StepTypeOK == TypeOK /\ HandlesOK /\ [Next]_vars => TypeOK'
<1>. SUFFICES ASSUME TypeOK, HandlesOK, [Next]_vars PROVE TypeOK'
    OBVIOUS
<1>1. ASSUME NEW p \in Procs, Open(p) PROVE TypeOK'
    BY <1>1, LockAssumption DEF TypeOK, HandlesOK, Places, Open
<1>2. ASSUME NEW p \in Procs, Close(p) PROVE TypeOK'
    BY <1>2, LockAssumption DEF TypeOK, HandlesOK, Places, Close
<1>3. ASSUME NEW p \in Procs, Begin(p) PROVE TypeOK'
    BY <1>3, LockAssumption DEF TypeOK, HandlesOK, Places, Begin
<1>4. ASSUME NEW p \in Procs, Refresh(p) PROVE TypeOK'
    BY <1>4, LockAssumption DEF TypeOK, HandlesOK, Places, Refresh
<1>5. ASSUME NEW p \in Procs, Acquire(p) PROVE TypeOK'
    BY <1>5, LockAssumption DEF TypeOK, HandlesOK, Places, Acquire
<1>6. ASSUME NEW p \in Procs, Timeout(p) PROVE TypeOK'
    BY <1>6, LockAssumption DEF TypeOK, HandlesOK, Places, Timeout
<1>7. ASSUME NEW p \in Procs, CheckSame(p) PROVE TypeOK'
    BY <1>7, LockAssumption DEF TypeOK, HandlesOK, Places, CheckSame
<1>8. ASSUME NEW p \in Procs, CheckChanged(p) PROVE TypeOK'
    BY <1>8, LockAssumption DEF TypeOK, HandlesOK, Places, CheckChanged
<1>9. ASSUME NEW p \in Procs, RotateCreate(p) PROVE TypeOK'
    BY <1>9, LockAssumption DEF TypeOK, HandlesOK, Places, RotateCreate
<1>10. ASSUME NEW p \in Procs, RotateRename(p) PROVE TypeOK'
    BY <1>10, LockAssumption DEF TypeOK, HandlesOK, Places, RotateRename
<1>11. ASSUME NEW p \in Procs, RotateFail(p) PROVE TypeOK'
    BY <1>11, LockAssumption DEF TypeOK, HandlesOK, Places, RotateFail
<1>12. ASSUME NEW p \in Procs, Unlock(p) PROVE TypeOK'
    BY <1>12, LockAssumption DEF TypeOK, HandlesOK, Places, Unlock
<1>13. ASSUME NEW p \in Procs, Crash(p) PROVE TypeOK'
    BY <1>13, LockAssumption DEF TypeOK, HandlesOK, Places, Crash
<1>14. CASE UNCHANGED vars
    BY <1>14 DEF TypeOK, HandlesOK, Places, vars
<1>. QED BY <1>1, <1>2, <1>3, <1>4, <1>5, <1>6, <1>7, <1>8, <1>9, <1>10, <1>11, <1>12, <1>13, <1>14 DEF Next, Step

(* Every step keeps handles on existing files, and unallocated inodes free. *)
LEMMA StepHandlesOK == IInv /\ [Next]_vars => HandlesOK'
<1>. SUFFICES ASSUME TypeOK, HandlesOK, LockOwner, [Next]_vars PROVE HandlesOK'
    BY DEF IInv
<1>1. ASSUME NEW p \in Procs, Open(p) PROVE HandlesOK'
    BY <1>1, LockAssumption DEF TypeOK, HandlesOK, LockOwner, Open
<1>2. ASSUME NEW p \in Procs, Close(p) PROVE HandlesOK'
    BY <1>2, LockAssumption DEF TypeOK, HandlesOK, LockOwner, Close
<1>3. ASSUME NEW p \in Procs, Begin(p) PROVE HandlesOK'
    BY <1>3, LockAssumption DEF TypeOK, HandlesOK, LockOwner, Begin
<1>4. ASSUME NEW p \in Procs, Refresh(p) PROVE HandlesOK'
    BY <1>4, LockAssumption DEF TypeOK, HandlesOK, LockOwner, Refresh
<1>5. ASSUME NEW p \in Procs, Acquire(p) PROVE HandlesOK'
    BY <1>5, LockAssumption DEF TypeOK, HandlesOK, LockOwner, Acquire
<1>6. ASSUME NEW p \in Procs, Timeout(p) PROVE HandlesOK'
    BY <1>6, LockAssumption DEF TypeOK, HandlesOK, LockOwner, Timeout
<1>7. ASSUME NEW p \in Procs, CheckSame(p) PROVE HandlesOK'
    BY <1>7, LockAssumption DEF TypeOK, HandlesOK, LockOwner, CheckSame
<1>8. ASSUME NEW p \in Procs, CheckChanged(p) PROVE HandlesOK'
    BY <1>8, LockAssumption DEF TypeOK, HandlesOK, LockOwner, CheckChanged
<1>9. ASSUME NEW p \in Procs, RotateCreate(p) PROVE HandlesOK'
    BY <1>9, LockAssumption DEF TypeOK, HandlesOK, LockOwner, RotateCreate
<1>10. ASSUME NEW p \in Procs, RotateRename(p) PROVE HandlesOK'
    BY <1>10, LockAssumption DEF TypeOK, HandlesOK, LockOwner, RotateRename
<1>11. ASSUME NEW p \in Procs, RotateFail(p) PROVE HandlesOK'
    BY <1>11, LockAssumption DEF TypeOK, HandlesOK, LockOwner, RotateFail
<1>12. ASSUME NEW p \in Procs, Unlock(p) PROVE HandlesOK'
    BY <1>12, LockAssumption DEF TypeOK, HandlesOK, LockOwner, Unlock
<1>13. ASSUME NEW p \in Procs, Crash(p) PROVE HandlesOK'
    BY <1>13, LockAssumption DEF TypeOK, HandlesOK, LockOwner, Crash
<1>14. CASE UNCHANGED vars
    BY <1>14 DEF TypeOK, HandlesOK, LockOwner, vars
<1>. QED BY <1>1, <1>2, <1>3, <1>4, <1>5, <1>6, <1>7, <1>8, <1>9, <1>10, <1>11, <1>12, <1>13, <1>14 DEF Next, Step

(* Every step keeps the ownership of the locks: a lock is granted only if  *)
(* free, so a step of one process leaves the locks of the others alone.    *)
LEMMA StepLockOwner == IInv /\ [Next]_vars => LockOwner'
<1>. SUFFICES ASSUME TypeOK, HandlesOK, LockOwner, [Next]_vars PROVE LockOwner'
    BY DEF IInv
<1>1. ASSUME NEW p \in Procs, Open(p) PROVE LockOwner'
    BY <1>1, LockAssumption DEF TypeOK, HandlesOK, LockOwner, Open
<1>2. ASSUME NEW p \in Procs, Close(p) PROVE LockOwner'
    BY <1>2, LockAssumption DEF TypeOK, HandlesOK, LockOwner, Close
<1>3. ASSUME NEW p \in Procs, Begin(p) PROVE LockOwner'
    BY <1>3, LockAssumption DEF TypeOK, HandlesOK, LockOwner, Begin
<1>4. ASSUME NEW p \in Procs, Refresh(p) PROVE LockOwner'
    BY <1>4, LockAssumption DEF TypeOK, HandlesOK, LockOwner, Refresh
<1>5. ASSUME NEW p \in Procs, Acquire(p) PROVE LockOwner'
    BY <1>5, LockAssumption DEF TypeOK, HandlesOK, LockOwner, Acquire
<1>6. ASSUME NEW p \in Procs, Timeout(p) PROVE LockOwner'
    BY <1>6, LockAssumption DEF TypeOK, HandlesOK, LockOwner, Timeout
<1>7. ASSUME NEW p \in Procs, CheckSame(p) PROVE LockOwner'
    BY <1>7, LockAssumption DEF TypeOK, HandlesOK, LockOwner, CheckSame
<1>8. ASSUME NEW p \in Procs, CheckChanged(p) PROVE LockOwner'
    BY <1>8, LockAssumption DEF TypeOK, HandlesOK, LockOwner, CheckChanged
<1>9. ASSUME NEW p \in Procs, RotateCreate(p) PROVE LockOwner'
    <2>1. PICK i \in Inodes \ used :
              /\ new' = [new EXCEPT ![p] = i]
              /\ lock' = [lock EXCEPT ![i] = p]
        BY <1>9 DEF RotateCreate
    <2>2. i # path /\ \A q \in Procs : head[q] # i
        BY LockAssumption DEF HandlesOK
    <2>3. \A q \in Procs : pc[q] = "rot" => new[q] # i
        BY DEF HandlesOK
    <2>. QED BY <1>9, <2>1, <2>2, <2>3 DEF RotateCreate, TypeOK, LockOwner
<1>10. ASSUME NEW p \in Procs, RotateRename(p) PROVE LockOwner'
    BY <1>10, LockAssumption DEF TypeOK, HandlesOK, LockOwner, RotateRename
<1>11. ASSUME NEW p \in Procs, RotateFail(p) PROVE LockOwner'
    BY <1>11, LockAssumption DEF TypeOK, HandlesOK, LockOwner, RotateFail
<1>12. ASSUME NEW p \in Procs, Unlock(p) PROVE LockOwner'
    BY <1>12, LockAssumption DEF TypeOK, HandlesOK, LockOwner, Unlock
<1>13. ASSUME NEW p \in Procs, Crash(p) PROVE LockOwner'
    BY <1>13, LockAssumption DEF TypeOK, HandlesOK, LockOwner, Crash
<1>14. CASE UNCHANGED vars
    BY <1>14 DEF TypeOK, HandlesOK, LockOwner, vars
<1>. QED BY <1>1, <1>2, <1>3, <1>4, <1>5, <1>6, <1>7, <1>8, <1>9, <1>10, <1>11, <1>12, <1>13, <1>14 DEF Next, Step

(* IInv is an invariant. *)
THEOREM Invariance == Spec => []IInv
<1>1. IInv /\ [Next]_vars => IInv'
    BY StepTypeOK, StepHandlesOK, StepLockOwner DEF IInv
<1>. QED BY InitIInv, <1>1, PTL DEF Spec

(* Type correctness.  It needs the rest of IInv: that the name leads to a  *)
(* file after a rotation rests on the rotating process having created one. *)
THEOREM TypeCorrect == Spec => []TypeOK
<1>1. IInv => TypeOK
    BY DEF IInv
<1>. QED BY Invariance, <1>1, PTL

(* What mail_transaction_log_lock_head()'s comment claims: the process     *)
(* that has the log locked has the current log locked.                     *)
THEOREM HeadCurrent == Spec => []HeadIsCurrent
<1>1. IInv => HeadIsCurrent
    BY DEF IInv, LockOwner, HeadIsCurrent, Critical
<1>. QED BY Invariance, <1>1, PTL

(* Mutual exclusion of writers, across any number of rotations. *)
THEOREM MutualExclusion == Spec => []OneWriter
<1>1. IInv => OneWriter
    BY DEF IInv, LockOwner, OneWriter, Critical
<1>. QED BY Invariance, <1>1, PTL

(* The name dovecot.index.log is handed from one locked file to another    *)
(* file locked by the same process.                                        *)
THEOREM NameMoves == Spec => NameMovesUnderLock
<1>1. IInv /\ [Next]_vars =>
        [path' # path => /\ lock[path] \in Procs
                         /\ lock'[path'] = lock[path]]_vars
    <2>. SUFFICES ASSUME IInv, Next, path' # path
                  PROVE  lock[path] \in Procs /\ lock'[path'] = lock[path]
        OBVIOUS
    <2>1. PICK p \in Procs : Step(p)
        BY DEF Next
    <2>2. RotateRename(p)
        BY <2>1 DEF Step, Open, Close, Begin, Refresh, Acquire, Timeout,
                    CheckSame, CheckChanged, RotateCreate, RotateFail, Unlock, Crash
    <2>. QED BY <2>2 DEF IInv, TypeOK, HandlesOK, LockOwner, RotateRename
<1>. QED BY Invariance, <1>1, PTL DEF Spec, NameMovesUnderLock
=============================================================================
