------------------------------- MODULE LogLock -------------------------------
(***************************************************************************)
(* The write lock of a mailbox's transaction log.                          *)
(*                                                                         *)
(* dovecot.index.log is a name; the lock is on an inode.  A process keeps  *)
(* its own handle on the file it believes is the head, locks that inode,   *)
(* and only then finds out (by stat()ing the name) whether another process *)
(* has rotated the log in the meantime.  This module keeps exactly the     *)
(* state that decides who may write: the name, the inode locks, and each   *)
(* process's head.  What is written is in TransactionLog, which implements *)
(* this specification.                                                     *)
(***************************************************************************)
EXTENDS Naturals

CONSTANTS
    Procs,      \* processes that have the mailbox open
    Inodes,     \* inodes the file system may hand out
    NoProc,     \* owner of a free lock
    NoIno       \* value of a name that does not exist, or of an unset handle

ASSUME LockAssumption == NoProc \notin Procs /\ NoIno \notin Inodes

VARIABLES
    path,       \* inode that the name dovecot.index.log leads to
    used,       \* inodes that have been allocated
    lock,       \* lock[i]: the process holding the write lock of inode i
    head,       \* head[p]: log->head, the file p believes is current
    new,        \* new[p]: file that a rotating p has created but not published
    pc          \* pc[p]: where p is

vars == <<path, used, lock, head, new, pc>>

Places == {"closed", "idle", "lock", "check", "crit", "rot"}

(* p may write to head[p]: mail_transaction_log_lock_head() has returned 0. *)
Critical == {p \in Procs : pc[p] \in {"crit", "rot"}}

Init ==
    /\ \E i \in Inodes : path = i /\ used = {i}
    /\ lock = [i \in Inodes |-> NoProc]
    /\ head = [p \in Procs |-> NoIno]
    /\ new = [p \in Procs |-> NoIno]
    /\ pc = [p \in Procs |-> "closed"]

(* mail_transaction_log_open(): the file the name leads to becomes the head. *)
Open(p) ==
    /\ pc[p] = "closed"
    /\ head' = [head EXCEPT ![p] = path]
    /\ pc' = [pc EXCEPT ![p] = "idle"]
    /\ UNCHANGED <<path, used, lock, new>>

Close(p) ==
    /\ pc[p] = "idle"
    /\ head' = [head EXCEPT ![p] = NoIno]
    /\ pc' = [pc EXCEPT ![p] = "closed"]
    /\ UNCHANGED <<path, used, lock, new>>

(* A commit or a sync starts; log->head is what it will try to lock. *)
Begin(p) ==
    /\ pc[p] = "idle"
    /\ pc' = [pc EXCEPT ![p] = "lock"]
    /\ UNCHANGED <<path, used, lock, head, new>>

(* Reading needs no lock: mail_transaction_log_refresh() moves the head. *)
Refresh(p) ==
    /\ pc[p] = "idle"
    /\ head' = [head EXCEPT ![p] = path]
    /\ UNCHANGED <<path, used, lock, new, pc>>

(* mail_transaction_log_file_lock(log->head) *)
Acquire(p) ==
    /\ pc[p] = "lock"
    /\ lock[head[p]] = NoProc
    /\ lock' = [lock EXCEPT ![head[p]] = p]
    /\ pc' = [pc EXCEPT ![p] = "check"]
    /\ UNCHANGED <<path, used, head, new>>

(* Fault: a log that cannot be locked in time is taken for abandoned and is *)
(* replaced.                                                                *)
TimeoutReplaces(p) ==
    /\ pc[p] = "lock"
    /\ \E i \in Inodes \ used :
        /\ used' = used \cup {i}
        /\ path' = i
    /\ pc' = [pc EXCEPT ![p] = "idle"]
    /\ UNCHANGED <<lock, head, new>>

(* The lock was not granted within MAIL_TRANSACTION_LOG_LOCK_TIMEOUT. *)
Timeout(p) ==
    /\ pc[p] = "lock"
    /\ pc' = [pc EXCEPT ![p] = "idle"]
    /\ UNCHANGED <<path, used, lock, head, new>>

(* Fault: the lock alone is taken for ownership of the log, without looking *)
(* where the name leads.                                                    *)
CheckNothing(p) ==
    /\ pc[p] = "check"
    /\ pc' = [pc EXCEPT ![p] = "crit"]
    /\ UNCHANGED <<path, used, lock, head, new>>

(* mail_transaction_log_has_changed() = 0: the locked inode is the one the *)
(* name leads to.                                                          *)
CheckSame(p) ==
    /\ pc[p] = "check"
    /\ path = head[p]
    /\ pc' = [pc EXCEPT ![p] = "crit"]
    /\ UNCHANGED <<path, used, lock, head, new>>

(* The log was rotated before the lock was granted: the new file becomes   *)
(* the head, the old one is unlocked, and the loop starts over.            *)
CheckChanged(p) ==
    /\ pc[p] = "check"
    /\ path # head[p]
    /\ lock' = [lock EXCEPT ![head[p]] = NoProc]
    /\ head' = [head EXCEPT ![p] = path]
    /\ pc' = [pc EXCEPT ![p] = "lock"]
    /\ UNCHANGED <<path, used, new>>

(* Fault: the new file is published before it is locked. *)
RotateCreateUnlocked(p) ==
    /\ pc[p] = "crit"
    /\ \E i \in Inodes \ used :
        /\ used' = used \cup {i}
        /\ new' = [new EXCEPT ![p] = i]
    /\ pc' = [pc EXCEPT ![p] = "rot"]
    /\ UNCHANGED <<path, lock, head>>

(* mail_transaction_log_file_create2(): the new file is locked before the  *)
(* name leads to it.                                                       *)
RotateCreate(p) ==
    /\ pc[p] = "crit"
    /\ \E i \in Inodes \ used :
        /\ used' = used \cup {i}
        /\ new' = [new EXCEPT ![p] = i]
        /\ lock' = [lock EXCEPT ![i] = p]
    /\ pc' = [pc EXCEPT ![p] = "rot"]
    /\ UNCHANGED <<path, head>>

(* Fault: the name is removed to make place for the new file, and stays so. *)
RotateRemove(p) ==
    /\ pc[p] = "rot"
    /\ path' = NoIno
    /\ lock' = [lock EXCEPT ![head[p]] = NoProc]
    /\ head' = [head EXCEPT ![p] = new[p]]
    /\ new' = [new EXCEPT ![p] = NoIno]
    /\ pc' = [pc EXCEPT ![p] = "crit"]
    /\ UNCHANGED used

(* file_dotlock_replace() renames the new file over the name, then         *)
(* mail_transaction_log_rotate() moves the head and unlocks the old file.  *)
RotateRename(p) ==
    /\ pc[p] = "rot"
    /\ path' = new[p]
    /\ lock' = [lock EXCEPT ![head[p]] = NoProc]
    /\ head' = [head EXCEPT ![p] = new[p]]
    /\ new' = [new EXCEPT ![p] = NoIno]
    /\ pc' = [pc EXCEPT ![p] = "crit"]
    /\ UNCHANGED used

(* "creation failed": the unpublished file is unlocked and dropped. *)
RotateFail(p) ==
    /\ pc[p] = "rot"
    /\ lock' = [lock EXCEPT ![new[p]] = NoProc]
    /\ new' = [new EXCEPT ![p] = NoIno]
    /\ pc' = [pc EXCEPT ![p] = "crit"]
    /\ UNCHANGED <<path, used, head>>

Unlock(p) ==
    /\ pc[p] = "crit"
    /\ lock' = [lock EXCEPT ![head[p]] = NoProc]
    /\ pc' = [pc EXCEPT ![p] = "idle"]
    /\ UNCHANGED <<path, used, head, new>>

(* The process dies; the kernel drops every lock it had. *)
Crash(p) ==
    /\ pc[p] # "closed"
    /\ lock' = [i \in Inodes |-> IF lock[i] = p THEN NoProc ELSE lock[i]]
    /\ head' = [head EXCEPT ![p] = NoIno]
    /\ new' = [new EXCEPT ![p] = NoIno]
    /\ pc' = [pc EXCEPT ![p] = "closed"]
    /\ UNCHANGED <<path, used>>

Step(p) ==
    \/ Open(p) \/ Close(p) \/ Begin(p) \/ Refresh(p)
    \/ Acquire(p) \/ Timeout(p) \/ CheckSame(p) \/ CheckChanged(p)
    \/ RotateCreate(p) \/ RotateRename(p) \/ RotateFail(p)
    \/ Unlock(p) \/ Crash(p)

Next == \E p \in Procs : Step(p)

Spec == Init /\ [][Next]_vars

-----------------------------------------------------------------------------
(* Types of the state: the name always leads to a file. *)
TypeOK ==
    /\ path \in Inodes
    /\ used \subseteq Inodes
    /\ lock \in [Inodes -> Procs \cup {NoProc}]
    /\ head \in [Procs -> Inodes \cup {NoIno}]
    /\ new \in [Procs -> Inodes \cup {NoIno}]
    /\ pc \in [Procs -> Places]

(* At most one process has mail_transaction_log_lock_head() succeed and    *)
(* not yet unlock, although the locks are on inodes and the name moves     *)
(* from inode to inode under the processes that wait.                      *)
OneWriter == \A p, q \in Critical : p = q

(* "If we can lock it and don't see another file, we can be sure no-one is *)
(* creating a new log at the moment": as long as p is between lock_head()  *)
(* and unlock, its head is the file that dovecot.index.log leads to.       *)
HeadIsCurrent == \A p \in Critical : head[p] = path /\ lock[path] = p

(* The name only moves away from a file by the hand of the process that    *)
(* has that file locked, and the file it moves to is already locked by the *)
(* same process: no one can slip in between.                               *)
NameMovesUnderLock ==
    [][path' # path => /\ lock[path] \in Procs
                       /\ lock'[path'] = lock[path]]_vars
=============================================================================
