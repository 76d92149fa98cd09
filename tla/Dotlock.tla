------------------------------- MODULE Dotlock -------------------------------
(***************************************************************************)
(* Dotlocks (lib/file-dotlock.c): whoever creates the file "path.lock" has *)
(* the lock.  A lock file may outlive its process, so that others must     *)
(* judge whether it is stale: by the PID in it, or by how long neither it  *)
(* nor the protected file has changed.  The judging process looks at the   *)
(* file first and unlinks it by name later; an owner does the same when it *)
(* deletes the lock.  Between the two the name may lead to another file.   *)
(*                                                                         *)
(* One path, one host, a clock in seconds.  file_dotlock_create() writes   *)
(* the PID into the file and closes it; file_dotlock_open() does not write *)
(* it, keeps the file open, and may rename it over the protected file.  An *)
(* inode number is used again once its file has no name and is not open.   *)
(*                                                                         *)
(* Left out: failing system calls, NFS caches, the notify callback, the    *)
(* warnings, and lengths of sleeps: any time may pass between two steps.   *)
(* mtime and ctime are one time, and the protected file exists.            *)
(***************************************************************************)
EXTENDS Integers, FiniteSets

CONSTANTS
    Procs,
    NoProc,
    Inodes,
    StaleTimeout,   \* set->stale_timeout
    Timeout,        \* set->timeout
    PidCheckSecs,   \* STALE_PID_CHECK_SECS
    MaxTime,        \* bound: the clock
    MaxLocks,       \* bound: lock files created
    MaxCrashes      \* bound

ASSUME NoProcAssumption == NoProc \notin Procs
ASSUME BoundsAssumption ==
    /\ {StaleTimeout, Timeout, PidCheckSecs, MaxTime, MaxLocks, MaxCrashes}
         \subseteq Nat
    /\ IsFiniteSet(Inodes) /\ Inodes # {}

VARIABLES
    now,        \* time(NULL)
    excl,       \* set->use_excl_lock
    lock,       \* the file path.lock, or NoLock
    file,       \* the protected file
    proc,       \* what each process is doing
    created,    \* lock files created; each gets a number
    crashes,    \* counter
    lost        \* history: how locks of live owners were taken from them

vars == <<now, excl, lock, file, proc, created, crashes, lost>>

NoTime == -1
NoLock == [id |-> 0, ino |-> 0, pid |-> NoProc, mtime |-> NoTime]
NoInfo == [ino |-> 0, mtime |-> NoTime]
Hows == {"create", "open", "checkonly"}

\* struct lock_info and, for an owner, struct dotlock: id and ino are those
\* of its lock file.  The rest is history.  raced: has the lock or the
\* protected file changed since p last looked at it?  late: was the last change
\* it noticed made after the time it took for it?  seen: the lock file whose
\* PID it has read.
Idle == [pc |-> "idle", how |-> "create", until |-> 0, start |-> 0,
         info |-> NoInfo, last |-> NoTime, fileinfo |-> NoTime,
         pid_read |-> FALSE, have_pid |-> FALSE,
         raced |-> FALSE, late |-> FALSE, seen |-> 0, id |-> 0, ino |-> 0]

Alive(p) == proc[p].pc # "dead"
At(p, pc) == proc[p].pc = pc
Go(p, pc) == proc' = [proc EXCEPT ![p].pc = pc]
Owns(p) == proc[p].pc \in {"writepid", "verify", "owner", "unlink", "rename"}
Latest(a, b) == IF a < b THEN b ELSE a

\* What the processes have become when p has changed the lock or the file.
\* These are the places between a look and the action it leads to; what
\* happens at "recheck" is seen by the second look.
Windows == {"readpid", "age", "override", "unlink", "rename"}
Raced(p, ps) ==
    [q \in Procs |-> IF q # p /\ ps[q].pc \in Windows
                     THEN [ps[q] EXCEPT !.raced = TRUE] ELSE ps[q]]

Init ==
    /\ now = 0
    /\ excl \in BOOLEAN
    /\ lock = NoLock
    /\ file = [ino |-> 0, mtime |-> 0]
    /\ proc = [p \in Procs |-> Idle]
    /\ created = 0
    /\ crashes = 0
    /\ lost = {}

Tick ==
    /\ now < MaxTime
    /\ now' = now + 1
    /\ UNCHANGED <<excl, lock, file, proc, created, crashes, lost>>

-----------------------------------------------------------------------------
(* dotlock_create().                                                       *)

\* With DOTLOCK_CREATE_FLAG_NONBLOCK there is no time to wait.  Times past the
\* bound are all the same.
Deadlines == {0, IF now + Timeout > MaxTime THEN MaxTime + 1 ELSE now + Timeout}
Begin(p) ==
    /\ At(p, "idle")
    /\ created < MaxLocks
    /\ \E how \in Hows, until \in Deadlines :
        proc' = [proc EXCEPT ![p] = [Idle EXCEPT !.pc = "check", !.how = how,
                                                !.until = until]]
    /\ UNCHANGED <<now, excl, lock, file, created, crashes, lost>>

\* update_change_info(): what r knows after it has looked at the lock file.
\* The first time it takes the file's own time, later t, the time(NULL) with
\* which check_lock() was called.
Changed(r) == r.info # [ino |-> lock.ino, mtime |-> lock.mtime]
Looked(r, t) ==
    [r EXCEPT !.info = [ino |-> lock.ino, mtime |-> lock.mtime],
              !.raced = FALSE,
              !.late = IF Changed(r) /\ r.info # NoInfo THEN t < lock.mtime ELSE @,
              !.last = IF ~Changed(r) THEN @
                       ELSE Latest(@, IF r.info = NoInfo THEN lock.mtime ELSE t)]

\* check_lock() finds no lock file, or one whose owner left the name just now.
Free(r) ==
    IF r.how = "checkonly" THEN Idle ELSE [r EXCEPT !.pc = "create", !.seen = 0]

\* check_lock() has returned 0: the lock is another's, for all p can tell.
Again(r) == [r EXCEPT !.pc = "wait", !.start = 0, !.raced = FALSE, !.seen = 0]

\* The first part of check_lock(): is there a lock file, and is its PID to
\* be read?  Not if the file is quite new, or is known to have none.  Taking
\* the time and the lstat() after it are one step.
Check(p) ==
    LET r == [proc[p] EXCEPT !.start = now]
        l == Looked(r, now)
        again == Changed(r) \/ ~r.pid_read
        fresh == lock.mtime >= now - PidCheckSecs
    IN
    /\ At(p, "check")
    /\ proc' = [proc EXCEPT ![p] =
          IF lock = NoLock THEN Free(r)
          ELSE IF again /\ fresh
          THEN [l EXCEPT !.pc = "age", !.pid_read = FALSE, !.have_pid = FALSE]
          ELSE IF ~again /\ ~r.have_pid THEN [l EXCEPT !.pc = "age"]
          ELSE [l EXCEPT !.pc = "readpid", !.pid_read = TRUE]]
    /\ UNCHANGED <<now, excl, lock, file, created, crashes, lost>>

\* read_local_pid() and kill(pid, 0).  The PID of a live process ends the
\* check, unless it is the own one.
ReadPid(p) ==
    LET pid == lock.pid IN
    /\ At(p, "readpid")
    /\ LET r == [proc[p] EXCEPT !.have_pid = pid # NoProc] IN
       proc' = [proc EXCEPT ![p] =
          IF pid = NoProc THEN [r EXCEPT !.pc = "age"]
          ELSE IF pid # p /\ Alive(pid) THEN Again(r)
          ELSE [r EXCEPT !.pc = "recheck", !.seen = lock.id]]
    /\ UNCHANGED <<now, excl, lock, file, created, crashes, lost>>

\* Mutant: the lock file is not looked at again.
RecheckNot(p) ==
    /\ At(p, "recheck")
    /\ Go(p, "override")
    /\ UNCHANGED <<now, excl, lock, file, created, crashes, lost>>

\* The PID's process is gone: the lock file is looked at again.
Recheck(p) ==
    LET r == proc[p] IN
    /\ At(p, "recheck")
    /\ proc' = [proc EXCEPT ![p] =
          IF lock = NoLock THEN Free(r)
          ELSE IF Changed(r) THEN Free(Looked(r, r.start))
          ELSE [Looked(r, r.start) EXCEPT !.pc = "override"]]
    /\ UNCHANGED <<now, excl, lock, file, created, crashes, lost>>

\* The last part of check_lock(): have the lock and the file not changed for
\* long?  The lock is not looked at again.
Age(p) ==
    LET r == proc[p]
        old(last) == StaleTimeout # 0 /\ r.start > last + StaleTimeout
        first == r.fileinfo = NoTime
        changed == old(r.last) /\ r.fileinfo # file.mtime
        last == IF changed THEN Latest(r.last, IF first THEN file.mtime ELSE r.start)
                ELSE r.last
    IN
    /\ At(p, "age")
    /\ proc' = [proc EXCEPT ![p] =
          LET l == [r EXCEPT !.last = last,
                             !.late = IF changed /\ ~first THEN r.start < file.mtime
                                      ELSE @,
                             !.fileinfo = IF old(r.last) THEN file.mtime ELSE @]
          IN IF old(last) THEN [l EXCEPT !.pc = "override"] ELSE Again(l)]
    /\ UNCHANGED <<now, excl, lock, file, created, crashes, lost>>

\* p takes the name of the lock file away.  If it is a live owner's, that
\* owner has lost its lock, and why says how.
Victim(p) == \E q \in Procs \ {p} : Owns(q) /\ proc[q].id = lock.id
Removed(p, why) ==
    /\ lock' = NoLock
    /\ lost' = IF ~Victim(p) THEN lost
               ELSE lost \union {IF proc[p].raced THEN "overtaken" ELSE why}

\* dotlock_override().  check_lock() returns 0: nothing is created now, and
\* one who may not wait gives up.
Silent == now > Latest(lock.mtime, file.mtime) + StaleTimeout
Backdated(p) == proc[p].late /\ ~proc[p].have_pid
Twin(p) == proc[p].have_pid /\ proc[p].seen # lock.id /\ ~Changed(proc[p])
Override(p) ==
    /\ At(p, "override")
    /\ Removed(p, IF Silent THEN "silent"
                  ELSE IF Backdated(p) THEN "backdated"
                  ELSE IF Twin(p) THEN "twin" ELSE "robbed")
    /\ proc' = [proc EXCEPT ![p] = Again(@)]
    /\ UNCHANGED <<now, excl, file, created, crashes>>

\* Inode numbers in use, besides that of the lock file: an owner that did
\* not write its PID keeps the file open.
Used == {proc[q].ino : q \in {q \in Procs : /\ Owns(q)
                                            /\ \/ proc[q].how = "open"
                                               \/ At(q, "writepid")}}
          \union {file.ino}

\* Mutant: whatever has the name is replaced.
CreateOver(p) ==
    /\ At(p, "create")
    /\ created < MaxLocks
    /\ created' = created + 1
    /\ \E i \in Inodes \ Used :
        LET write == proc[p].how = "create" IN
        /\ lock' = [id |-> created', ino |-> i, mtime |-> now,
                    pid |-> IF write /\ ~excl THEN p ELSE NoProc]
        /\ proc' = Raced(p, [proc EXCEPT ![p] =
              [Idle EXCEPT !.pc = IF ~write THEN "owner"
                                  ELSE IF excl THEN "writepid" ELSE "verify",
                           !.how = proc[p].how, !.id = created', !.ino = i]])
    /\ UNCHANGED <<now, excl, file, crashes, lost>>

\* try_create_lock_hardlink(), where the PID is written first, or
\* try_create_lock_excl(), where it is written next.
Create(p) ==
    /\ At(p, "create")
    /\ lock = NoLock
    /\ created < MaxLocks
    /\ created' = created + 1
    /\ \E i \in Inodes \ Used :
        LET write == proc[p].how = "create" IN
        /\ lock' = [id |-> created', ino |-> i, mtime |-> now,
                    pid |-> IF write /\ ~excl THEN p ELSE NoProc]
        /\ proc' = Raced(p, [proc EXCEPT ![p] =
              [Idle EXCEPT !.pc = IF ~write THEN "owner"
                                  ELSE IF excl THEN "writepid" ELSE "verify",
                           !.how = proc[p].how, !.id = created', !.ino = i]])
    /\ UNCHANGED <<now, excl, file, crashes, lost>>

\* The name exists.
CreateExists(p) ==
    /\ At(p, "create")
    /\ lock # NoLock
    /\ proc' = [proc EXCEPT ![p] = Again(@)]
    /\ UNCHANGED <<now, excl, lock, file, created, crashes, lost>>

\* file_write_pid() into the open file, which may have lost its name.
WritePid(p) ==
    LET own == lock.id = proc[p].id
        next == [proc EXCEPT ![p].pc = "verify"]
    IN
    /\ At(p, "writepid")
    /\ lock' = IF own THEN [lock EXCEPT !.pid = p, !.mtime = now] ELSE lock
    /\ proc' = IF own THEN Raced(p, next) ELSE next
    /\ UNCHANGED <<now, excl, file, created, crashes, lost>>

\* dotlock_wait(), and the loop goes on until the time has come.
Wait(p) ==
    /\ At(p, "wait")
    /\ now < proc[p].until
    /\ Go(p, "check")
    /\ UNCHANGED <<now, excl, lock, file, created, crashes, lost>>

GiveUp(p) ==
    /\ At(p, "wait")
    /\ now >= proc[p].until
    /\ proc' = [proc EXCEPT ![p] = Idle]
    /\ UNCHANGED <<now, excl, lock, file, created, crashes, lost>>

\* file_dotlock_create_real() looks whether the name leads to its file.
Verify(p) ==
    /\ At(p, "verify")
    /\ proc' = [proc EXCEPT ![p] =
          IF lock.ino = @.ino THEN [@ EXCEPT !.pc = "owner"] ELSE Idle]
    /\ UNCHANGED <<now, excl, lock, file, created, crashes, lost>>

-----------------------------------------------------------------------------
(* What an owner does.                                                     *)

\* file_dotlock_touch(): utime() by name, whoever's file it is.
Touch(p) ==
    /\ At(p, "owner")
    /\ lock # NoLock
    /\ lock.mtime # now
    /\ lock' = [lock EXCEPT !.mtime = now]
    /\ proc' = Raced(p, proc)
    /\ UNCHANGED <<now, excl, file, created, crashes, lost>>

\* The owner changes the protected file, which is what the lock is for.
WriteFile(p) ==
    /\ At(p, "owner")
    /\ file.mtime # now
    /\ file' = [file EXCEPT !.mtime = now]
    /\ proc' = Raced(p, proc)
    /\ UNCHANGED <<now, excl, lock, created, crashes, lost>>

\* file_dotlock_delete() looks at the name, and unlinks it if the inode is
\* the one of its lock file; a different mtime is only warned about.
Delete(p) ==
    /\ At(p, "owner")
    /\ proc' = [proc EXCEPT ![p] =
          IF lock.ino = @.ino THEN [@ EXCEPT !.pc = "unlink", !.raced = FALSE]
          ELSE Idle]
    /\ UNCHANGED <<now, excl, lock, file, created, crashes, lost>>

Unlink(p) ==
    /\ At(p, "unlink")
    /\ Removed(p, "reused")
    /\ proc' = [proc EXCEPT ![p] = Idle]
    /\ UNCHANGED <<now, excl, file, created, crashes>>

\* rename() of the lock file, whoever's it is, over the protected file.
RenameBy(p, why) ==
    /\ Removed(p, why)
    /\ file' = IF lock = NoLock THEN file
               ELSE [ino |-> lock.ino, mtime |-> now]
    /\ proc' = [Raced(p, proc) EXCEPT ![p] = Idle]
    /\ UNCHANGED <<now, excl, created, crashes>>

\* file_dotlock_replace() with DOTLOCK_REPLACE_FLAG_VERIFY_OWNER: first
\* file_dotlock_is_locked() compares the open file with the name.
VerifyOwner(p) ==
    /\ At(p, "owner")
    /\ proc[p].how = "open"
    /\ proc' = [proc EXCEPT ![p] =
          IF lock.ino = @.ino THEN [@ EXCEPT !.pc = "rename", !.raced = FALSE]
          ELSE Idle]
    /\ UNCHANGED <<now, excl, lock, file, created, crashes, lost>>

Rename(p) ==
    /\ At(p, "rename")
    /\ RenameBy(p, "robbed")

\* file_dotlock_replace() without the flag.
Replace(p) ==
    /\ At(p, "owner")
    /\ proc[p].how = "open"
    /\ RenameBy(p, "blind")

-----------------------------------------------------------------------------
(* Faults.                                                                 *)

Crash(p) ==
    /\ proc[p].pc \notin {"idle", "dead"}
    /\ crashes < MaxCrashes
    /\ crashes' = crashes + 1
    /\ proc' = [proc EXCEPT ![p] = [Idle EXCEPT !.pc = "dead"]]
    /\ UNCHANGED <<now, excl, lock, file, created, lost>>

\* A new process may have the PID of the dead one.
Restart(p) ==
    /\ At(p, "dead")
    /\ proc' = [proc EXCEPT ![p] = Idle]
    /\ UNCHANGED <<now, excl, lock, file, created, crashes, lost>>

\* The bounds are reached, and whoever is not done waits for them.
Over ==
    /\ now = MaxTime
    /\ created = MaxLocks
    /\ \A p \in Procs : proc[p].pc \in {"idle", "create"}
    /\ UNCHANGED vars

Next ==
    \/ Tick
    \/ \E p \in Procs :
        \/ Begin(p) \/ Check(p) \/ ReadPid(p) \/ Recheck(p) \/ Age(p)
        \/ Override(p) \/ Create(p) \/ CreateExists(p) \/ WritePid(p)
        \/ Wait(p) \/ GiveUp(p) \/ Verify(p)
        \/ Touch(p) \/ WriteFile(p) \/ Delete(p) \/ Unlink(p)
        \/ VerifyOwner(p) \/ Rename(p) \/ Replace(p)
        \/ Crash(p) \/ Restart(p)
    \/ Over

Spec == Init /\ [][Next]_vars

-----------------------------------------------------------------------------
(* Properties.                                                             *)

\* Mutual exclusion, with what it rests on: as long as no live owner's lock
\* was taken from it, only one process is past dotlock_create().  Neither a
\* crash nor an override of a dead process's lock makes two owners.
OnlyOwner ==
    lost = {} => \A p, q \in Procs : Owns(p) /\ Owns(q) => p = q

\* How a live owner can lose its lock.  Either the lock and the file were not
\* touched for stale_timeout, or it became the owner, or touched them, between
\* the last look and the unlink() (or rename()) of another process, or in two
\* ways the other process was deceived by what it saw: it took a change for
\* older than it was, because check_lock() goes by the time at which it was
\* called; or the lock whose PID it had read was replaced by one with the same
\* inode number and mtime.  In no other way does the PID check take a live
\* process's lock, whatever was created, removed and created again meanwhile,
\* and a reused inode number or a rename without VERIFY_OWNER can only harm
\* after an owner had lost its lock in one of these ways.
LossExplained ==
    /\ "robbed" \notin lost
    /\ lost # {} => lost \intersect {"overtaken", "silent", "backdated", "twin"} # {}
=============================================================================
