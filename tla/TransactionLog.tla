---------------------------- MODULE TransactionLog ----------------------------
(***************************************************************************)
(* The transaction log of one mailbox index, shared by the processes that  *)
(* have the mailbox open: dovecot.index.log, its predecessor               *)
(* dovecot.index.log.2 and the snapshot dovecot.index.                     *)
(*                                                                         *)
(* A process appends a transaction under the write lock of the log, reads  *)
(* the log without any lock, and when it syncs the mailbox may rotate the  *)
(* log and rewrite the snapshot.  It keeps in memory a map: the snapshot   *)
(* plus every transaction read since.  Processes crash, writes are seen    *)
(* half done, and names move from file to file between two system calls.   *)
(*                                                                         *)
(* A transaction occupies TxnSize units of a file and an offset counts     *)
(* units after the file header.  The prefix of a transaction stands for a  *)
(* half-written record as well as for a MAIL_TRANSACTION_BOUNDARY whose    *)
(* records are not all there.                                              *)
(***************************************************************************)
EXTENDS Integers, Sequences, FiniteSets, FiniteSetsExt

CONSTANTS
    Procs,          \* processes
    NoProc,         \* owner of a free lock
    LockMethod,     \* mail_index_settings.lock_method: "fcntl" or "flock"
    IOFaults,       \* which I/O errors may happen: subset of {"write", "fsync"}
    MaxFiles,       \* bound: log files ever created
    MaxTxns,        \* bound: transactions ever written
    MaxCrashes,     \* bound: crashes (and I/O errors) outside a write
    MaxTorn,        \* bound: crashes in the middle of a write
    MaxResets       \* bound: mail_index_reset() transactions

ASSUME LogAssumption ==
    /\ NoProc \notin Procs
    /\ IsFiniteSet(Procs)
    /\ LockMethod \in {"fcntl", "flock"}
    /\ IOFaults \subseteq {"write", "fsync"}
    /\ MaxFiles \in Nat \ {0}
    /\ {MaxTxns, MaxCrashes, MaxTorn, MaxResets} \subseteq Nat

VARIABLES
    (* on disk *)
    file,       \* file[i]: contents of inode i
    nfile,      \* inodes 1..nfile have been allocated
    path,       \* inode of dovecot.index.log, 0 if there is none
    path2,      \* inode of dovecot.index.log.2, 0 if there is none
    index,      \* dovecot.index: a map; seq = 0 if there is none
    lock,       \* lock[i]: process that has inode i locked
    newlock,    \* process that has dovecot.index.log.newlock
    (* in the memory of each process *)
    pc, op,     \* where it is, and in which operation
    head,       \* log->head, 0 if the log is not open
    new,        \* file being created by a rotation
    locked,     \* log->head->locked
    bad,        \* log->head->hdr.indexid = 0
    files,      \* log->files
    sync,       \* sync_offset of each open file
    map,        \* index->map: log_file_seq, log_file_head_offset, contents
    idx,        \* identity of the dovecot.index that index->fd has open
    view,       \* the log view being set up, and the attempts so far
    (* history *)
    history,    \* what was committed, in order
    seen,       \* seen[p]: contents of the last map p completed
    gap,        \* someone died between rotating and rewriting dovecot.index
    loss,       \* fsck rewrote dovecot.index without some transactions
    count       \* how much of each bound is used up

diskVars == <<file, nfile, path, path2, index, lock, newlock>>
memVars == <<pc, op, head, new, locked, bad, files, sync, map, idx, view>>
ghostVars == <<history, seen, gap, loss, count>>
vars == <<diskVars, memVars, ghostVars>>

TxnSize == 2
Reset == 0                  \* entry of the history: the index was reset
Inodes == 1..MaxFiles
Txns == 1..MaxTxns
NoMap == [seq |-> 0, off |-> 0, hist |-> <<>>]
NoFile == [seq |-> 0, prevSeq |-> 0, prevOff |-> 0, data |-> <<>>, ok |-> TRUE]
NoView == [seq |-> 0, off |-> 0, tail |-> 0, todo |-> 0, got |-> <<>>,
           tries |-> 0, txn |-> 0]

(* Which dovecot.index a process has open.  It is replaced by rename() and *)
(* never written to, so its contents stand for its inode.                  *)
Ident(m) == m

Size(i) == Len(file[i].data)

(* mail_transaction_log_file_sync(): the end of the last transaction that  *)
(* has been fully written.                                                 *)
Complete(i) == TxnSize * (Size(i) \div TxnSize)

(* The transactions of file i between two offsets. *)
TxnsOf(i, from, to) ==
    [k \in 1..((to - from) \div TxnSize) |-> file[i].data[from + TxnSize * k][1]]

(* Bound: a rotation or reset that has started still gets its file. *)
Room == nfile + Cardinality({p \in Procs : op[p] = "reset" \/ pc[p] = "rot1"}) < MaxFiles

(* p acts as the owner of the log: it has locked it, or it writes to it.   *)
Critical ==
    {p \in Procs : \/ locked[p] /\ pc[p] \notin {"lock", "check"}
                   \/ pc[p] \in {"write", "write2", "fsync"}}

-----------------------------------------------------------------------------
Init ==
    /\ file = [i \in Inodes |-> IF i = 1 THEN [NoFile EXCEPT !.seq = 1] ELSE NoFile]
    /\ nfile = 1
    /\ path = 1
    /\ path2 = 0
    /\ index = NoMap
    /\ lock = [i \in Inodes |-> NoProc]
    /\ newlock = NoProc
    /\ pc = [p \in Procs |-> "closed"]
    /\ op = [p \in Procs |-> "none"]
    /\ head = [p \in Procs |-> 0]
    /\ new = [p \in Procs |-> 0]
    /\ locked = [p \in Procs |-> FALSE]
    /\ bad = [p \in Procs |-> FALSE]
    /\ files = [p \in Procs |-> {}]
    /\ sync = [p \in Procs |-> [i \in Inodes |-> 0]]
    /\ map = [p \in Procs |-> NoMap]
    /\ idx = [p \in Procs |-> Ident(NoMap)]
    /\ view = [p \in Procs |-> NoView]
    /\ history = <<>>
    /\ seen = [p \in Procs |-> <<>>]
    /\ gap = FALSE
    /\ loss = FALSE
    /\ count = [txns |-> 0, crashes |-> 0, torn |-> 0, resets |-> 0]

-----------------------------------------------------------------------------
(* Opening, closing and dying *)

Goto(p, place) == pc' = [pc EXCEPT ![p] = place]
FreeLock(p, i) == IF lock[i] = p THEN [lock EXCEPT ![i] = NoProc] ELSE lock
Only(p, i, off) == [sync EXCEPT ![p] = [j \in Inodes |-> IF j = i THEN off ELSE 0]]

(* Everything p has in memory is gone and the kernel drops its locks; a    *)
(* .newlock left behind is stale and the next process overrides it.        *)
Forget(p) ==
    /\ Goto(p, "closed")
    /\ op' = [op EXCEPT ![p] = "none"]
    /\ head' = [head EXCEPT ![p] = 0]
    /\ new' = [new EXCEPT ![p] = 0]
    /\ locked' = [locked EXCEPT ![p] = FALSE]
    /\ bad' = [bad EXCEPT ![p] = FALSE]
    /\ files' = [files EXCEPT ![p] = {}]
    /\ sync' = Only(p, 0, 0)
    /\ map' = [map EXCEPT ![p] = NoMap]
    /\ idx' = [idx EXCEPT ![p] = Ident(NoMap)]
    /\ view' = [view EXCEPT ![p] = NoView]
    /\ seen' = [seen EXCEPT ![p] = <<>>]
    /\ lock' = [i \in Inodes |-> IF lock[i] = p THEN NoProc ELSE lock[i]]
    /\ newlock' = IF newlock = p THEN NoProc ELSE newlock

Close(p) ==
    /\ pc[p] = "idle"
    /\ Forget(p)
    /\ UNCHANGED <<file, nfile, path, path2, index, history, gap, loss, count>>

Crash(p) ==
    /\ pc[p] \notin {"closed", "write2"}
    /\ count.crashes < MaxCrashes
    /\ count' = [count EXCEPT !.crashes = @ + 1]
    /\ gap' = (gap \/ pc[p] = "rotated")
    /\ Forget(p)
    /\ UNCHANGED <<file, nfile, path, path2, index, history, loss>>

(* Only a part of the transaction made it to the file. *)
CrashInWrite(p) ==
    /\ pc[p] = "write2"
    /\ count.torn < MaxTorn
    /\ count' = [count EXCEPT !.torn = @ + 1]
    /\ Forget(p)
    /\ UNCHANGED <<file, nfile, path, path2, index, history, gap, loss>>

(* mail_transaction_log_open() *)
OpenLog(p) ==
    /\ pc[p] = "closed"
    /\ path # 0
    /\ file[path].ok
    /\ head' = [head EXCEPT ![p] = path]
    /\ files' = [files EXCEPT ![p] = {path}]
    /\ Goto(p, "openidx")
    /\ UNCHANGED <<diskVars, op, new, locked, bad, sync, map, idx, view, ghostVars>>

(* The header that was read says the file is corrupted (indexid = 0). *)
OpenCorrupted(p) ==
    /\ pc[p] = "closed"
    /\ path # 0
    /\ ~file[path].ok
    /\ Goto(p, "unlinkbad")
    /\ UNCHANGED <<diskVars, op, head, new, locked, bad, files, sync, map, idx, view, ghostVars>>

(* mail_index_open_files(): the log could not be opened.  Its name is      *)
(* removed, whatever it leads to by now; dovecot.index is read for the     *)
(* sequence that the new log will get.                                     *)
OpenNoLog(p) ==
    /\ \/ pc[p] = "unlinkbad" /\ path' = 0
       \/ pc[p] = "closed" /\ path = 0 /\ UNCHANGED path
    /\ map' = [map EXCEPT ![p] = index]
    /\ idx' = [idx EXCEPT ![p] = Ident(index)]
    /\ Goto(p, "create")
    /\ UNCHANGED <<file, nfile, path2, index, lock, newlock,
                   op, head, new, locked, bad, files, sync, view, ghostVars>>

(* mail_transaction_log_create(): under the .newlock, use the file that    *)
(* someone else created meanwhile, or create one that continues from the   *)
(* position of dovecot.index.                                              *)
CreateUse(p) ==
    /\ pc[p] = "create"
    /\ newlock = NoProc
    /\ path # 0
    /\ file[path].ok
    /\ head' = [head EXCEPT ![p] = path]
    /\ files' = [files EXCEPT ![p] = {path}]
    /\ op' = [op EXCEPT ![p] = "read"]
    /\ Goto(p, "view")
    /\ UNCHANGED <<diskVars, new, locked, bad, sync, map, idx, view, ghostVars>>

CreateNew(p) ==
    /\ pc[p] = "create"
    /\ newlock = NoProc
    /\ ~(path # 0 /\ file[path].ok)
    /\ Room
    /\ nfile' = nfile + 1
    /\ file' = [file EXCEPT ![nfile'] =
                  [NoFile EXCEPT !.seq = map[p].seq + 1,
                                 !.prevSeq = map[p].seq,
                                 !.prevOff = map[p].off]]
    /\ path' = nfile'
    /\ head' = [head EXCEPT ![p] = nfile']
    /\ files' = [files EXCEPT ![p] = {nfile'}]
    /\ op' = [op EXCEPT ![p] = "read"]
    /\ Goto(p, "view")
    /\ UNCHANGED <<path2, index, lock, newlock, new, locked, bad, sync, map, idx, view, ghostVars>>

(* file_dotlock_open() fails: the .newlock is taken (or, here, MaxFiles is *)
(* reached).  p goes on with an index in memory.                           *)
CreateFail(p) ==
    /\ pc[p] = "create"
    /\ newlock # NoProc \/ ~(Room \/ (path # 0 /\ file[path].ok))
    /\ Forget(p)
    /\ UNCHANGED <<file, nfile, path, path2, index, history, gap, loss, count>>

(* mail_index_try_open(): read dovecot.index, then the logs. *)
OpenIndex(p) ==
    /\ pc[p] = "openidx"
    /\ map' = [map EXCEPT ![p] = index]
    /\ idx' = [idx EXCEPT ![p] = Ident(index)]
    /\ op' = [op EXCEPT ![p] = "read"]
    /\ Goto(p, "view")
    /\ UNCHANGED <<diskVars, head, new, locked, bad, files, sync, view, ghostVars>>

-----------------------------------------------------------------------------
(* Locking the head: mail_transaction_log_lock_head() *)

Usable(p, i) == file[i].ok /\ \A j \in files[p] : file[j].seq # file[i].seq

(* mail_transaction_log_file_skip_to_head(): reading starts where the map is. *)
FirstSync(p, i) == IF map[p].seq = file[i].seq THEN map[p].off ELSE 0

Begin(p) ==
    /\ pc[p] = "idle"
    /\ \/ op' = [op EXCEPT ![p] = "commit"] /\ UNCHANGED <<path2, count>>
       \/ op' = [op EXCEPT ![p] = "sync"] /\ UNCHANGED <<path2, count>>
       \/ /\ op' = [op EXCEPT ![p] = "sync"]        \* .log.2 is old enough
          /\ path2 # 0
          /\ path2' = 0
          /\ UNCHANGED count
       \/ /\ op' = [op EXCEPT ![p] = "reset"]
          /\ count.resets < MaxResets
          /\ Room
          /\ count' = [count EXCEPT !.resets = @ + 1]
          /\ UNCHANGED path2
    /\ Goto(p, "lock")
    /\ UNCHANGED <<file, nfile, path, index, lock, newlock,
                   head, new, locked, bad, files, sync, map, idx, view,
                   history, seen, gap, loss>>

Acquire(p) ==
    /\ pc[p] = "lock"
    /\ lock[head[p]] = NoProc
    /\ lock' = [lock EXCEPT ![head[p]] = p]
    /\ locked' = [locked EXCEPT ![p] = TRUE]
    /\ Goto(p, "check")
    /\ UNCHANGED <<file, nfile, path, path2, index, newlock,
                   op, head, new, bad, files, sync, map, idx, view, ghostVars>>

(* The operation ends without having done anything. *)
GiveUp(p) ==
    /\ lock' = FreeLock(p, head[p])
    /\ locked' = [locked EXCEPT ![p] = FALSE]
    /\ op' = [op EXCEPT ![p] = "none"]
    /\ view' = [view EXCEPT ![p] = NoView]
    /\ files' = [files EXCEPT ![p] = {head[p]}]
    /\ newlock' = IF newlock = p THEN NoProc ELSE newlock
    /\ Goto(p, "idle")
    /\ UNCHANGED <<nfile, path2, index, head, new, sync, map, idx, ghostVars>>

(* Fault: when the time is over the wait starts again. *)
TimeoutWaits(p) ==
    /\ pc[p] = "lock"
    /\ lock[head[p]] # NoProc
    /\ UNCHANGED vars

Timeout(p) ==
    /\ pc[p] = "lock"
    /\ lock[head[p]] # NoProc
    /\ GiveUp(p)
    /\ UNCHANGED <<file, path, bad>>

(* The log under the name is another file: it becomes the head, the old    *)
(* one is unlocked and the loop starts over.                               *)
CheckChanged(p) ==
    /\ pc[p] = "check"
    /\ path \notin {0, head[p]}
    /\ Usable(p, path)
    /\ lock' = FreeLock(p, head[p])
    /\ locked' = [locked EXCEPT ![p] = FALSE]
    /\ head' = [head EXCEPT ![p] = path]
    /\ files' = [files EXCEPT ![p] = {path}]
    /\ bad' = [bad EXCEPT ![p] = FALSE]
    /\ sync' = Only(p, path, FirstSync(p, path))
    /\ Goto(p, "lock")
    /\ UNCHANGED <<file, nfile, path, path2, index, newlock, op, new, map, idx, view, ghostVars>>

CheckUnusable(p) ==
    /\ pc[p] = "check"
    /\ path \notin {0, head[p]}
    /\ ~Usable(p, path)
    /\ path' = IF file[path].ok THEN path ELSE 0
    /\ GiveUp(p)
    /\ UNCHANGED <<file, bad>>

(* mail_transaction_log_has_changed(): the log is lost, so the mailbox was *)
(* deleted (index_deleted = TRUE) and p can only close it.                 *)
LogGone(p) ==
    /\ pc[p] = "check"
    /\ path = 0
    /\ Forget(p)
    /\ UNCHANGED <<file, nfile, path, path2, index, history, gap, loss, count>>

(* Fault: mail_transaction_log_file_refresh() is not called before the export. *)
CheckSameNoRefresh(p) ==
    /\ pc[p] = "check"
    /\ path = head[p]
    /\ op[p] = "commit"
    /\ Goto(p, "write")
    /\ UNCHANGED <<diskVars, op, head, new, locked, bad, files, sync, map, idx, view, ghostVars>>

(* The head is locked: mail_transaction_log_append_begin() is done and the *)
(* index is mapped to the end of the log.                                  *)
CheckSame(p) ==
    /\ pc[p] = "check"
    /\ path = head[p]
    /\ op[p] = "commit"
    /\ Goto(p, "view")
    /\ UNCHANGED <<diskVars, op, head, new, locked, bad, files, sync, map, idx, view, ghostVars>>

(* A reset first rotates the log; with the .newlock in its hand it maps    *)
(* the index (if there is one) to get the position of the old log.         *)
ResetBegin(p) ==
    /\ pc[p] = "check"
    /\ path = head[p]
    /\ op[p] = "reset"
    /\ newlock = NoProc
    /\ newlock' = p
    /\ Goto(p, IF idx[p] = Ident(NoMap) THEN "rot1" ELSE "view")
    /\ UNCHANGED <<file, nfile, path, path2, index, lock,
                   op, head, new, locked, bad, files, sync, map, idx, view, ghostVars>>

(* mail_transaction_log_file_map() of a locked head up to the end of the   *)
(* file: there must be no garbage after the last transaction.              *)
HeadMaps(p) ==
    /\ ~bad[p]
    /\ sync[p][head[p]] <= Size(head[p])
    /\ Complete(head[p]) = Size(head[p])

(* mail_transaction_log_sync_lock() *)
SyncLock(p) ==
    /\ pc[p] = "check"
    /\ path = head[p]
    /\ op[p] \in {"sync", "fsck"}
    /\ HeadMaps(p)
    /\ sync' = Only(p, head[p], Complete(head[p]))
    /\ Goto(p, IF op[p] = "sync" THEN "view" ELSE "fsck")
    /\ UNCHANGED <<diskVars, op, head, new, locked, bad, files, map, idx, view, ghostVars>>

(* "Unexpected garbage at EOF": the file is marked corrupted and unlocked. *)
SyncLockFail(p) ==
    /\ pc[p] = "check"
    /\ path = head[p]
    /\ op[p] \in {"sync", "fsck"}
    /\ ~HeadMaps(p)
    /\ file' = [file EXCEPT ![head[p]].ok = FALSE]
    /\ bad' = [bad EXCEPT ![p] = TRUE]
    /\ GiveUp(p)
    /\ UNCHANGED path

-----------------------------------------------------------------------------
(* Reading: mail_index_map() through mail_transaction_log_view_set() *)

Refresh(p) ==
    /\ pc[p] = "idle"
    /\ op' = [op EXCEPT ![p] = "read"]
    /\ Goto(p, "view")
    /\ UNCHANGED <<diskVars, head, new, locked, bad, files, sync, map, idx, view, ghostVars>>

(* Without an index the log must start from scratch. *)
NoBeginning(p) == map[p].seq = 0 /\ file[head[p]].prevSeq # 0

(* mail_index_sync_map() returns 0: the log was lost. *)
Lost(p) == pc[p] = "lost" \/ (pc[p] = "view" /\ view[p].tail = 0 /\ NoBeginning(p))

(* Fault: the rest of the previous file is skipped whatever the offset. *)
ViewRangeSkips(p) ==
    LET h == file[head[p]]
        skip == h.prevSeq = map[p].seq
        seq == IF skip THEN h.seq ELSE map[p].seq
    IN  IF view[p].tail # 0 THEN view[p]
        ELSE [view[p] EXCEPT !.seq = seq, !.tail = seq, !.off = IF skip THEN 0 ELSE map[p].off]

(* The range starts at the position of the map, skipping to the next file  *)
(* if that begins there.                                                   *)
ViewRange(p) ==
    LET h == file[head[p]]
        skip == <<h.prevSeq, h.prevOff>> = <<map[p].seq, map[p].off>>
        seq == IF skip THEN h.seq ELSE map[p].seq
    IN  IF view[p].tail # 0 THEN view[p]
        ELSE [view[p] EXCEPT !.seq = seq, !.tail = seq, !.off = IF skip THEN 0 ELSE map[p].off]

(* view_set() is looking for the next file of the range. *)
Finding(p) == pc[p] = "view" /\ (view[p].tail # 0 \/ ~NoBeginning(p))

(* The files of the range that are found in a list: those with consecutive *)
(* sequences, from the tail on.                                            *)
FoundIn(p, list) ==
    LET has(seq) == \E i \in list : file[i].seq = seq
        n == Max({k \in 0..Cardinality(list) :
                    \A s \in 1..k : has(ViewRange(p).tail + s - 1)})
    IN  [k \in 1..n |-> CHOOSE i \in list : file[i].seq = ViewRange(p).tail + k - 1]
Found(p) == FoundIn(p, files[p])
Wanted(p) == ViewRange(p).tail + Len(Found(p))
WantsNewer(p) == Wanted(p) > file[head[p]].seq

(* No such file.  That is how the range ends if the last one found is the  *)
(* head; otherwise only a later file that reset the index makes the        *)
(* missing one unnecessary.                                                *)
NotFound(p, list) ==
    LET found == FoundIn(p, list)
        resets == {file[i].seq : i \in {j \in list : /\ file[j].seq >= Wanted(p)
                                                     /\ file[j].prevSeq = 0}}
    IN  IF found # <<>> /\ found[Len(found)] = head[p]
        THEN /\ Goto(p, "mapf")
             /\ view' = [view EXCEPT ![p] = [ViewRange(p) EXCEPT !.todo = Len(found)]]
             /\ files' = [files EXCEPT ![p] = list]
        ELSE IF resets # {}
        THEN /\ view' = [view EXCEPT ![p] = [ViewRange(p) EXCEPT !.tail = Min(resets)]]
             /\ files' = [files EXCEPT ![p] = list]
             /\ UNCHANGED pc
        ELSE /\ Goto(p, "lost")
             /\ files' = [files EXCEPT ![p] = {head[p]}]
             /\ UNCHANGED view

(* mail_transaction_log_find_file() of a newer file than the head: reopen  *)
(* the log if its name has moved.  A locked head is the newest there is.   *)
FindRefresh(p) ==
    /\ Finding(p)
    /\ ~locked[p]
    /\ path \notin {0, head[p]}
    /\ Usable(p, path)
    /\ WantsNewer(p)
    /\ head' = [head EXCEPT ![p] = path]
    /\ bad' = [bad EXCEPT ![p] = FALSE]
    /\ files' = [files EXCEPT ![p] = IF Found(p) = <<>> THEN {path} ELSE @ \cup {path}]
    /\ sync' = [sync EXCEPT ![p][path] = FirstSync(p, path)]
    /\ view' = [view EXCEPT ![p] = ViewRange(p)]
    /\ UNCHANGED <<diskVars, pc, op, new, locked, map, idx, ghostVars>>

FindUnusable(p) ==
    /\ Finding(p)
    /\ ~locked[p]
    /\ path \notin {0, head[p]}
    /\ ~Usable(p, path)
    /\ WantsNewer(p)
    /\ path' = IF file[path].ok THEN path ELSE 0
    /\ GiveUp(p)
    /\ UNCHANGED <<file, bad>>

FindGone(p) ==
    /\ Finding(p)
    /\ ~locked[p]
    /\ path = 0
    /\ WantsNewer(p)
    /\ Forget(p)
    /\ UNCHANGED <<file, nfile, path, path2, index, history, gap, loss, count>>

FindEnd(p) ==
    /\ Finding(p)
    /\ locked[p] \/ path = head[p]
    /\ WantsNewer(p)
    /\ NotFound(p, files[p])
    /\ UNCHANGED <<diskVars, op, head, new, locked, bad, sync, map, idx, ghostVars>>

(* An older file than the head that is not open: see if it is the .log.2.  *)
(* Opening the .log.2 and finding that it is a file that is open already   *)
(* closes it again, and closing any descriptor of a file drops the fcntl() *)
(* locks the process has on it.                                            *)
FindOld(p) ==
    /\ Finding(p)
    /\ ~WantsNewer(p)
    /\ LET reset == \E i \in files[p] : file[i].seq > Wanted(p) /\ file[i].prevSeq = 0
           opens == ~reset /\ path2 # 0
           dupe == opens /\ path2 \in files[p]
           broken == opens /\ ~dupe /\ ~Usable(p, path2)
           list == files[p] \cup (IF opens /\ ~dupe /\ ~broken THEN {path2} ELSE {})
       IN  /\ path2' = IF broken THEN 0 ELSE path2
           /\ lock' = IF dupe /\ LockMethod = "fcntl" THEN FreeLock(p, path2) ELSE lock
           /\ IF path2 \in list \ files[p] /\ file[path2].seq = Wanted(p)
              THEN /\ files' = [files EXCEPT ![p] = list]
                   /\ view' = [view EXCEPT ![p] = ViewRange(p)]
                   /\ UNCHANGED pc
              ELSE NotFound(p, list)
    /\ UNCHANGED <<file, nfile, path, index, newlock,
                   op, head, new, locked, bad, sync, map, idx, ghostVars>>

(* The files are mapped only now that all of them have been found, the     *)
(* newest first, so that each can be checked against the next one.         *)
MapFails(p, i) ==
    LET later == {j \in files[p] : file[j].seq > file[i].seq}
    IN  \/ sync[p][i] > Size(i)                                 \* shrank
        \/ i = head[p] /\ locked[p] /\ Complete(i) # Size(i)     \* garbage
        \/ \E j \in later : /\ \A k \in later : file[j].seq <= file[k].seq
                            /\ file[j].prevSeq = file[i].seq
                            /\ file[j].prevOff # Complete(i)

MapFileFail(p) ==
    /\ pc[p] = "mapf"
    /\ LET i == Found(p)[view[p].todo]
           isbad == i = head[p] /\ bad[p]
       IN  /\ isbad \/ MapFails(p, i)
           /\ file' = IF isbad THEN file ELSE [file EXCEPT ![i].ok = FALSE]
           /\ bad' = [bad EXCEPT ![p] = @ \/ i = head[p]]
    /\ files' = [files EXCEPT ![p] = {head[p]}]
    /\ Goto(p, "lost")
    /\ UNCHANGED <<nfile, path, path2, index, lock, newlock,
                   op, head, new, locked, sync, map, idx, view, ghostVars>>

(* Fault: log_file_head_offset is not moved past what was applied. *)
MapDoneInPlace(p, off, contents) ==
    /\ map' = [map EXCEPT ![p] = [seq |-> file[head[p]].seq, off |-> @.off, hist |-> contents]]
    /\ seen' = [seen EXCEPT ![p] = contents]
    /\ files' = [files EXCEPT ![p] = {head[p]}]
    /\ sync' = Only(p, head[p], off)
    /\ view' = [view EXCEPT ![p] = NoView]
    /\ Goto(p, CASE op[p] = "read" -> "idle"
                 [] op[p] = "sync" -> "synced"
                 [] op[p] = "reset" -> "rot1"
                 [] OTHER -> "write")
    /\ op' = IF op[p] = "read" THEN [op EXCEPT ![p] = "none"] ELSE op

(* mail_index_sync_map() ends: the map is at the end of the head. *)
MapDone(p, off, contents) ==
    /\ map' = [map EXCEPT ![p] = [seq |-> file[head[p]].seq, off |-> off, hist |-> contents]]
    /\ seen' = [seen EXCEPT ![p] = contents]
    /\ files' = [files EXCEPT ![p] = {head[p]}]
    /\ sync' = Only(p, head[p], off)
    /\ view' = [view EXCEPT ![p] = NoView]
    /\ Goto(p, CASE op[p] = "read" -> "idle"
                 [] op[p] = "sync" -> "synced"
                 [] op[p] = "reset" -> "rot1"
                 [] OTHER -> "write")
    /\ op' = IF op[p] = "read" THEN [op EXCEPT ![p] = "none"] ELSE op

MapFile(p) ==
    /\ pc[p] = "mapf"
    /\ LET i == Found(p)[view[p].todo]
           end == Complete(i)
           from == IF file[i].seq = view[p].seq THEN view[p].off ELSE 0
           got == TxnsOf(i, from, end) \o view[p].got
           resets == file[i].prevSeq = 0 /\ (view[p].todo > 1 \/ from = 0)
       IN  /\ ~(i = head[p] /\ bad[p])
           /\ ~MapFails(p, i)
           /\ IF from > end
              THEN /\ Goto(p, "lost")
                   /\ files' = [files EXCEPT ![p] = {head[p]}]
                   /\ sync' = [sync EXCEPT ![p][i] = end]
                   /\ UNCHANGED <<op, map, view, seen>>
              ELSE IF resets \/ view[p].todo = 1
              THEN MapDone(p, IF i = head[p] THEN end ELSE sync[p][head[p]],
                           IF resets THEN got ELSE map[p].hist \o got)
              ELSE /\ view' = [view EXCEPT ![p].todo = @ - 1, ![p].got = got]
                   /\ sync' = [sync EXCEPT ![p][i] = end]
                   /\ UNCHANGED <<pc, op, files, map, seen>>
    /\ UNCHANGED <<diskVars, head, new, locked, bad, idx, history, gap, loss, count>>

(* mail_index_map_latest_file(), mail_index_map_latest_sync(): the log was *)
(* lost, or there is so much of it to read that reopening the index seems  *)
(* cheaper, or mail_index_write() has asked for it.  Start over from       *)
(* dovecot.index; if that fails too and it has been rewritten meanwhile,   *)
(* once more.                                                              *)
Reopen(p) ==
    /\ \/ Lost(p) /\ view[p].tries = 0
       \/ /\ pc[p] = "view"
          /\ view[p].tries = 0 /\ view[p].tail = 0
          /\ Size(head[p]) > map[p].off \/ idx[p] # Ident(index)
       \/ /\ Lost(p)
          /\ view[p].tries = 1
          /\ Ident(NoMap) \notin {idx[p], Ident(index)}
          /\ idx[p] # Ident(index)
    /\ map' = [map EXCEPT ![p] = IF index.seq = 0 THEN @ ELSE index]
    /\ idx' = [idx EXCEPT ![p] = Ident(index)]
    /\ view' = [view EXCEPT ![p] = [NoView EXCEPT !.tries = view[p].tries + 1]]
    /\ Goto(p, "view")
    /\ UNCHANGED <<diskVars, op, head, new, locked, bad, files, sync, ghostVars>>

(* There is no other dovecot.index to try: fsck it, under the lock. *)
LostFsck(p) ==
    /\ Lost(p)
    /\ view[p].tries = 1
    /\ idx[p] \in {Ident(NoMap), Ident(index)}
    /\ IF locked[p]
       THEN Goto(p, "fsck") /\ UNCHANGED op
       ELSE /\ Goto(p, "lock")
            /\ op' = [op EXCEPT ![p] = "fsck"]
    /\ view' = [view EXCEPT ![p] = [NoView EXCEPT !.tries = 1]]
    /\ UNCHANGED <<diskVars, head, new, locked, bad, files, sync, map, idx, ghostVars>>

(* mail_transaction_log_append_locked() of a transaction that could not be *)
(* mapped: nothing is written, but what follows sync_offset is cut off.    *)
Truncated(p) ==
    IF bad[p] /\ op[p] \in {"commit", "reset", "fill"}
    THEN [file EXCEPT ![head[p]].data = SubSeq(@, 1, Min({sync[p][head[p]], Len(@)}))]
    ELSE file

LostFail(p) ==
    /\ Lost(p)
    /\ view[p].tries = 2
    /\ file' = Truncated(p)
    /\ GiveUp(p)
    /\ UNCHANGED <<path, bad>>

(* dovecot.index is gone: the mailbox was deleted (index_deleted = TRUE). *)
IndexGone(p) ==
    /\ Lost(p)
    /\ view[p].tries = 1
    /\ index.seq = 0
    /\ idx[p] # Ident(NoMap)
    /\ Forget(p)
    /\ UNCHANGED <<file, nfile, path, path2, index, history, gap, loss, count>>

(* mail_index_fsck_log_pos() *)
FsckedMap(p) ==
    LET h == head[p]
    IN  [map[p] EXCEPT
           !.seq = file[h].seq,
           !.off = CASE map[p].seq < file[h].seq -> 0
                     [] map[p].seq = file[h].seq -> Min({@, sync[p][h]})
                     [] OTHER -> sync[p][h]]

(* Fault: fsck overwrites dovecot.index although someone else rewrote it. *)
FsckAlways(p) ==
    /\ pc[p] = "fsck"
    /\ op[p] = "sync" \/ HeadMaps(p)
    /\ index' = FsckedMap(p)
    /\ map' = [map EXCEPT ![p] = index']
    /\ loss' = (loss \/ index' # index)
    /\ idx' = [idx EXCEPT ![p] = Ident(index')]
    /\ lock' = IF op[p] = "sync" THEN lock ELSE FreeLock(p, head[p])
    /\ locked' = [locked EXCEPT ![p] = op[p] = "sync"]
    /\ op' = [op EXCEPT ![p] = IF @ = "fsck" THEN "read" ELSE @]
    /\ view' = [view EXCEPT ![p] = [NoView EXCEPT !.tries = 2]]
    /\ Goto(p, "view")
    /\ UNCHANGED <<file, nfile, path, path2, newlock, head, new, bad, files, sync,
                   history, seen, gap, count>>

(* mail_index_fsck(): the map is moved to a position that exists in the    *)
(* log, whatever was in between is lost, and dovecot.index is rewritten.   *)
(* Unless p is syncing, the lock that fsck takes is also dropped here,     *)
(* even if p had it already before: the rest of a commit goes on without.  *)
(* The result is read back from dovecot.index.                             *)
Fsck(p) ==
    /\ pc[p] = "fsck"
    /\ op[p] = "sync" \/ HeadMaps(p)
    /\ index' = IF idx[p] = Ident(index) THEN FsckedMap(p) ELSE index
    /\ map' = [map EXCEPT ![p] = IF index'.seq = 0 THEN FsckedMap(p) ELSE index']
    /\ loss' = (loss \/ index' # index \/ index.seq = 0)
    /\ idx' = [idx EXCEPT ![p] = Ident(index')]
    /\ lock' = IF op[p] = "sync" THEN lock ELSE FreeLock(p, head[p])
    /\ locked' = [locked EXCEPT ![p] = op[p] = "sync"]
    /\ op' = [op EXCEPT ![p] = IF @ = "fsck" THEN "read" ELSE @]
    /\ view' = [view EXCEPT ![p] = [NoView EXCEPT !.tries = 2]]
    /\ Goto(p, "view")
    /\ UNCHANGED <<file, nfile, path, path2, newlock, head, new, bad, files, sync,
                   history, seen, gap, count>>

(* fsck's mail_transaction_log_sync_lock() fails and drops the lock.  A    *)
(* commit goes on without it to the end of append_locked().                *)
FsckFail(p) ==
    /\ pc[p] = "fsck"
    /\ op[p] # "sync"
    /\ ~HeadMaps(p)
    /\ file' = [file EXCEPT ![head[p]].ok = FALSE]
    /\ bad' = [bad EXCEPT ![p] = TRUE]
    /\ lock' = FreeLock(p, head[p])
    /\ locked' = [locked EXCEPT ![p] = FALSE]
    /\ view' = [view EXCEPT ![p] = NoView]
    /\ files' = [files EXCEPT ![p] = {head[p]}]
    /\ Goto(p, "trunc")
    /\ UNCHANGED <<nfile, path, path2, index, newlock, op, head, new, sync, map, idx, ghostVars>>

Trunc(p) ==
    /\ pc[p] = "trunc"
    /\ file' = Truncated(p)
    /\ GiveUp(p)
    /\ UNCHANGED <<path, bad>>

-----------------------------------------------------------------------------
(* Appending: mail_transaction_log_append_locked() and log_buffer_write() *)

(* The lock is dropped and the map is refreshed with what was just written *)
(* (mail_index_transaction_commit_v()).                                    *)
Committed(p) ==
    /\ lock' = FreeLock(p, head[p])
    /\ locked' = [locked EXCEPT ![p] = FALSE]
    /\ op' = [op EXCEPT ![p] = "read"]
    /\ Goto(p, IF op[p] = "fill" THEN "unlinkidx" ELSE "view")

(* The export found that nothing changes: output->used = 0. *)
WriteNothing(p) ==
    /\ pc[p] = "write"
    /\ Committed(p)
    /\ UNCHANGED <<file, nfile, path, path2, index, newlock,
                   head, new, bad, files, sync, map, idx, view, ghostVars>>

(* write_full(): a reader may see the file before all of it is there. *)
WritePart(p) ==
    /\ \/ pc[p] = "write"
       \/ pc[p] = "synced"          \* mail_index_sync_commit(): ext_trans
    /\ count.txns < MaxTxns
    /\ count' = [count EXCEPT !.txns = @ + 1]
    /\ file' = [file EXCEPT ![head[p]].data = Append(@, <<count'.txns, 1>>)]
    /\ Goto(p, "write2")
    /\ view' = [view EXCEPT ![p].txn = count'.txns]
    /\ UNCHANGED <<nfile, path, path2, index, lock, newlock,
                   op, head, new, locked, bad, files, sync, map, idx, history, seen, gap, loss>>

WriteRest(p) ==
    /\ pc[p] = "write2"
    /\ file' = [file EXCEPT ![head[p]].data = Append(@, <<view[p].txn, 2>>)]
    /\ history' = Append(history, view[p].txn)
    /\ view' = [view EXCEPT ![p] = NoView]
    /\ Goto(p, "fsync")
    /\ UNCHANGED <<nfile, path, path2, index, lock, newlock,
                   op, head, new, locked, bad, files, sync, map, idx, seen, gap, loss, count>>

(* Fault: the boundary record is counted twice in sync_offset. *)
FsyncedTwice(p) ==
    /\ pc[p] = "fsync"
    /\ sync' = [sync EXCEPT ![p][head[p]] = @ + 2 * TxnSize]
    /\ IF op[p] = "sync"
       THEN Goto(p, "view") /\ UNCHANGED <<lock, locked, op>>
       ELSE Committed(p)
    /\ UNCHANGED <<file, nfile, path, path2, index, newlock,
                   head, new, bad, files, map, idx, view, ghostVars>>

(* fdatasync() succeeds, or fsync_mode does not ask for it. *)
Fsynced(p) ==
    /\ pc[p] = "fsync"
    /\ sync' = [sync EXCEPT ![p][head[p]] = @ + TxnSize]
    /\ IF op[p] = "sync"
       THEN Goto(p, "view") /\ UNCHANGED <<lock, locked, op>>
       ELSE Committed(p)
    /\ UNCHANGED <<file, nfile, path, path2, index, newlock,
                   head, new, bad, files, map, idx, view, ghostVars>>

(* log_buffer_move_to_memory(): the write is truncated away and p goes on  *)
(* with a private copy of the index, which no one else will see.           *)
MoveToMemory(p) ==
    /\ count.crashes < MaxCrashes
    /\ count' = [count EXCEPT !.crashes = @ + 1]
    /\ file' = [file EXCEPT ![head[p]].data = SubSeq(@, 1, Min({sync[p][head[p]], Len(@)}))]
    /\ Forget(p)
    /\ UNCHANGED <<nfile, path, path2, index, gap, loss>>

WriteFail(p) ==
    /\ "write" \in IOFaults
    /\ pc[p] = "write2"
    /\ MoveToMemory(p)
    /\ UNCHANGED history

FsyncFail(p) ==
    /\ "fsync" \in IOFaults
    /\ pc[p] = "fsync"
    /\ MoveToMemory(p)
    /\ history' = SubSeq(history, 1, Len(history) - 1)

(* A reset ends by removing dovecot.index, after the lock was dropped. *)
UnlinkIndex(p) ==
    /\ pc[p] = "unlinkidx"
    /\ index' = NoMap
    /\ Goto(p, "view")
    /\ UNCHANGED <<file, nfile, path, path2, lock, newlock,
                   op, head, new, locked, bad, files, sync, map, idx, view, ghostVars>>

-----------------------------------------------------------------------------
(* Rotating the log and rewriting dovecot.index *)

(* mail_transaction_log_want_rotate() *)
RotateBegin(p) ==
    /\ pc[p] = "synced"
    /\ newlock = NoProc
    /\ Room \/ path \notin {0, head[p]}
    /\ newlock' = p
    /\ Goto(p, "rot1")
    /\ UNCHANGED <<file, nfile, path, path2, index, lock,
                   op, head, new, locked, bad, files, sync, map, idx, view, ghostVars>>

(* The new log does not continue another one. *)
StartsOver(p) == op[p] = "reset" \/ (path = 0 /\ idx[p] = Ident(NoMap))

(* Fault: prev_file_offset is taken from dovecot.index and not from the map. *)
NewHeaderOfIndex(p) ==
    [NoFile EXCEPT
       !.seq = Max({map[p].seq, file[head[p]].seq}) + 1,
       !.prevSeq = IF StartsOver(p) THEN 0 ELSE map[p].seq,
       !.prevOff = IF StartsOver(p) THEN 0 ELSE idx[p].off]

(* mail_transaction_log_init_hdr() *)
NewHeader(p) ==
    [NoFile EXCEPT
       !.seq = Max({map[p].seq, file[head[p]].seq}) + 1,
       !.prevSeq = IF StartsOver(p) THEN 0 ELSE map[p].seq,
       !.prevOff = IF StartsOver(p) THEN 0 ELSE map[p].off]

(* Fault: the new file is not locked before it is published. *)
RotateCreateUnlocked(p) ==
    /\ pc[p] = "rot1"
    /\ op[p] = "reset" \/ path \in {0, head[p]}
    /\ nfile < MaxFiles
    /\ nfile' = nfile + 1
    /\ file' = [file EXCEPT ![nfile'] = NewHeader(p)]
    /\ new' = [new EXCEPT ![p] = nfile']
    /\ Goto(p, IF op[p] = "reset" \/ path = 0 THEN "rot4" ELSE "rot2")
    /\ UNCHANGED <<path, path2, index, lock, newlock,
                   op, head, locked, bad, files, sync, map, idx, view, ghostVars>>

(* The new file is written and locked while it is still a .newlock. *)
RotateCreate(p) ==
    /\ pc[p] = "rot1"
    /\ op[p] = "reset" \/ path \in {0, head[p]}
    /\ nfile < MaxFiles
    /\ nfile' = nfile + 1
    /\ file' = [file EXCEPT ![nfile'] = NewHeader(p)]
    /\ lock' = [lock EXCEPT ![nfile'] = p]
    /\ new' = [new EXCEPT ![p] = nfile']
    /\ Goto(p, IF op[p] = "reset" \/ path = 0 THEN "rot4" ELSE "rot2")
    /\ UNCHANGED <<path, path2, index, newlock,
                   op, head, locked, bad, files, sync, map, idx, view, ghostVars>>

(* "Transaction log was recreated while we had it locked" *)
RotateBroken(p) ==
    /\ pc[p] = "rot1"
    /\ op[p] # "reset"
    /\ path \notin {0, head[p]}
    /\ newlock' = NoProc
    /\ Goto(p, "synced")
    /\ UNCHANGED <<file, nfile, path, path2, index, lock,
                   op, head, new, locked, bad, files, sync, map, idx, view, ghostVars>>

(* unlink(.log.2) *)
RotateUnlink(p) ==
    /\ pc[p] = "rot2"
    /\ path2' = 0
    /\ Goto(p, "rot3")
    /\ UNCHANGED <<file, nfile, path, index, lock, newlock,
                   op, head, new, locked, bad, files, sync, map, idx, view, ghostVars>>

(* link(.log, .log.2): both names lead to the same file for a while. *)
RotateLink(p) ==
    /\ pc[p] = "rot3"
    /\ path2' = path
    /\ Goto(p, "rot4")
    /\ UNCHANGED <<file, nfile, path, index, lock, newlock,
                   op, head, new, locked, bad, files, sync, map, idx, view, ghostVars>>

(* file_dotlock_replace() renames .log.newlock to .log.  The new file is   *)
(* the head, the old one is unlocked and the map starts from the new file. *)
RotateRename(p) ==
    /\ pc[p] = "rot4"
    /\ path' = new[p]
    /\ newlock' = NoProc
    /\ lock' = FreeLock(p, head[p])
    /\ head' = [head EXCEPT ![p] = new[p]]
    /\ new' = [new EXCEPT ![p] = 0]
    /\ bad' = [bad EXCEPT ![p] = FALSE]
    /\ files' = [files EXCEPT ![p] = {new[p]}]
    /\ sync' = Only(p, 0, 0)
    /\ IF op[p] = "reset"
       THEN /\ op' = [op EXCEPT ![p] = "fill"]
            /\ history' = Append(history, Reset)
            /\ Goto(p, "view")
            /\ UNCHANGED map
       ELSE /\ map' = [map EXCEPT ![p].seq = file[new[p]].seq, ![p].off = 0]
            /\ Goto(p, "rotated")
            /\ UNCHANGED <<op, history>>
    /\ UNCHANGED <<file, nfile, path2, index, locked, idx, view, seen, gap, loss, count>>

(* "creation failed": the rename did not work out. *)
RotateFail(p) ==
    /\ "write" \in IOFaults
    /\ count.crashes < MaxCrashes
    /\ count' = [count EXCEPT !.crashes = @ + 1]
    /\ pc[p] = "rot4"
    /\ op[p] = "sync"
    /\ lock' = FreeLock(p, new[p])
    /\ newlock' = NoProc
    /\ new' = [new EXCEPT ![p] = 0]
    /\ Goto(p, "synced")
    /\ UNCHANGED <<file, nfile, path, path2, index,
                   op, head, locked, bad, files, sync, map, idx, view, history, seen, gap, loss>>

(* The sync is over: unlock. *)
SyncEnd(p) ==
    /\ lock' = FreeLock(p, head[p])
    /\ locked' = [locked EXCEPT ![p] = FALSE]
    /\ op' = [op EXCEPT ![p] = "none"]
    /\ Goto(p, "idle")
    /\ UNCHANGED <<file, nfile, path, path2, newlock,
                   head, new, bad, files, sync, map, idx, view, ghostVars>>

(* Fault: the records written are those of the index as it was opened. *)
WriteIndexStale(p) ==
    /\ \/ pc[p] = "synced" /\ idx[p] = Ident(index)
       \/ pc[p] = "rotated"
    /\ index' = [map[p] EXCEPT !.hist = idx[p].hist]
    /\ SyncEnd(p)

(* mail_index_write(): the map is written to a temporary file that is then *)
(* renamed over dovecot.index.  If the log was not rotated this is skipped *)
(* when someone else has rewritten dovecot.index since p opened it.        *)
WriteIndex(p) ==
    /\ \/ pc[p] = "synced" /\ idx[p] = Ident(index)
       \/ pc[p] = "rotated"
    /\ index' = map[p]
    /\ SyncEnd(p)

(* Fault: dovecot.index need not be rewritten after a rotation. *)
SkipIndexAlways(p) ==
    /\ pc[p] \in {"synced", "rotated"}
    /\ SyncEnd(p)
    /\ UNCHANGED index

SkipIndex(p) ==
    /\ pc[p] = "synced"
    /\ SyncEnd(p)
    /\ UNCHANGED index

(* mail_index_recreate() fails after the log was rotated. *)
IndexWriteFail(p) ==
    /\ "write" \in IOFaults
    /\ count.crashes < MaxCrashes
    /\ count' = [count EXCEPT !.crashes = @ + 1]
    /\ pc[p] = "rotated"
    /\ gap' = TRUE
    /\ Forget(p)
    /\ UNCHANGED <<file, nfile, path, path2, index, history, loss>>

-----------------------------------------------------------------------------
(* What p does on its own once it has started, and what starts or ends it. *)
Work(p) ==
    \/ OpenNoLog(p) \/ CreateUse(p) \/ CreateNew(p) \/ CreateFail(p) \/ OpenIndex(p)
    \/ Acquire(p) \/ Timeout(p) \/ CheckChanged(p) \/ CheckUnusable(p) \/ LogGone(p)
    \/ CheckSame(p) \/ ResetBegin(p) \/ SyncLock(p) \/ SyncLockFail(p)
    \/ FindRefresh(p) \/ FindUnusable(p) \/ FindGone(p)
    \/ FindEnd(p) \/ FindOld(p) \/ MapFile(p) \/ MapFileFail(p)
    \/ Reopen(p) \/ LostFsck(p) \/ LostFail(p) \/ IndexGone(p)
    \/ Fsck(p) \/ FsckFail(p) \/ Trunc(p)
    \/ WriteNothing(p) \/ WritePart(p) \/ WriteRest(p) \/ Fsynced(p) \/ UnlinkIndex(p)
    \/ RotateBegin(p) \/ RotateCreate(p) \/ RotateBroken(p) \/ RotateUnlink(p)
    \/ RotateLink(p) \/ RotateRename(p) \/ WriteIndex(p) \/ SkipIndex(p)

Other(p) ==
    \/ OpenLog(p) \/ OpenCorrupted(p) \/ Close(p) \/ Begin(p) \/ Refresh(p)
    \/ Crash(p) \/ CrashInWrite(p) \/ WriteFail(p) \/ FsyncFail(p)
    \/ RotateFail(p) \/ IndexWriteFail(p)

Next == \E p \in Procs : Work(p) \/ Other(p)

Spec == Init /\ [][Next]_vars

(* A process that has started something goes on with it. *)
FairSpec == Spec /\ \A p \in Procs : WF_vars(Work(p))

-----------------------------------------------------------------------------
Places ==
    {"closed", "unlinkbad", "create", "openidx", "idle", "lock", "check",
     "view", "mapf", "lost", "fsck", "trunc", "write", "write2", "fsync",
     "unlinkidx", "synced", "rot1", "rot2", "rot3", "rot4", "rotated"}
Ops == {"none", "read", "commit", "sync", "reset", "fill", "fsck"}
Offsets == 0..(TxnSize * MaxTxns)
IsMap(m) == m.seq \in Nat /\ m.off \in Offsets /\ m.hist \in Seq(Txns)

(* Types of the state. *)
TypeOK ==
    /\ nfile \in Inodes
    /\ {path, path2} \subseteq 0..nfile
    /\ \A i \in Inodes : /\ file[i].data \in Seq(Txns \X (1..TxnSize))
                         /\ file[i].prevSeq \in 0..file[i].seq
                         /\ file[i].prevOff \in Offsets
    /\ IsMap(index)
    /\ lock \in [Inodes -> Procs \cup {NoProc}]
    /\ newlock \in Procs \cup {NoProc}
    /\ pc \in [Procs -> Places]
    /\ op \in [Procs -> Ops]
    /\ \A p \in Procs :
        /\ head[p] \in 0..nfile /\ new[p] \in 0..nfile /\ files[p] \subseteq 1..nfile
        /\ head[p] # 0 => head[p] \in files[p]
        /\ sync[p] \in [Inodes -> Offsets]
        /\ IsMap(map[p]) /\ IsMap(idx[p])
        /\ view[p].got \in Seq(Txns)
        /\ seen[p] \in Seq(Txns)
    /\ history \in Seq(Txns \cup {Reset})

-----------------------------------------------------------------------------
(* What a history amounts to: everything since the last reset. *)
Effective(h) ==
    SubSeq(h, Max({0} \cup {i \in 1..Len(h) : h[i] = Reset}) + 1, Len(h))

Damaged == \E i \in 1..nfile : ~file[i].ok

(* "Log is currently locked": while file->locked is set this process has   *)
(* the lock of the file, whatever it opens and closes in the meantime.     *)
LockedIsLocked == \A p \in Procs : locked[p] => lock[head[p]] = p

(* What a process would build that starts now, from dovecot.index and the  *)
(* logs; "lost" if they do not fit together.                               *)
Replay ==
    LET h == file[path]
        all == TxnsOf(path, 0, Complete(path))
    IN  IF path = 0 THEN <<"lost">>
        ELSE IF h.prevSeq = 0 /\ index.seq # h.seq THEN all
        ELSE IF index.seq = 0 THEN <<"lost">>
        ELSE IF index.seq = h.seq
        THEN IF index.off > Complete(path) THEN <<"lost">>
             ELSE index.hist \o TxnsOf(path, index.off, Complete(path))
        ELSE IF Ident(index).seq = h.prevSeq /\ index.off = h.prevOff THEN index.hist \o all
        ELSE IF path2 # 0 /\ file[path2].seq = index.seq /\ h.prevSeq = index.seq
        THEN index.hist \o TxnsOf(path2, index.off, h.prevOff) \o all
        ELSE <<"lost">>

(* Two processes are never both between having locked the head and         *)
(* unlocking it, so that "the log can't be written to while it's locked".  *)
OneWriter == \A p, q \in Critical : p = q

(* Whoever is about to append to the log, rotate it or rewrite             *)
(* dovecot.index has every committed transaction in its map: the map was   *)
(* brought up to the end of the log after the lock was taken, wherever the *)
(* log had been rotated to in the meantime.                                *)
WriterSeesAll ==
    loss \/ Damaged \/
    \A p \in Critical : pc[p] \in {"write", "synced", "rot1", "rotated"} =>
        op[p] = "reset" \/ map[p].hist = Effective(history)

(* Reading takes no lock, and yet what a process sees is always the state  *)
(* after some commit: nothing is skipped when the log is rotated between   *)
(* two of its system calls, nothing is applied twice or out of order, and  *)
(* no half-written transaction is applied.                                 *)
ReadsAPrefix ==
    loss \/ Damaged \/
    \A p \in Procs : pc[p] \notin {"closed", "openidx"} =>
        \E k \in 0..Len(history) : seen[p] = Effective(SubSeq(history, 1, k))

(* Whenever the log is not locked, what is on disk is enough to rebuild    *)
(* exactly what was committed, unless someone died between rotating the    *)
(* log and rewriting dovecot.index.                                        *)
Recoverable ==
    (~gap /\ ~loss /\ ~Damaged /\ path # 0 /\ lock[path] = NoProc) => Replay = Effective(history)

(* A file that has been rotated away does not change any more, and the     *)
(* next file knows where it ended.  A log that was prepared by a rotation  *)
(* that failed has no name, and no one has it open: its sequence is taken  *)
(* again by the next rotation.                                             *)
ChainFits ==
    Damaged \/ loss \/
    \A i, j \in {path, path2} \cup UNION {files[p] : p \in Procs} :
        (0 \notin {i, j} /\ file[j].prevSeq # 0 /\ file[i].seq = file[j].prevSeq)
            => file[j].prevOff = Size(i)

(* Also when a log has been marked corrupted and was replaced by another   *)
(* one, what a process sees consists of committed transactions, each at    *)
(* most once and in the order of the log, until fsck makes positions up.   *)
NothingInvented ==
    loss \/
    \A p \in Procs : \A i \in 1..Len(seen[p]) :
        /\ \E k \in 1..Len(history) : history[k] = seen[p][i]
        /\ \A j \in 1..(i - 1) : seen[p][j] < seen[p][i]

(* Nothing but a crash between rotating and rewriting dovecot.index makes  *)
(* a process fsck the index (and drop transactions by it): whatever is     *)
(* moved under it while it reads is found again on the second try.         *)
FsckOnlyAfterGap == loss => gap \/ Damaged

(* Every operation ends: no one waits for ever for a lock, or follows a    *)
(* log that is rotated again and again.                                    *)
OperationsEnd ==
    \A p \in Procs : pc[p] \notin {"idle", "closed"} ~> pc[p] \in {"idle", "closed"}

-----------------------------------------------------------------------------
(* What is left of p when only the lock counts. *)
LockPlace(p) ==
    CASE pc[p] \in {"closed", "unlinkbad", "create"} -> "closed"
      [] pc[p] \in {"lock", "check"}                 -> pc[p]
      [] pc[p] \in {"rot2", "rot3", "rot4"}          -> "rot"
      [] locked[p] /\ pc[p] \notin {"lock", "check", "rot2", "rot3", "rot4"} -> "crit"
      [] OTHER                                       -> "idle"

Lock == INSTANCE LogLock WITH
    NoIno <- 0,
    used <- 1..nfile,
    pc <- [p \in Procs |-> LockPlace(p)]

(* The log implements the locking protocol of LogLock: no rotation, reopen *)
(* or unlock happens other than as that protocol allows, so what is proved *)
(* of LogLock holds of the log, as long as no log file is damaged.         *)
ImplementsLogLock == Lock!Spec

Commits == INSTANCE CommitLog WITH
    log <- history,
    open <- {p \in Procs : pc[p] # "closed"},
    view <- seen

(* The log implements CommitLog: however reads, appends and rotations of    *)
(* several processes interleave, each step is a commit by someone who has   *)
(* seen everything before it, or brings one process's picture of the index  *)
(* forward to the state after some commit, also when that process had to    *)
(* go back to dovecot.index because the log it was reading is gone.         *)
ImplementsCommitLog == Commits!Spec
=============================================================================
