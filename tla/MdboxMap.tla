------------------------------ MODULE MdboxMap ------------------------------
(***************************************************************************)
(* Multi-dbox storage (lib-storage/index/dbox-multi).  Mails are kept in   *)
(* files m.1, m.2, ... that hold several mails each.  The map, an index of *)
(* its own, has a record for every mail: the file it is in and how many    *)
(* messages of all mailboxes refer to it.  A mailbox has messages that     *)
(* name a map UID.  Delivering and copying, expunging and purging change   *)
(* files, map and mailboxes in several steps, under three kinds of locks:  *)
(* the map, a mailbox, a mail file (tried, never waited for).              *)
(*                                                                         *)
(* The only trace of a process that stopped halfway is the map's log: its  *)
(* tail offset is behind its head (dirty).  The next process that locks    *)
(* the map sees that and marks the storage corrupted (noticed), which      *)
(* leads to a rebuild.  The rebuild is not modelled: behaviours end where  *)
(* it would begin.                                                         *)
(*                                                                         *)
(* The locking and reading of an index are the modules TransactionLog,     *)
(* MailIndexSync and MailIndexView: here beginning a sync locks an index   *)
(* and sees all of it, and a commit is one step.  Left out: alternative    *)
(* storage, attachments, sizes and ages of files (any file may be full).   *)
(***************************************************************************)
EXTENDS Integers, FiniteSets, Functions

CONSTANTS
    Procs,
    NoProc,
    Boxes,
    MaxMails,       \* bound: mails saved
    MaxFiles,       \* bound: files created
    RefLimit,       \* 32768 in mdbox_map_update_refcount()
    MaxFaults       \* bound: deaths of processes, failing writes to a mailbox
                    \* index, mail files that cannot be opened

ASSUME NoProcAssumption == NoProc \notin Procs
ASSUME BoundsAssumption ==
    /\ {MaxMails, MaxFiles, MaxFaults} \subseteq Nat
    /\ RefLimit \in Nat \ {0, 1}
ASSUME FiniteAssumption == IsFiniteSet(Procs) /\ Boxes # {}

VARIABLES
    map,        \* the map's records: UID -> file and reference count
    nextUid,    \* the map's next UID
    highest,    \* highest_file_id of the map's header
    dirty,      \* the tail offset of the map's log is behind its head
    files,      \* the mail files that exist: id -> mails and unrecorded mails
    box,        \* references: mailbox -> UID -> messages that name it
    requests,   \* those of them whose expunge is in the mailbox's log
    mapLock, boxLock, fileLock,
    proc,       \* what each process is doing
    noticed,    \* the storage was marked corrupted
    faults,     \* counter
    exposed     \* history: mails that the code does not protect, see below

vars == <<map, nextUid, highest, dirty, files, box, requests, mapLock, boxLock,
          fileLock, proc, noticed, faults, exposed>>
locks == <<mapLock, boxLock, fileLock>>
mapvars == <<map, nextUid, highest, dirty>>
boxes == <<box, requests>>
history == <<faults, exposed>>

Uids == 1..MaxMails
NoMail == 0
NoFile == 0
NewFile == -1       \* a temporary file that has no id yet
NoRequests == [u \in Uids |-> 0]

Idle == [op |-> "none", pc |-> "idle", box |-> CHOOSE b \in Boxes : TRUE,
         file |-> NoFile, purged |-> NoFile, mail |-> NoMail, copy |-> NoMail,
         todo |-> NoRequests, live |-> {}, dead |-> {}, success |-> FALSE]

\* Nothing is done once the storage is marked corrupted.
At(p, pc) == ~noticed /\ proc[p].pc = pc
Fault == faults < MaxFaults /\ faults' = faults + 1
Go(p, pc) == proc' = [proc EXCEPT ![p].pc = pc]
Stop(p) == proc' = [proc EXCEPT ![p] = Idle]

\* The messages that name a mail, and how many they are.
Messages(u) == UNION {{b} \X (1..box[b][u]) : b \in Boxes}
References(u) == Cardinality(Messages(u))
RecordsIn(f) == {u \in DOMAIN map : map[u].file = f}

\* The bound on files: those that exist, and those that may still be created.
NewFiles == {p \in Procs : proc[p].file = NewFile \/ proc[p].file > highest
                           \/ proc[p].pc = "scanned"}
Creatable == highest + Cardinality(NewFiles) < MaxFiles

\* Mutant: the file is not locked before it is appended to.
AppendableUnlocked == {f \in DOMAIN files : RecordsIn(f) # {}}

\* mdbox_map_find_appendable_file(): files that the map names and that can
\* be locked; mdbox_map_append_next() otherwise creates a file.
Appendable ==
    {f \in DOMAIN files : RecordsIn(f) # {} /\ fileLock[f] = NoProc}
Targets == Appendable \union {NewFile}

\* f with x -> v, where it has nothing for x yet.
Added(f, x, v) ==
    [y \in DOMAIN f \union {x} |-> IF y \in DOMAIN f THEN f[y] ELSE v]

\* n mails are written at the end of f.
Written(f, n) ==
    IF f \in DOMAIN files
    THEN [files EXCEPT ![f].unrecorded = @ + n] ELSE files

\* dbox_file_append_rollback(): the temporary file goes, or what was written
\* to an existing file is cut off.
Truncated(f, n) == Written(f, -n)

\* mdbox_file_assign_file_id() gives a temporary file a name.
FileId(f) == IF f = NewFile THEN highest + 1 ELSE f
Highest(f) == IF f > highest THEN f ELSE highest

\* The records of mails in f are written; n mails were unrecorded until now.
Recorded(f, mails, n) ==
    IF f \in DOMAIN files
    THEN [files EXCEPT ![f] = [mails |-> @.mails \union mails,
                               unrecorded |-> @.unrecorded - n]]
    ELSE files
Created(f, mails, n) == Added(files, f, [mails |-> mails, unrecorded |-> n])

Unlocked(lock, p) == [x \in DOMAIN lock |-> IF lock[x] = p THEN NoProc ELSE lock[x]]

Init ==
    /\ map = <<>>
    /\ nextUid = 1
    /\ highest = 0
    /\ dirty = FALSE
    /\ files = <<>>
    /\ box = [b \in Boxes |-> NoRequests]
    /\ requests = [b \in Boxes |-> NoRequests]
    /\ mapLock = NoProc
    /\ boxLock = [b \in Boxes |-> NoProc]
    /\ fileLock = [f \in 1..MaxFiles |-> NoProc]
    /\ proc = [p \in Procs |-> Idle]
    /\ noticed = FALSE
    /\ faults = 0
    /\ exposed = {}

-----------------------------------------------------------------------------
(* Delivering and copying.                                                 *)

Saving == {p \in Procs : proc[p].op = "deliver" /\ proc[p].mail = NoMail
                         /\ proc[p].file # NoFile}
Savable(n) == nextUid + Cardinality(Saving) + n <= MaxMails + 1

\* mdbox_copy() remembers the map UID of a message that a session sees in its
\* mailbox; nothing keeps the message there until the copy is committed.
Seen == {u \in Uids : References(u) > 0}

\* A transaction saves a mail to file f, copies a message, or does both.  The
\* mail is in the file before the map is locked.
Write(p, b) ==
    /\ At(p, "idle")
    /\ \E f \in Targets \union {NoFile},
          c \in Seen \union {NoMail} :
        /\ f # NoFile => Savable(1)
        /\ f = NewFile => Creatable
        /\ f # NoFile \/ c # NoMail
        /\ files' = Written(f, 1)
        /\ fileLock' = IF f > 0 THEN [fileLock EXCEPT ![f] = p] ELSE fileLock
        /\ proc' = [proc EXCEPT ![p] = [Idle EXCEPT
                        !.op = "deliver", !.pc = "lock", !.box = b,
                        !.file = f, !.copy = c]]
    /\ UNCHANGED <<mapvars, boxes, mapLock, boxLock, noticed, history>>

\* Mutant: the offsets of the map's log are not compared.
LockMapBlindly(p) ==
    /\ At(p, "lock")
    /\ mapLock = NoProc
    /\ mapLock' = p
    /\ Go(p, "mapped")
    /\ UNCHANGED <<mapvars, files, boxes, boxLock, fileLock, noticed, history>>

\* mdbox_map_atomic_lock() with mdbox_map_sync_handle().
LockMap(p) ==
    /\ At(p, "lock")
    /\ mapLock = NoProc
    /\ mapLock' = p
    /\ noticed' = dirty
    /\ Go(p, "mapped")
    /\ UNCHANGED <<mapvars, files, boxes, boxLock, fileLock, history>>

\* mdbox_sync_begin() with the map locked: the mailbox is locked and the
\* expunges requested in it are done, first in the map.  Every expunge must
\* find a reference to take back.
Counted(todo) ==
    \A u \in Uids : todo[u] > 0 => u \in DOMAIN map /\ map[u].ref >= todo[u]

SyncMap(p) ==
    LET b == proc[p].box
        todo == requests[b]
    IN
    /\ At(p, "mapped")
    /\ boxLock[b] = NoProc
    /\ boxLock' = [boxLock EXCEPT ![b] = p]
    /\ IF todo = NoRequests
       THEN Go(p, "synced") /\ UNCHANGED <<map, dirty, noticed>>
       ELSE /\ noticed' = ~Counted(todo)
            /\ map' = IF Counted(todo)
                      THEN [u \in DOMAIN map |->
                              [map[u] EXCEPT !.ref = @ - todo[u]]]
                      ELSE map
            /\ dirty' = TRUE
            /\ proc' = [proc EXCEPT ![p].pc = "refs", ![p].todo = todo,
                                    ![p].success = TRUE]
    /\ UNCHANGED <<nextUid, highest, files, boxes, mapLock, fileLock, history>>

\* dbox_sync_mark_expunges(): then in the mailbox.
SyncBox(p) ==
    LET b == proc[p].box
        without(f) == [u \in Uids |-> f[u] - proc[p].todo[u]]
    IN
    /\ At(p, "refs")
    /\ box' = [box EXCEPT ![b] = without(@)]
    /\ requests' = [requests EXCEPT ![b] = without(@)]
    /\ proc' = [proc EXCEPT ![p].pc = "synced", ![p].todo = NoRequests]
    /\ UNCHANGED <<mapvars, files, locks, noticed, history>>

\* mdbox_map_append_assign_map_uids(): the mail's file gets a name and its
\* record is committed, with one reference.  A new file is not locked.
Assign(p) ==
    LET f == FileId(proc[p].file)
        taken == proc[p].file = NewFile /\ f \in DOMAIN files
    IN
    /\ At(p, "synced")
    /\ proc[p].op = "deliver"
    /\ proc[p].file # NoFile
    /\ proc[p].mail = NoMail
    /\ noticed' = taken
    /\ map' = Added(map, nextUid, [file |-> f, ref |-> 1])
    /\ nextUid' = nextUid + 1
    /\ highest' = Highest(f)
    /\ dirty' = TRUE
    /\ files' = IF proc[p].file = NewFile
                THEN Created(f, {nextUid}, 0)
                ELSE Recorded(f, {nextUid}, 1)
    /\ exposed' = IF f \in DOMAIN files' THEN exposed ELSE exposed \union {nextUid}
    /\ proc' = [proc EXCEPT ![p].mail = nextUid, ![p].file = f]
    /\ UNCHANGED <<boxes, locks, faults>>

\* The rest of mdbox_transaction_save_commit_pre(): the mails to copy must
\* still have a record and room for a reference.
Prepared(p) ==
    /\ At(p, "synced")
    /\ proc[p].op = "deliver"
    /\ proc[p].file = NoFile \/ proc[p].mail # NoMail

\* Mutant: the count before the copy is compared with the limit.
CopyableOnceMore(u) == u = NoMail \/ (u \in DOMAIN map /\ map[u].ref < RefLimit)

\* mdbox_map_update_refcounts() for a copy.
Copyable(u) == u = NoMail \/ (u \in DOMAIN map /\ map[u].ref + 1 < RefLimit)

\* Mails whose file is gone or about to go, and whose records are still there.
Doomed ==
    {u \in DOMAIN map : map[u].ref = 0 /\ map[u].file \notin DOMAIN files}
    \union {u \in Uids : \E q \in Procs :
                /\ proc[q].pc \in {"purged", "remove", "removing"}
                /\ u \in proc[q].dead}

\* The mailbox transaction is committed: its messages refer to the mails.
Append(p) ==
    /\ Prepared(p)
    /\ Copyable(proc[p].copy)
    /\ box' = [box EXCEPT ![proc[p].box] = [u \in Uids |->
                  @[u] + Cardinality({n \in {"mail", "copy"} : proc[p][n] = u})]]
    /\ exposed' = exposed \union ({proc[p].copy} \intersect Doomed)
    /\ Go(p, "appended")
    /\ UNCHANGED <<mapvars, files, requests, locks, noticed, faults>>

\* mdbox_map_append_free() before mdbox_map_append_commit() cuts off what
\* was written; a file that this process created is removed, and with it
\* what others have appended to it since it has its name.
CreatedBy(p) == proc[p].file > 0 /\ fileLock[proc[p].file] # p
CutOff(p, mails) ==
    LET f == proc[p].file IN
    /\ files' = IF CreatedBy(p) THEN Restrict(files, DOMAIN files \ {f})
                ELSE IF f \in DOMAIN files
                     THEN [files EXCEPT ![f].mails = @ \ {proc[p].mail}]
                     ELSE files
    /\ exposed' = exposed \union (mails \ {NoMail})
                  \union (IF CreatedBy(p) /\ f \in DOMAIN files
                          THEN files[f].mails ELSE {})

\* mdbox_map_atomic_finish() commits the map's sync if something of it
\* succeeded, which moves the tail offset, and else leaves it behind.
TailAfter(p) == dirty /\ ~proc[p].success

\* mdbox_transaction_save_rollback(), because a mail cannot be copied or
\* because the mailbox transaction cannot be written.
Rollback(p) ==
    /\ Prepared(p)
    /\ \/ ~Copyable(proc[p].copy) /\ UNCHANGED faults
       \/ Fault
    /\ CutOff(p, {proc[p].mail})
    /\ fileLock' = Unlocked(fileLock, p)
    /\ boxLock' = Unlocked(boxLock, p)
    /\ mapLock' = NoProc
    /\ dirty' = TailAfter(p)
    /\ Stop(p)
    /\ UNCHANGED <<map, nextUid, highest, boxes, noticed>>

\* mdbox_transaction_save_commit_post(): the mailbox is unlocked, then the
\* references of the copied mail are committed.
Commit(p) ==
    LET u == proc[p].copy IN
    /\ At(p, "appended")
    /\ map' = IF u = NoMail THEN map ELSE [map EXCEPT ![u].ref = @ + 1]
    /\ dirty' = (dirty \/ u # NoMail)
    /\ boxLock' = Unlocked(boxLock, p)
    /\ fileLock' = Unlocked(fileLock, p)
    /\ proc' = [proc EXCEPT ![p].pc = "finish", ![p].success = TRUE]
    /\ UNCHANGED <<nextUid, highest, files, boxes, mapLock, noticed, history>>

\* mdbox_sync_finish() fails: the messages are in the mailbox, but the
\* references are not counted and the saved mail is cut off.
CommitFails(p) ==
    /\ At(p, "appended")
    /\ Fault
    /\ CutOff(p, {proc[p].mail, proc[p].copy})
    /\ boxLock' = Unlocked(boxLock, p)
    /\ fileLock' = Unlocked(fileLock, p)
    /\ Go(p, "finish")
    /\ UNCHANGED <<mapvars, boxes, mapLock, noticed>>

Finish(p) ==
    /\ At(p, "finish")
    /\ mapLock' = NoProc
    /\ dirty' = TailAfter(p)
    /\ Stop(p)
    /\ UNCHANGED <<map, nextUid, highest, files, boxes, boxLock, fileLock,
                   noticed, history>>

-----------------------------------------------------------------------------
(* Expunging.                                                              *)

\* A session asks for a message to be expunged.
Request(b, u) ==
    /\ ~noticed
    /\ requests[b][u] < box[b][u]
    /\ requests' = [requests EXCEPT ![b][u] = @ + 1]
    /\ UNCHANGED <<mapvars, files, box, locks, proc, noticed, history>>

\* mdbox_sync_try_begin() finds expunges in a mailbox ...
SyncTry(p, b) ==
    /\ At(p, "idle")
    /\ boxLock[b] = NoProc
    /\ requests[b] # NoRequests
    /\ boxLock' = [boxLock EXCEPT ![b] = p]
    /\ proc' = [proc EXCEPT ![p] = [Idle EXCEPT !.op = "sync", !.pc = "tried",
                                               !.box = b]]
    /\ UNCHANGED <<mapvars, files, boxes, mapLock, fileLock, noticed, history>>

\* Mutant: the mailbox stays locked.
SyncKeep(p) ==
    /\ At(p, "tried")
    /\ Go(p, "lock")
    /\ UNCHANGED <<mapvars, files, boxes, locks, noticed, history>>

\* ... and unlocks it again, because the map is to be locked first.
SyncRelease(p) ==
    /\ At(p, "tried")
    /\ boxLock' = Unlocked(boxLock, p)
    /\ Go(p, "lock")
    /\ UNCHANGED <<mapvars, files, boxes, mapLock, fileLock, noticed, history>>

\* mdbox_sync_finish(); mdbox_sync() then finishes the map's sync.
SyncFinish(p) ==
    /\ At(p, "synced")
    /\ proc[p].op = "sync"
    /\ boxLock' = Unlocked(boxLock, p)
    /\ proc' = [proc EXCEPT ![p].pc = "finish", ![p].success = TRUE]
    /\ UNCHANGED <<mapvars, files, boxes, mapLock, fileLock, noticed, history>>

-----------------------------------------------------------------------------
(* Purging.                                                                *)

Dying == {u \in DOMAIN map : map[u].ref = 0}

\* mdbox_map_get_zero_ref_files(): a file with a mail nothing refers to.
PurgeScan(p) ==
    /\ At(p, "idle")
    /\ Creatable
    /\ \E u \in Dying :
        proc' = [proc EXCEPT ![p] = [Idle EXCEPT !.op = "purge", !.pc = "scanned",
                                                !.purged = map[u].file]]
    /\ UNCHANGED <<mapvars, files, boxes, locks, noticed, history>>

\* The file does not exist: only its records are removed.
PurgeMissing(p) ==
    /\ At(p, "scanned")
    /\ proc[p].purged \notin DOMAIN files
    /\ Go(p, "remove")
    /\ UNCHANGED <<mapvars, files, boxes, locks, noticed, history>>

\* dbox_file_open() fails for another reason: the same is done.
PurgeUnopened(p) ==
    /\ At(p, "scanned")
    /\ proc[p].purged \in DOMAIN files
    /\ Fault
    /\ Go(p, "remove")
    /\ UNCHANGED <<mapvars, files, boxes, locks, noticed, exposed>>

PurgeBusy(p) ==
    /\ At(p, "scanned")
    /\ proc[p].purged \in DOMAIN files
    /\ fileLock[proc[p].purged] # NoProc
    /\ Stop(p)
    /\ UNCHANGED <<mapvars, files, boxes, locks, noticed, history>>

\* mdbox_file_purge() until it locks the map: the file is locked, its records
\* are read from the unlocked map and must be what is in the file, and the
\* mails that something refers to are written to another file.
PurgeFile(p) ==
    LET f == proc[p].purged
        mails == RecordsIn(f)
        dead == mails \intersect Dying
        live == mails \ dead
    IN
    /\ At(p, "scanned")
    /\ f \in DOMAIN files
    /\ fileLock[f] = NoProc
    /\ noticed' = (files[f] # [mails |-> mails, unrecorded |-> 0])
    /\ \E t \in IF live = {} THEN {NoFile} ELSE Targets \ {f} :
        /\ files' = Written(t, Cardinality(live))
        /\ fileLock' = [g \in DOMAIN fileLock |->
                           IF g \in {f, t} THEN p ELSE fileLock[g]]
        /\ proc' = [proc EXCEPT ![p].pc = "copied", ![p].file = t,
                                ![p].live = live, ![p].dead = dead]
    /\ UNCHANGED <<mapvars, boxes, mapLock, boxLock, history>>

\* Mutant: the mails are not looked at again.
DeadOnce(dead) == TRUE

\* mdbox_file_purge_check_refcounts(): has one of the other mails got a
\* reference meanwhile?
StillDead(dead) == \A u \in dead : u \in DOMAIN map => map[u].ref = 0

\* The map is locked, and mdbox_map_append_move() names the new file.
PurgeCheck(p) ==
    LET t == FileId(proc[p].file)
        new == proc[p].file = NewFile
        n == Cardinality(proc[p].live)
    IN
    /\ At(p, "copied")
    /\ mapLock = NoProc
    /\ StillDead(proc[p].dead)
    /\ noticed' = (\/ dirty
                   \/ ~(proc[p].dead \subseteq DOMAIN map)
                   \/ new /\ t \in DOMAIN files)
    /\ mapLock' = p
    /\ files' = IF new THEN Created(t, {}, n) ELSE files
    /\ proc' = [proc EXCEPT ![p].pc = "checked", ![p].file = t]
    /\ UNCHANGED <<mapvars, boxes, boxLock, fileLock, history>>

\* It has: this file is not purged.
PurgeCancel(p) ==
    /\ At(p, "copied")
    /\ mapLock = NoProc
    /\ ~StillDead(proc[p].dead)
    /\ noticed' = dirty
    /\ files' = Truncated(proc[p].file, Cardinality(proc[p].live))
    /\ fileLock' = Unlocked(fileLock, p)
    /\ Stop(p)
    /\ UNCHANGED <<mapvars, boxes, mapLock, boxLock, history>>

\* mdbox_map_append_move() and the commit of the map's sync: the records of
\* the mails that were written elsewhere are changed, the others expunged.  A
\* mail that was written and has no record any more is added to the map again
\* under a new UID, with no references.
Gone(p) == proc[p].live \ DOMAIN map
Again(p) == nextUid .. nextUid + Cardinality(Gone(p)) - 1

PurgeMove(p) ==
    LET t == proc[p].file
        live == proc[p].live
    IN
    /\ At(p, "checked")
    /\ live # {}
    /\ Savable(Cardinality(Gone(p)))
    /\ map' = [u \in (DOMAIN map \ proc[p].dead) \union Again(p) |->
                  IF u \in Again(p) THEN [file |-> t, ref |-> 0]
                  ELSE IF u \in live THEN [map[u] EXCEPT !.file = t] ELSE map[u]]
    /\ nextUid' = nextUid + Cardinality(Gone(p))
    /\ highest' = Highest(t)
    /\ files' = Recorded(t, (live \intersect DOMAIN map) \union Again(p),
                         Cardinality(live))
    /\ dirty' = FALSE
    /\ mapLock' = NoProc
    /\ fileLock' = [fileLock EXCEPT ![t] = NoProc]
    /\ exposed' = IF t \in DOMAIN files THEN exposed
                  ELSE exposed \union live \union Again(p)
    /\ Go(p, "purged")
    /\ UNCHANGED <<boxes, boxLock, noticed, faults>>

\* Nothing in the file was referred to: nothing is written to the map yet.
PurgeAll(p) ==
    /\ At(p, "checked")
    /\ proc[p].live = {}
    /\ mapLock' = NoProc
    /\ Go(p, "purged")
    /\ UNCHANGED <<mapvars, files, boxes, boxLock, fileLock, noticed, history>>

\* dbox_file_unlink(): only after unlocking the map.
PurgeUnlink(p) ==
    /\ At(p, "purged")
    /\ files' = Restrict(files, DOMAIN files \ {proc[p].purged})
    /\ fileLock' = Unlocked(fileLock, p)
    /\ Go(p, "remove")
    /\ UNCHANGED <<mapvars, boxes, mapLock, boxLock, noticed, history>>

\* mdbox_map_remove_file_id(): the records of the file are looked up in the
\* unlocked map ...
RemoveScan(p) ==
    LET mails == RecordsIn(proc[p].purged) IN
    /\ At(p, "remove")
    /\ proc' = [proc EXCEPT ![p] =
                  IF mails = {} THEN Idle
                  ELSE [@ EXCEPT !.pc = "removing", !.dead = mails]]
    /\ exposed' = IF proc[p].purged \in DOMAIN files
                  THEN exposed \union mails ELSE exposed
    /\ UNCHANGED <<mapvars, files, boxes, locks, noticed, faults>>

\* ... and expunged with the map locked.
Remove(p) ==
    /\ At(p, "removing")
    /\ mapLock = NoProc
    /\ mapLock' = p
    /\ noticed' = dirty
    /\ map' = Restrict(map, DOMAIN map \ proc[p].dead)
    /\ dirty' = TRUE
    /\ proc' = [proc EXCEPT ![p].pc = "finish", ![p].success = TRUE]
    /\ UNCHANGED <<nextUid, highest, files, boxes, boxLock, fileLock, history>>

-----------------------------------------------------------------------------
\* A process dies.  What it wrote stays, its locks do not.
Crash(p) ==
    /\ ~noticed
    /\ proc[p].pc # "idle"
    /\ Fault
    /\ mapLock' = IF mapLock = p THEN NoProc ELSE mapLock
    /\ boxLock' = Unlocked(boxLock, p)
    /\ fileLock' = Unlocked(fileLock, p)
    /\ exposed' = IF proc[p].pc = "appended"
                  THEN exposed \union ({proc[p].copy} \ {NoMail}) ELSE exposed
    /\ Stop(p)
    /\ UNCHANGED <<mapvars, files, boxes, noticed>>

\* Everything that was begun may be over, or the storage is to be rebuilt, or
\* a purge would need a UID beyond the bound.
Over ==
    /\ \/ noticed
       \/ \A p \in Procs : proc[p] = Idle
       \/ \E p \in Procs : At(p, "checked") /\ ~Savable(Cardinality(Gone(p)))
    /\ UNCHANGED vars

Next ==
    \/ \E p \in Procs :
        \/ \E b \in Boxes : Write(p, b) \/ SyncTry(p, b)
        \/ LockMap(p) \/ SyncMap(p) \/ SyncBox(p) \/ SyncRelease(p)
        \/ SyncFinish(p) \/ Finish(p)
        \/ Assign(p) \/ Append(p) \/ Rollback(p) \/ Commit(p) \/ CommitFails(p)
        \/ PurgeScan(p) \/ PurgeMissing(p) \/ PurgeUnopened(p) \/ PurgeBusy(p)
        \/ PurgeFile(p) \/ PurgeCheck(p) \/ PurgeCancel(p) \/ PurgeMove(p)
        \/ PurgeAll(p) \/ PurgeUnlink(p) \/ RemoveScan(p) \/ Remove(p)
        \/ Crash(p)
    \/ \E b \in Boxes, u \in Uids : Request(b, u)
    \/ Over

Spec == Init /\ [][Next]_vars

-----------------------------------------------------------------------------
Kept(u) ==
    /\ u \in DOMAIN map
    /\ map[u].file \in DOMAIN files
    /\ u \in files[map[u].file].mails

\* The state is well formed; above all, no two processes between them bring a
\* reference count to the limit that mdbox_map_update_refcount() sets far
\* below the 16 bits it has.
TypeOK ==
    /\ DOMAIN map \subseteq Uids
    /\ \A u \in DOMAIN map : /\ map[u].file \in 1..MaxFiles
                             /\ map[u].ref \in 0..RefLimit - 1
    /\ nextUid \in 1..MaxMails + 1
    /\ highest \in 0..MaxFiles
    /\ DOMAIN files \subseteq 1..MaxFiles
    /\ \A f \in DOMAIN files : /\ files[f].mails \subseteq Uids
                               /\ files[f].unrecorded \in Nat
    /\ \A b \in Boxes, u \in Uids : /\ requests[b][u] \in Nat
                                   /\ requests[b][u] <= box[b][u]
    /\ mapLock \in Procs \union {NoProc}
    /\ {dirty, noticed} \subseteq BOOLEAN

\* A mail that a message refers to has a record, and its data is in the file
\* the record names.
MailKept ==
    \A b \in Boxes, u \in Uids : box[b][u] > 0 => Kept(u)

\* The same, but for mails that the code does not protect: a mail copied after
\* a purge has checked that nothing refers to it; a copy whose process died, or
\* whose mailbox failed to sync, before its reference was counted; a mail whose
\* own save failed after it had a record; a mail in, or on its way to, a file
\* whose creator rolls back and removes it; a mail in a file that a purge could
\* not open, which mdbox_purge() takes for a file that does not exist.
KeptUnlessExposed ==
    \A b \in Boxes, u \in Uids :
        box[b][u] > 0 /\ u \notin exposed => Kept(u)

\* Whenever the map is not locked and its log has no unfinished changes, its
\* counts are the numbers of messages that refer to the mails: what a process
\* left unfinished shows.
RefsExact ==
    mapLock = NoProc /\ ~dirty /\ ~noticed =>
        \A u \in DOMAIN map \ exposed : map[u].ref = References(u)

\* While a purge has its file locked, nobody adds a mail to the file, whose
\* data would go with it, and nobody moves one of its mails elsewhere, so that
\* mdbox_map_append_move() changes no record of another file.  Records may
\* vanish meanwhile, as the comment there says ("another process already
\* expunged it and purged it"), but once the map is locked none that is to be
\* expunged has: mdbox_map_append_move() would end in i_unreached().
PurgeSeesFile ==
    \A p \in Procs :
        LET mails == proc[p].live \union proc[p].dead IN
        proc[p].pc \in {"copied", "checked"} /\ ~noticed =>
            /\ RecordsIn(proc[p].purged) = mails \intersect DOMAIN map
            /\ proc[p].pc = "checked" => proc[p].dead \subseteq DOMAIN map

\* A process that has the map waits for no mailbox whose holder waits for the
\* map ("lock the mailbox after map to avoid deadlocks").
NoWaitCycle ==
    \A p, q \in Procs :
        ~ /\ mapLock = p /\ proc[p].pc = "mapped"
          /\ boxLock[proc[p].box] = q /\ proc[q].pc = "lock"
=============================================================================
