--------------------------- MODULE MailIndexSync ---------------------------
(***************************************************************************)
(* Synchronizing an index with its mailbox (lib-index/mail-index-sync.c).  *)
(* Sessions append requests to the transaction log (expunge this message,  *)
(* change that flag); whoever syncs does them to the mailbox, and the      *)
(* log's tail offset says how far that has come.  The tail offset is kept  *)
(* in five places: the header of each process's map, two fields of its     *)
(* open log file (max_tail_offset, last_read_hdr_tail_offset), header      *)
(* updates in the log, and dovecot.index.  A request before a tail offset  *)
(* that was not done is never done.                                        *)
(*                                                                         *)
(* The log is one sequence of records over all its files; an offset is a   *)
(* number of records and NoOffset is the file offset 0.  The current file  *)
(* begins at start, the file before it (.log.2) at older.  How records are *)
(* written, read and lost is the module TransactionLog; here a write is    *)
(* one step.                                                               *)
(*                                                                         *)
(* Left out: fsck, index deletion, dirty flags, need_recreate, failing     *)
(* writes; dovecot.index is rewritten whenever one of the thresholds of    *)
(* mail_index_sync_want_index_write() may be over.                         *)
(***************************************************************************)
EXTENDS Integers, Sequences, FiniteSets

CONSTANTS
    Procs,
    NoProc,
    MaxAppends,     \* bound: records other than header updates
    MaxRotations,   \* bound
    MaxCrashes      \* bound

ASSUME NoProcAssumption == NoProc \notin Procs
ASSUME BoundsAssumption ==
    {MaxAppends, MaxRotations, MaxCrashes} \subseteq Nat

VARIABLES
    log,        \* the records
    start,      \* where the current file begins
    older,      \* where the file before it begins
    index,      \* dovecot.index: file, head and tail offset
    proc,       \* what each process has in memory
    sync,       \* the sync in progress, whose process holds the log lock
    appends, rotations, crashes,    \* counters
    applied,    \* history: requests done to the mailbox
    skipped,    \* history: requests that a snapshot passed before they were
    panic       \* an assertion has failed

vars == <<log, start, older, index, proc, sync, appends, rotations, crashes,
          applied, skipped, panic>>
counters == <<appends, rotations, crashes>>

NoOffset == -1
Later(a, b) == IF a < b THEN b ELSE a
End == Len(log)

\* MAIL_TRANSACTION_EXTERNAL is set for changes that the mailbox already has.
\* req: an expunge or update asked for; int: a change only of the index;
\* ext, exp: external changes, external expunges; hdr: a new tail offset.
Kinds == {"req", "int", "ext", "exp", "hdr"}
Rec(kind) == [kind |-> kind, tail |-> NoOffset]
Header(tail) == [kind |-> "hdr", tail |-> tail]
Requests == {i \in 1..End : log[i].kind = "req"}

Closed == [open |-> FALSE, file |-> NoOffset, head |-> NoOffset, tail |-> NoOffset,
           log |-> NoOffset, offset |-> NoOffset, max |-> NoOffset,
           last |-> NoOffset]
NoSync == [proc |-> NoProc, stage |-> "none", update |-> FALSE, todo |-> {},
           pos |-> NoOffset, requests |-> FALSE, expunges |-> FALSE,
           full |-> FALSE]
Snapshot(file, pos) == [file |-> file, head |-> pos, tail |-> pos]
Unlocked == sync.proc = NoProc
Syncing(p, stage) == sync.proc = p /\ sync.stage = stage

Init ==
    /\ log = <<>>
    /\ start = 0
    /\ older = NoOffset
    /\ index = Snapshot(0, 0)
    /\ proc = [p \in Procs |-> Closed]
    /\ sync = NoSync
    /\ appends = 0 /\ rotations = 0 /\ crashes = 0
    /\ applied = {} /\ skipped = {}
    /\ panic = FALSE

-----------------------------------------------------------------------------
(* Reading the log and updating a map from it.                             *)

\* One record of the log file is read.
log_file_track_sync(f, rec) ==
    LET read == [f EXCEPT !.offset = @ + 1] IN
    CASE rec.kind \in {"req", "int"} -> read
      [] rec.kind = "hdr" ->
            IF rec.tail < f.last THEN read
            ELSE [read EXCEPT !.last = rec.tail, !.max = Later(@, rec.tail)]
      [] OTHER ->
            IF f.max = f.offset THEN [read EXCEPT !.max = @ + 1] ELSE read

\* Mutant: the tail offset of the map is not taken as the file's greatest one.
OpenFileTailOnly(r) ==
    LET f == IF r.log = start THEN r
             ELSE [r EXCEPT !.log = start, !.offset = start,
                            !.max = NoOffset, !.last = NoOffset]
    IN  IF r.file = start /\ r.head > f.offset
        THEN [f EXCEPT !.offset = r.head, !.last = r.tail]
        ELSE f

\* The log file of r that is open when the map of r is updated: the newest
\* one, read from the map's head offset when that is ahead.
OpenFile(r) ==
    LET f == IF r.log = start THEN r
             ELSE [r EXCEPT !.log = start, !.offset = start,
                            !.max = NoOffset, !.last = NoOffset]
    IN  IF r.file = start /\ r.head > f.offset
        THEN [f EXCEPT !.offset = r.head, !.last = r.tail, !.max = Later(@, r.tail)]
        ELSE f

\* r has read n more records of its log file.
log_file_read(r, n) ==
    LET f[i \in 0..n] == IF i = 0 THEN r
                         ELSE log_file_track_sync(f[i - 1], log[r.offset + i])
    IN  f[n]

\* The rest of the log is read and the map brought up to its end.
mail_index_sync_map(r) ==
    LET opened == OpenFile(r)
        f == log_file_read(opened, End - opened.offset)
        tail == IF f.file = start THEN f.tail ELSE NoOffset
    IN  [f EXCEPT !.file = start, !.head = End, !.tail = Later(tail, f.max)]

\* The same from dovecot.index instead of the map in memory.
FromIndex(r) ==
    mail_index_sync_map([r EXCEPT !.file = index.file, !.head = index.head,
                                  !.tail = index.tail])

\* The outcomes of mapping the index: the map is updated, or dovecot.index is
\* read again because that is less work or because the log is no longer there.
mail_index_map(r) ==
    (IF r.file \in {older, start} THEN {mail_index_sync_map(r)} ELSE {})
    \cup {FromIndex(r)}

\* Mutant: the offset is moved by the write and again by the reader.
WroteTwice(r, recs) == [r EXCEPT !.offset = @ + 2 * Len(recs)]

\* r after it has appended the records recs.
Wrote(r, recs) == [r EXCEPT !.offset = @ + Len(recs)]

-----------------------------------------------------------------------------
(* Sessions.                                                               *)

Open(p) ==
    /\ ~proc[p].open
    /\ proc' = [proc EXCEPT ![p] = FromIndex([Closed EXCEPT !.open = TRUE])]
    /\ UNCHANGED <<log, start, older, index, sync, counters, applied, skipped, panic>>

mail_index_refresh(p) ==
    /\ proc[p].open /\ sync.proc # p
    /\ \E r \in mail_index_map(proc[p]) : proc' = [proc EXCEPT ![p] = r]
    /\ UNCHANGED <<log, start, older, index, sync, counters, applied, skipped, panic>>

\* A transaction outside a sync, which takes the log lock itself.
Transaction(p, kind) ==
    /\ proc[p].open /\ Unlocked /\ appends < MaxAppends
    /\ kind \in {"req", "int", "ext"}
    /\ \E r \in mail_index_map(proc[p]) :
         /\ log' = Append(log, Rec(kind))
         /\ proc' = [proc EXCEPT ![p] =
                [Wrote(r, <<kind>>) EXCEPT !.head = End + 1]]
    /\ appends' = appends + 1
    /\ UNCHANGED <<start, older, index, sync, rotations, crashes, applied, skipped, panic>>

Crash(p) ==
    /\ proc[p].open /\ crashes < MaxCrashes
    /\ crashes' = crashes + 1
    /\ proc' = [proc EXCEPT ![p] = Closed]
    /\ sync' = IF sync.proc = p THEN NoSync ELSE sync
    /\ UNCHANGED <<log, start, older, index, appends, rotations, applied, skipped, panic>>

-----------------------------------------------------------------------------
(* A sync.                                                                 *)

\* Mutant: the map is compared with what it has read, not what is synced.
NeedSyncUnread(r) == r.head < End

mail_index_need_sync(r) == r.tail < End

\* Mutant: syncing only to lock counts as having synced everything.
SyncOfAll(p, r, update) ==
    LET seen == {i \in 1..End : i > Later(r.tail, start)}
        todo == {i \in seen : log[i].kind = "req"}
    IN  [proc |-> p, stage |-> "sync", update |-> update, todo |-> todo,
         pos |-> End, requests |-> todo # {},
         expunges |-> \E i \in seen : log[i].kind = "exp", full |-> TRUE]

\* What is to be done: the requests from the map's tail offset on.
SyncOf(p, r, update) ==
    LET seen == {i \in 1..End : i > Later(r.tail, start)}
        todo == {i \in seen : log[i].kind = "req"}
    IN  [proc |-> p, stage |-> "sync", update |-> update, todo |-> todo,
         pos |-> End, requests |-> todo # {},
         expunges |-> \E i \in seen : log[i].kind = "exp", full |-> FALSE]

\* mail_index_sync_begin() without REQUIRE_CHANGES, with or without
\* UPDATE_TAIL_OFFSET.
SyncBegin(p, update) ==
    /\ proc[p].open /\ Unlocked
    /\ \E r \in mail_index_map(proc[p]) :
         /\ proc' = [proc EXCEPT ![p] = r]
         /\ sync' = SyncOf(p, r, update)
    /\ UNCHANGED <<log, start, older, index, counters, applied, skipped, panic>>

\* With REQUIRE_CHANGES the log is locked only after a look at it without the
\* lock.
SyncBeginRequireChanges(p) ==
    /\ proc[p].open /\ sync.proc # p
    /\ \E r \in mail_index_map(proc[p]) :
         /\ proc' = [proc EXCEPT ![p] = r]
         /\ \/ ~mail_index_need_sync(r) /\ UNCHANGED sync
            \/ mail_index_need_sync(r) /\ Unlocked /\ sync' = SyncOf(p, r, FALSE)
    /\ UNCHANGED <<log, start, older, index, counters, applied, skipped, panic>>

\* The caller gets the next request and does it.
mail_index_sync_next(p, i) ==
    /\ Syncing(p, "sync") /\ i \in sync.todo
    /\ applied' = applied \cup {i}
    /\ sync' = [sync EXCEPT !.todo = @ \ {i}]
    /\ UNCHANGED <<log, start, older, index, proc, counters, skipped, panic>>

\* It is told that there are no more.
mail_index_sync_next_none(p) ==
    /\ Syncing(p, "sync") /\ sync.todo = {} /\ ~sync.full
    /\ sync' = [sync EXCEPT !.full = TRUE]
    /\ UNCHANGED <<log, start, older, index, proc, counters, applied, skipped, panic>>

\* An external transaction that the syncing process commits meanwhile.
SyncTransaction(p, kind) ==
    /\ Syncing(p, "sync") /\ appends < MaxAppends /\ kind \in {"ext", "exp"}
    /\ \E r \in mail_index_map(proc[p]) :
         proc' = [proc EXCEPT ![p] = Wrote(r, <<kind>>)]
    /\ log' = Append(log, Rec(kind))
    /\ appends' = appends + 1
    /\ UNCHANGED <<start, older, index, sync, rotations, crashes, applied, skipped, panic>>

\* How far the mailbox is synced once the sync s of process r is committed.
SyncedTo(r, s) == IF s.update THEN r.offset ELSE s.pos

\* Is the new tail offset worth a write?
mail_index_sync_update_mailbox_offset(r, s) ==
    /\ s.full
    /\ r.tail < SyncedTo(r, s)
    /\ s.expunges \/ s.requests \/ s.update

\* Mutant: the tail offset does not cover the record that it is in.
HeaderBefore(r, changes) ==
    IF r.max = r.last THEN changes ELSE Append(changes, Header(r.max))

\* The records that end the sync: its own changes and the tail offset, which
\* covers the write itself when everything before it is synced.
log_append_sync_offset_if_needed(r, changes) ==
    LET offset == IF r.max = r.offset THEN r.offset + Len(changes) + 1 ELSE r.max
    IN  IF offset = r.last THEN changes ELSE Append(changes, Header(offset))

\* mail_index_sync_commit() up to the write of dovecot.index.  The map is
\* brought to the end, or dovecot.index read again for that.
Commit(p, changes) ==
    /\ Syncing(p, "sync") /\ appends + Len(changes) <= MaxAppends
    /\ appends' = appends + Len(changes)
    /\ LET s == sync
           r == IF s.full
                THEN [proc[p] EXCEPT !.max = Later(@, SyncedTo(proc[p], s))]
                ELSE proc[p]
           any == changes # <<>> \/ mail_index_sync_update_mailbox_offset(r, s)
           recs == IF any THEN log_append_sync_offset_if_needed(r, changes) ELSE <<>>
           w == IF any /\ r.max = r.offset
                THEN [Wrote(r, recs) EXCEPT !.max = r.offset + Len(recs)]
                ELSE Wrote(r, recs)
       IN  /\ panic' = \/ panic
                       \/ s.full /\ SyncedTo(proc[p], s) < r.last
                       \/ any /\ r.max < r.last
           /\ log' = log \o recs
           /\ \E tail \in {w.tail} \cup (IF index.file = start THEN {index.tail}
                                       ELSE {NoOffset}) :
                proc' = [proc EXCEPT ![p] =
                    [w EXCEPT !.head = w.offset, !.tail = Later(tail, w.max)]]
    /\ sync' = [sync EXCEPT !.stage = "write"]
    /\ UNCHANGED <<start, older, index, rotations, crashes, applied, skipped>>

\* mail_index_write(): the log is rotated before dovecot.index is written.
Rotate(p) ==
    /\ Syncing(p, "write") /\ sync.full
    /\ rotations < MaxRotations /\ start < End
    /\ rotations' = rotations + 1
    /\ older' = start
    /\ start' = End
    /\ proc' = [proc EXCEPT ![p] =
            [open |-> TRUE, file |-> End, head |-> End, tail |-> End,
             log |-> End, offset |-> End, max |-> NoOffset, last |-> NoOffset]]
    /\ sync' = [sync EXCEPT !.stage = "recreate"]
    /\ UNCHANGED <<log, index, appends, crashes, applied, skipped, panic>>

\* The tail offset is written the same as the head offset, also by a sync
\* whose caller has not read all the requests.
mail_index_recreate(p) ==
    /\ Syncing(p, "recreate") \/ Syncing(p, "write")
    /\ index' = Snapshot(proc[p].file, proc[p].head)
    /\ skipped' = IF sync.full THEN skipped
                  ELSE skipped \cup ({i \in Requests : i <= proc[p].head} \ applied)
    /\ sync' = NoSync
    /\ UNCHANGED <<log, start, older, proc, counters, applied, panic>>

\* Nothing to write, or the sync is rolled back.
mail_index_sync_end(p) ==
    /\ Syncing(p, "write") \/ Syncing(p, "sync")
    /\ sync' = NoSync
    /\ UNCHANGED <<log, start, older, index, proc, counters, applied, skipped, panic>>

Next ==
    \E p \in Procs :
        \/ Open(p)
        \/ mail_index_refresh(p)
        \/ \E kind \in Kinds : Transaction(p, kind) \/ SyncTransaction(p, kind)
        \/ Crash(p)
        \/ \E update \in BOOLEAN : SyncBegin(p, update)
        \/ SyncBeginRequireChanges(p)
        \/ \E i \in sync.todo : mail_index_sync_next(p, i)
        \/ mail_index_sync_next_none(p)
        \/ \E changes \in {<<>>, <<Rec("ext")>>, <<Rec("exp")>>} : Commit(p, changes)
        \/ Rotate(p)
        \/ mail_index_recreate(p)
        \/ mail_index_sync_end(p)

Spec == Init /\ [][Next]_vars

-----------------------------------------------------------------------------
(* Properties.                                                             *)

Offsets == NoOffset..End

\* Types of the state: every offset a process or dovecot.index has is one that
\* the log has reached, and only requests are to be done or done.
TypeOK ==
    /\ \A i \in 1..End : log[i].kind \in Kinds /\ log[i].tail \in Int
    /\ start \in Offsets /\ older \in Offsets
    /\ index \in [file : Offsets, head : Offsets, tail : Offsets]
    /\ proc \in [Procs -> [open : BOOLEAN, file : Offsets, head : Offsets,
                           tail : Offsets, log : Offsets, offset : Offsets,
                           max : Offsets, last : Offsets]]
    /\ sync.proc \in Procs \cup {NoProc}
    /\ sync.todo \subseteq Requests
    /\ applied \subseteq Requests /\ skipped \subseteq Requests

\* Requests that nobody has to find any more.  The ones in skipped were given
\* up by a caller that committed a sync without reading them; only the rewrite
\* of dovecot.index in such a commit puts a request there.
Settled == applied \cup skipped

\* No tail offset of the five, nor the beginning of the current file, is past
\* a request that has not been done to the mailbox, unless a commit by a
\* caller that did not read its records rewrote dovecot.index over it: nothing
\* else, neither header updates, maps kept in memory, rereads, rotations nor
\* crashes, puts a request behind a tail offset.
TailSafe ==
    LET Done(tail) == \A i \in Requests : i <= tail => i \in Settled
    IN  /\ Done(start) /\ Done(index.tail)
        /\ \A i \in 1..End : log[i].kind = "hdr" => Done(log[i].tail)
        /\ \A p \in Procs : /\ Done(proc[p].tail) /\ Done(proc[p].max)
                            /\ Done(proc[p].last)

\* Whoever looks at the log next, with what it has in memory, from a reread
\* dovecot.index or after a restart, sees that there is something to sync as
\* long as a request is neither done nor given up that way, and gets every
\* such request.
RequestsFound ==
    LET left == Requests \ Settled IN
    left # {} => \A p \in Procs \ {sync.proc} :
        \A r \in (IF proc[p].open THEN mail_index_map(proc[p])
                  ELSE {FromIndex(Closed)}) :
            mail_index_need_sync(r) /\ left \subseteq SyncOf(p, r, FALSE).todo

\* What mail_index_recreate() says of itself where it writes the tail offset:
\* "This function must not be called unless it's safe to do this."  That is,
\* dovecot.index never has a tail offset past a request that is not done.
\* mail_index_sync_commit() makes only the rotation depend on the caller
\* having read all records, not the write, so this does not hold.
SnapshotSafe ==
    \A i \in Requests : i <= index.tail => i \in applied

\* The sync positions are never "broken": no header update points past the
\* record that it is in (log_file_track_mailbox_sync_offset_hdr() would declare
\* the log corrupted) and no map's tail offset is past its head offset
\* (mail_index_sync_begin_init() would fsck).  Nor does the tail offset shrink
\* below one read from the log, whichever processes have synced and rotated
\* meanwhile: the assertions of mail_transaction_log_set_mailbox_sync_pos() and
\* log_append_sync_offset_if_needed() do not fail.
PositionsFit ==
    /\ ~panic
    /\ \A i \in 1..End : log[i].tail <= i
    /\ \A p \in Procs : proc[p].tail <= proc[p].head

\* A sync that has nothing but the tail offset to write does so only to pass
\* something: were a tail update itself what the next sync has to pass, idle
\* processes would fill the log with them.  The first one of a file is an
\* exception, since a process that follows a rotation has no tail offset yet.
TailUpdatesPay ==
    [][LET old == {log[i].tail : i \in {j \in start + 1 .. End : log[j].kind = "hdr"}}
           new == log'[Len(log')].tail
       IN  log' # log /\ appends' = appends /\ old # {} =>
             \E k \in 1..new : log'[k].kind # "hdr" /\ \A t \in old : t < k]_vars
=============================================================================
