# A TLA+ model of Dovecot's mailbox index and storage

Dovecot keeps the state of every mailbox (which messages there are, their
flags and UIDs) in an *index*: a snapshot file `dovecot.index` and an
append-only *transaction log* `dovecot.index.log` that many processes write and
read at the same time, readers without any lock.  Everything the program does to
a mailbox goes through it: IMAP sessions, deliveries, dsync, the storage
formats.  It is also the part that unit tests reach least, because its
difficulties are orders of system calls of several processes, crashes between
two of them, and sessions that lag behind each other inside one process.  This
project models it in TLA+, from the system calls of the log up to the
multi-dbox storage that is built on it, together with the dotlocks the storage
uses and the indexer's queue, checks it with TLC on small instances, and proves
with TLAPS, for instances of any size, its locking, what the log promises, the
positions and requests of the index sync, the dotlocks, the indexer's queue and
most of what is checked of the multi-dbox storage.

Paths below are relative to the repository's `src/`.

## 1. The system and its parts

| part | state | operations | what is hard |
|---|---|---|---|
| transaction log (`lib-index/mail-transaction-log*.c`) | files `.log`, `.log.2`, `.log.newlock`; per process `log->head`, `log->files`, `sync_offset`, `locked` | open, create, lock the head, append, map, rotate, clean | names move between files while they are waited for; unlocked readers; death in the middle of a write |
| index snapshot (`mail-index-write.c`, `mail-index-map-read.c`, `mail-index-fsck.c`) | `dovecot.index`, `index->map`, `index->fd` | read, rewrite by rename, reset, fsck | snapshot and logs must fit together after any crash |
| index sync (`mail-index-sync.c`) | head and tail offsets, `ext_trans`, sync records | begin, next, commit | requested changes must be carried out exactly once |
| maps and views (`mail-index-map.c`, `mail-index-view*.c`, `mail-index-sync-update.c`) | reference-counted maps over shared record arrays; per view two log positions | view sync with or without expunges, refresh | copy-on-write, in-place flags, delayed expunges, lost logs |
| building transactions (`mail-index-transaction-*.c`) | arrays of appends, flag ranges, keyword updates | update, finish, export | merging and sorting of ranges |
| cache file (`mail-cache*.c`) | `dovecot.index.cache`, `file_seq` = extension reset id | add, lookup, purge | offsets into a file that was replaced |
| modseqs (`mail-index-modseq.c`, `mail-transaction-log-modseq.c`) | highest modseq per position | lookup, update | recomputed from the log in different ways |
| storage formats (`lib-storage/index/{maildir,mbox,dbox-*,imapc,pop3c}`, `plugins/virtual`) | mail files, uidlist, mdbox map with reference counts | sync, save, copy, expunge, purge | two stores changed one after the other |
| mailbox list index (`lib-storage/list`) | an index whose messages are mailboxes | sync, notify | stale status |
| dotlocks, file locks (`lib/file-dotlock.c`, `lib/file-lock.c`) | lock files | create, replace, override when stale | overriding by name |
| I/O loop, streams, events, containers (`lib/`) | in-process | | |
| master (`master/`) | processes per service, status pipe, throttling | fork, reap, listen | limits and races with dying processes |
| anvil (`anvil/`) | sessions per user and address, penalties | connect, disconnect, kill | processes dying with sessions open |
| auth (`auth/`, `lib-auth-client/`, `login-common/`) | requests, delayed failures, workers | | timeouts and aborts |
| protocol services (`imap`, `pop3`, `submission`, `lmtp`, `lda`), `imap-hibernate` | sessions on views | | hand-over of a connection |
| indexer (`indexer/`) | queue of requests per user and mailbox | append, work, finish, cancel | requests merged while they are worked on |
| dict (`dict/`, `lib-dict*/`) | pipelined commands | | reconnects |
| doveadm and dsync (`doveadm/`) | brain state machine of two replicas | | both sides change meanwhile |
| protocol and content libraries, config, stats, log, plugins | | | |

The interactions that the models are about:

* **process – process**, through the files: the log is locked by inode
  (`fcntl()` or `flock()`), found by name, appended to with `O_APPEND`, replaced
  by `rename()`; readers only `stat()`, `open()` and `mmap()`/`read()`.
* **index – view**, inside one process: `index->map` follows the log whenever
  anything refreshes it; a view moves only in its own sync, but shares maps and
  records with the index and the other views.
* **view – client**: `lib-storage/index/index-sync.c` turns a view sync into
  what an IMAP client is told (EXPUNGE, FETCH FLAGS, EXISTS).

Properties that make the parts correct: one writer at a time; a writer has seen
everything before it; a reader always has the state after some commit and never
goes back; disk state is enough to rebuild what was committed; views keep the
sequence numbers their client knows; each expunge and flag change reaches the
client; no assertion fails.

## 2. Modules

| module | models | uses |
|---|---|---|
| `LogLock` | who may write: name, inode locks, heads | |
| `LogLock_proofs` | theorems about `LogLock` | `LogLock`, `TLAPS` |
| `CommitLog` | what the log promises: one growing sequence, read forward | |
| `CommitLog_proofs` | theorems about `CommitLog` | `CommitLog`, `TLAPS` |
| `TransactionLog` | the log, its files, the snapshot, by several processes | implements `LogLock` and `CommitLog` |
| `TransactionLog_proofs` | theorems about it, and that it implements `LogLock` | `TransactionLog`, `FiniteSetTheorems`, `TLAPS` |
| `TransactionLogData_proofs` | theorems about what is in the log, and that it implements `CommitLog` | `TransactionLog_proofs`, `SequenceTheorems` |
| `MailIndexSync` | requests in the log, and the tail offset that says which are done | |
| `MailIndexSync_proofs` | theorems about it | `MailIndexSync`, `TLAPS` |
| `MailIndexView` | index map, views and clients inside one process | |
| `MdboxMap` | multi-dbox files, the map's reference counts, mailboxes | |
| `MdboxMap_proofs` | theorems about it | `MdboxMap`, `TLAPS` |
| `Dotlock` | lock files, judged stale and removed by name | |
| `Dotlock_proofs` | theorems about it | `Dotlock`, `TLAPS` |
| `IndexerQueue` | the indexer's requests, workers and waiting clients | |
| `IndexerQueue_proofs` | theorems about it | `IndexerQueue`, `FiniteSetTheorems`, `TLAPS` |
| `MC…` | symmetry sets and keys for TLC | |

The modules are layers: `TransactionLog` has the files and system calls and
implements `CommitLog`, an append-only sequence.  `MailIndexSync` and
`MailIndexView` take the log as such a sequence, and `MdboxMap` takes an index as
something that is locked, read completely and committed to in one step.

### LogLock

The abstract specification of the locking protocol of
`mail_transaction_log_lock_head()`, `…_has_changed()`, `…_rotate()` and
`…_file_create2()`.  `path` is the inode the name leads to, `lock[i]` the owner
of inode `i`, `head[p]` the process's handle.  A process locks the inode it
knows, *then* looks where the name leads (`CheckSame`, `CheckChanged`).
Rotation creates and locks a new file before the name moves to it.  `Crash` may
happen anywhere; the kernel drops the locks.

### CommitLog

The abstract specification of the log for those above it.  `log` is the sequence
of committed transactions, `view[p]` what a process that has the index `open` has
read.  `Commit` needs `view[p] = log`; `Read` goes forward to some prefix.

### TransactionLog

The same protocol with everything that depends on it: contents of the files,
two names, the snapshot, half-written transactions, maps, retries, fsck, reset,
I/O errors.

* A transaction takes `TxnSize = 2` units of a file and is written in two steps
  (`WritePart`, `WriteRest`), so that a reader or a crash can come in between.
  Offsets count units after the header.  A half-written transaction stands for a
  half-written record and for a `MAIL_TRANSACTION_BOUNDARY` whose records are
  not all there.
* A map is a log position and the sequence of transactions it contains
  (`hist`): what the transactions say does not matter here, only which ones
  have been applied, in which order.
* `pc[p]` is a place between two system calls that others can observe; code
  between two such calls is one action.  Reading follows
  `mail_transaction_log_view_set()`: find the files of the range one by one
  (`FindRefresh`, `FindOld`, `FindEnd`, with `.log.2` opened when an older file
  is wanted), then map them newest first (`MapFile`), each checked against the
  next.  A lost log leads to `Reopen` and to `LostFsck`, as in
  `mail_index_map_latest_file()` and `mail_index_map_latest_sync()`.
* `op[p]` is what the process is doing: `read`, `commit`, `sync`, `reset` (a
  `mail_index_reset()` transaction before its rotation), `fill` (after it) and
  `fsck`.
* An operation that leaves the process without a usable index on disk (index
  moved to memory, mailbox found deleted) ends in `Forget`: the process is as if
  closed and may open the mailbox again.
* `history`, `seen`, `gap`, `loss` and `count` are history variables:
  committed transactions, what each process last completed, whether someone
  died between rotating and rewriting the snapshot, whether fsck dropped
  transactions, and the use of the bounds.
* `ImplementsLogLock` is the refinement: `LogLock` with
  `pc <- [p |-> LockPlace(p)]` and `used <- 1..nfile`.  `ImplementsCommitLog` is
  `CommitLog` with `log <- history` and `view <- seen`.

### MailIndexSync

Requests (`req`: expunge this, change that flag) are transactions that some
process has to carry out on the mailbox; the *tail offset* says how far that has
come.  It is kept in the map header of each process (`proc[p].tail`), in two
fields of its open log file (`max`, `last`), in header updates in the log (`hdr`
records) and in `dovecot.index`.  The log is one sequence of records over all
its files; `start` and `older` are where the current file and `.log.2` begin.

* `mail_index_map`, `mail_index_need_sync`, `mail_index_sync_next` and others
  have the names of the functions they model.  `SyncOf` is
  `mail_index_sync_begin_to2()` with its flags; `Commit(p, changes)` is
  `mail_index_sync_commit()` up to `mail_transaction_log_append_commit()`,
  `log_append_sync_offset_if_needed()` included; `Rotate`, `mail_index_recreate`
  and `mail_index_sync_end` are the rest.
* Kinds of records: requests, internal and external changes, external expunges,
  and header updates.  `applied` is the set of requests done to the mailbox.
  `skipped` is the set of those that were given up: a sync whose caller has not
  read its records, which uses it as a lock, may rewrite `dovecot.index` like any
  other, and puts the tail offset past them.

### MailIndexView

One process, its `index->map`, and its views.  `heap` holds
`struct mail_index_map` objects (message count, next UID, log position, record
map) and `struct mail_index_record_map` objects (records, `last_appended_uid`);
a map shows the first `n` records of a record map that others may share, which
is how the code does it.  `Clone`, `PrivateRecords`, `AddRecord`, `SetFlag`,
`DropRecord` are `mail_index_map_clone()`,
`mail_index_record_map_move_to_private()`, `sync_append()`,
`sync_flag_update()` (in place), `sync_expunge_range()`.

* The log is a sequence of records (append, expunge, expunge request, flag,
  reset); a position counts records; `tail` is the first position that is still
  available.  `NoPos` stands for `log_file_seq = 0`.
* `SyncBegin`, `SyncBeginLost`, `SyncNext`, `SyncCommit`, `SyncFix` are the steps
  of `mail-index-view-sync.c`.  `client[v]` is the message list of the client of
  the view, changed only by what `index-sync.c` reports, by sequence number.
* Records of one sync are read in one go: `index_view_sync_recs_get()` loops
  over them without returning to the I/O loop, so other actions wait
  (`Reading`).  Reporting and committing come later and interleave with
  everything else.
* `WriteHidden` is a commit with `MAIL_INDEX_TRANSACTION_FLAG_HIDE`: the
  commit maps all of the log before it writes and refreshes afterwards.
* A failing `i_assert()` sets `panic`.
* Keywords, extension records, header counters and modseqs are left out.  They
  are changed by the same functions at the same places as flags.

### MdboxMap

Mails are kept in files that hold several mails; the *map* has a record per mail
(its file, its reference count); a mailbox has messages that name a mail.
`map`, `files`, `box`, `requests` are these stores, `mapLock`, `boxLock`,
`fileLock` the locks.  A process goes through the steps of

* a save or copy: `Write` (append to a file it has locked or to a new one),
  `LockMap`, `SyncMap`, `Assign` (UIDs and file names), `SyncBox`, `Append`,
  `Commit` (references, then files), `Finish`, or `Rollback`;
* an expunge: `Request`, `SyncTry`, `SyncRelease` (the mailbox is given back
  because the map has to be locked first), `SyncFinish`;
* a purge: `PurgeScan`, `PurgeFile`, `PurgeCheck`, then `PurgeMove`, `PurgeAll` or
  `PurgeCancel`, `PurgeUnlink`, `RemoveScan`, `Remove`.  A file that is missing
  (`PurgeMissing`) or cannot be opened (`PurgeUnopened`) only has its records
  removed.  `PurgeMove` adds a mail that it has moved and whose record is `Gone` to
  the map again, under a new UID (`Again`).

`dirty` is the map's tail offset being behind its head, the only trace of a
process that stopped halfway; `noticed` that the next one saw it and marked the
storage corrupted.  `exposed` is a history variable that names the mails the
code does not protect (next section).

### Dotlock

`lock` is the file `path.lock`, with inode number, PID and time; `proc[p]` holds
`struct lock_info` and `struct dotlock`.  Every `lstat()`, `open()`, `link()`,
`unlink()` and `rename()` is a step of its own: `Check`, `ReadPid`, `Recheck` and `Age`
are the parts of `check_lock()`, `Override` its `unlink()`, `Delete` and `Unlink` the
two calls of `file_dotlock_delete()`, `VerifyOwner` and `Rename` those of
`file_dotlock_replace()`.  The clock moves between any two steps.  Inode numbers
are used again as soon as a file has no name and is not open.  `lost` is a history
variable: how locks of live owners were taken from them.  So are three fields of
`proc[p]`: `raced` (the lock or the file changed since the last look), `late` (the
last change noticed is newer than the time noted for it) and `seen` (the lock
file whose PID was read).

### IndexerQueue

The indexer process is an event loop; every handler is an action.  `req[k]` is
the request of mailbox `k` (`struct indexer_request`), `queue` the list,
`conn[s]` a worker connection.  The loop of `queue_try_send_more()` is taken step
by step (`MoveHead`, `SendHead`, `ConnectFails`, `LoopEnd`) while nothing else can
run.  A *ticket* is a client that waits for the final status.

## 3. What TLC checks

`tlc -config X.cfg MCModule`; every passing run takes between a second and
three and a half minutes.

| run | cfg | shows |
|---|---|---|
| `lock` | `LogLock` | three processes, four inodes: `OneWriter`, `HeadIsCurrent`, `NameMovesUnderLock` |
| `log_rotate` | `LogRotate` | two processes, two rotations, a death, failing writes: `WriterSeesAll`, `ChainFits`, `Recoverable` |
| `log_faults` | `LogFaults` | all faults together, a torn write, failing writes and fsyncs and a reset of the index among them: `FsckOnlyAfterGap` |
| `log_torn` | `LogTorn` | a process dies within write(): `NothingInvented`, `ReadsAPrefix` |
| `log_live` | `LogLive` | no faults: every operation ends (`OperationsEnd`), and the refinements of `LogLock` and `CommitLog` |
| `view_sync` | `ViewSync` | a view shares maps with the index; five log records, one of them perhaps a reset, or four and logs that disappear: `IndexIsLog`, `FlagsReported`, `SyncedIsIndex`, `SequencesAgree`, `NoPanic`, `DelayedExpungesPending`, `InconsistentOnlyByReset` |
| `index_sync` | `IndexSync` | two processes make and do requests, rotate twice, one dies: `TailSafe`, `RequestsFound`, `PositionsFit`, `TailUpdatesPay` |
| `mdbox` | `Mdbox` | two processes save, copy, expunge and purge, one dies, fails to write or cannot open a mail file: `KeptUnlessExposed`, `RefsExact`, `PurgeSeesFile`, `NoWaitCycle` |
| `dotlock` | `Dotlock` | two processes, one dies and its PID comes back: `OnlyOwner`, `LossExplained` |
| `indexer` | `Indexer` | `QueuedOrWorking`, `WaitersKept`, `NeverStalled`, `DoneAsAsked`, `EveryoneAnswered` |
| `mdbox_purge` | `MdboxPurge` | expects a violation of `MailKept` |
| `index_partial` | `IndexPartial` | expects a violation of `SnapshotSafe` |

**`mdbox_purge`** states what a comment of the repository says and finds it
violated by the code.  A purge that keeps nothing of a file checks the reference
counts under the map's lock (`mdbox-purge.c:395`), but then has nothing to write:
it unlocks the map, unlinks the file and removes its records.  A message copied
between the unlock and the unlink refers to a mail that is gone.  No crash and no
failure is needed.

**`index_partial`** does the same for a comment in `mail_index_recreate()`
(`mail-index-write.c:77-79`).  It writes the tail offset of `dovecot.index` the same
as the head offset, and "must not be called unless it's safe to do this".  But
`mail_index_sync_commit()` makes only the rotation depend on the caller having read
all records (`mail-index-sync.c:979`), not the write (983), and some callers commit
without having read any: `dbox-storage.c:404-420`, `mdbox-storage-rebuild.c:749` and
`mdbox-map.c:1479` use the sync as a lock.  A request that another session made
before is then behind the tail offset and never done.  Whether it matters depends
on the caller: a rebuild takes care of all mails anyway.  `TailSafe` and
`RequestsFound` say that this is the only way: they are about all other requests.

### Where the code gives way

Each of these was met as a counterexample, most of them by loosening one
constant or stating the stronger property; the passing runs state what holds
beside them.

* *Transaction log.*  (a) A write that is taken back after a failing `fdatasync()`
  (`mail-transaction-log-append.c:46`) was already read by another process, which
  misses the transaction written in its place and rewrites `dovecot.index`
  without it: `Recoverable` with `IOFaults = {"fsync"}`, `MaxTxns = 2`.
  (b) With `fcntl()` locks, looking into `.log.2` while it is still the same file as
  `.log` drops the lock (`mail-transaction-log.c:472`), after a rotation that died
  between `link()` and `rename()`: `LockedIsLocked` with `LockMethod = "fcntl"`,
  `MaxCrashes = 1`.  (c) fsck within a commit unlocks the log
  (`mail-index-fsck.c:476`) and the commit goes on writing: `OneWriter` with
  `MaxFiles = 2`, `MaxTxns = 1`, `MaxCrashes = 1`.  (d) A reset removes `dovecot.index`
  after it unlocked the log (`mail-index-transaction.c:203`), possibly one that
  someone else has written since: `Recoverable` with `MaxResets = 1`,
  `MaxFiles = 3`.

  `LockMethod` is therefore `"flock"` where processes may die, although `lock_method`
  defaults to `fcntl`; `log_live`, in which nobody dies, has `"fcntl"`.
  `WriterSeesAll`, `ReadsAPrefix`, `Recoverable` and `ChainFits` are stated for
  states in which no file has been marked corrupted (`Damaged`) and fsck has
  not moved the index (`loss`), and are checked without failing `fdatasync()` and
  without resets: nothing is claimed of (a) and (d) beyond `FsckOnlyAfterGap`, which
  `log_faults` checks with every fault.  `log_torn` covers what still holds of
  damaged logs.  The refinements are checked without faults; with a death, fsck
  may take transactions away (after a gap) or unlock early (c).
* *mdbox*, beside the purge above.  (a) A copy whose process dies, or whose mailbox
  sync fails, between the mailbox commit and the reference count commit
  (`mdbox-save.c:391`) leaves a count that is too low, and the tail offset does
  not show it.  When `mdbox_sync_finish()` fails, mails just saved are cut off
  again although their messages may be in the mailbox's log.  (b) A rollback
  after the file has got its name removes a new file, into which others may
  have appended meanwhile (`dbox-file.c:528`).  (c) Noticing that the storage is
  corrupted is known to one process until the rebuild, and that process moves
  the tail offset on, so that another does not notice.  (d) When
  `dbox_file_open()` fails for another reason than that the file is gone, a purge
  treats it the same and removes all records of the file, also those of mails that
  messages refer to (`mdbox-purge.c:674-681`).  This is also the only way the model
  has to reach what a comment in `mdbox_map_append_move()` describes
  (`mdbox-map.c:1384-1393`), "another process already expunged it and purged it": a
  second purge that opens the file is kept away by the lock of the file, so
  records of mails that a purge has moved can vanish only by one that could not
  open it.
* *Dotlocks.*  `LossExplained` lists how a live owner can lose its lock.  The
  window between another process's last look and its `unlink()` is what the sleep
  of `dotlock_override()` is for; on the stale-timeout path the last look at the
  lock comes before the protected file is examined, so it is longer than on the
  PID path.  `check_lock()` notes a change with the time at which it was called,
  so a change noticed at its second look, or when it examines the protected
  file, is taken for older than it is and the lock may be overridden sooner than
  `stale_timeout` after it ("backdated").  A lock file that was removed and created
  again in the same second with the same inode number passes for the one whose
  PID was found dead; the comment at `file-dotlock.c:234` knows of such files and
  has the PID read again, but not between `kill()` and the override ("twin").
  The proof of `LossIsExplained` found these two.
  An owner that has lost its lock may then remove the next owner's when
  the inode number is the same, because `file_dotlock_delete()` only warns about
  a different mtime.  A process that may not wait and removes a stale lock
  still fails with `EAGAIN`, since `check_lock()` returns 0 after an override.
* *Indexer.*  `working_context_idx` is not reset when a request is queued again
  (`indexer-queue.c:250-264`).  A `REMOVE` that cancels it then walks past the end
  of the array of contexts (`NoPanic` of `IndexerQueue` fails), unless as many
  clients wait as before.  Clients of a queued request that is removed never get
  a status, contrary to `indexer-queue.h:37-39`: `EveryoneAnswered` excludes them
  (`hit`).
* The comment on cutting garbage off the end of the log
  (`mail-transaction-log-append.c:176`) describes something that does not happen
  after a torn write: mapping the locked log marks it corrupted first.
* The lost-log path of a view sync zeroes the log position of the view's map
  (`mail-index-view-sync.c:494`), which may be the map of the index; the head of
  the view is then 0, behind its expunge position, until the next sync.  Another
  view that shares that map and syncs before the index is refreshed finds that
  the "log position went backwards" (69) and becomes inconsistent:
  `InconsistentOnlyByReset` with `Views = {v1, v2}`, `MaxLog = 2`.

### Bounds

* Two processes are enough for every trace met so far: one in the middle of an
  operation, the other doing all the rest.  `LogLock` is checked with three and
  proved for any number.
* `MaxFiles = 3` gives two rotations: a file that is found, rotated to `.log.2`
  and rotated away altogether while a reader is looking for it.
* `MaxTxns` 1–2: whether a transaction is before or after a rotation, seen half
  written, or lost.  Transactions are numbered, so one is told from another.
* `MaxCrashes`, `MaxTorn`, `MaxResets`: 0 or 1 each.
* `view_sync`: one view and the index, which share maps and records; five
  records (`MaxLog`; an expunge request or a loss of logs takes the place of one),
  two UIDs, one loss, one reset.  Five records are what it takes to append a
  message, hold its expunge back, append another one and change its flag twice,
  and the mutant of `IndexIsLog` needs them.  Checked once with three UIDs (2.3
  million states).  Sharing between two views is in no run: all but
  `InconsistentOnlyByReset` (see above) were checked once with two views, one
  message and three records (4.6 million states).
* `index_sync`: two records beside header updates, two rotations, one crash: a
  request can be two files back, done or not.  Checked once with three records.
* `mdbox`: two mails, three files, one fault; a purge then has a file with a
  live and a dead mail, a target, and a file of someone else.  The reference
  limit is 3 instead of 32768.  Checked once with two mailboxes, and with a death
  and a failing write together.
* `dotlock`: `StaleTimeout` of one second, `PidCheckSecs` 0, three seconds, two
  lock files.  Each way of losing a lock is reached.  Checked once with three
  lock files (25 million states).
* `indexer`: two users with three mailboxes, two workers, three requests, two
  waiting clients.
* `log_rotate` has two rotations, so that `.log.2` may be a newer file than the one
  a process decided on.  It was also checked with `fcntl()`.  `log_faults` has one
  rotation and one transaction; with two transactions and no torn write it was
  checked once (4.9 million states).
* Symmetry is used for processes, never with liveness.
* `CHECK_DEADLOCK FALSE` in the view and indexer runs: with `MaxLog` reached and the client
  up to date there may be nothing left to do.

### Fairness

`FairSpec` assumes weak fairness of `Work(p)`: a process that has started an
operation is scheduled again.  Locks need no fairness of their own, because
`file_wait_lock()` gives up after `MAIL_TRANSACTION_LOG_LOCK_TIMEOUT`
(`Timeout`).  Starting operations, crashing and I/O errors are not fair.  The
number of rotations that can keep a process in the `lock_head()` loop is finite
in the model by `MaxFiles`; in the code it is bounded only by what others do.

`FairSpec` of `IndexerQueue` assumes that the event loop goes on, that a `connect()`
which is tried again and again succeeds at last, and that a worker answers or
dies (its connection is then closed, which the indexer handles as a failure).

## 4. What is proved

`LogLock_proofs`, for every set of processes and every (also infinite) set of
inodes, from `LockAssumption` alone (the "none" values are not members):

* `TypeCorrect`: `Spec => []TypeOK`
* `MutualExclusion`: `Spec => []OneWriter`
* `HeadCurrent`: `Spec => []HeadIsCurrent`
* `NameMoves`: `Spec => NameMovesUnderLock`
* `Invariance`: `Spec => []IInv`, on which the others rest.

`OneWriter` is not inductive: nothing in it says that the process which passed
the check still owns the lock of the file that the name leads to, or that the
file a rotating process is about to publish is locked and unknown to others.
`IInv` adds `HandlesOK` (every handle leads to an allocated file, an unallocated
inode is not locked) and `LockOwner` (past `Acquire` a process owns the lock of
its head; past the check its head is where the name leads; while rotating it
also owns the new file, which is nobody's head).  There is one lemma per part,
with one step per action.  With `IInv`, two processes past the check would own
the same lock.

`CommitLog_proofs`, for any processes and transactions, without assumptions:

* `ViewsAgree`: `Spec => []Agreement`, of any two views one extends the other
* `Invariance`: `Spec => []IInv`, on which it rests.

`Agreement` compares views with each other and says nothing of the log, so a
`Read` could break it; `IInv` adds that every view is a beginning of the log
(`Beginnings`).  Lemmas about beginnings of sequences do the rest.

`TransactionLog_proofs`, for any finite set of processes and any bounds:

* `TypesHold`: `Spec => []TypeOK`
* `LogInvariant`: `Spec => []TInv`, on which everything below rests too
* `LogImplementsLogLock`: with `LockMethod = "flock"`,
  `Spec /\ []Sound => ImplementsLogLock`
* `OwnerIsAlone`: then also `[](Lock!OneWriter /\ Lock!HeadIsCurrent)`
* `LocksHeld`: then also `[]LockedIsLocked`.

`TypeOK` bounds offsets by what all transactions together take up, and no single
step keeps that bound: an offset is read from a file, goes into a map, into
`dovecot.index`, into the header of the next file and back, and is cut off, moved or
made up by fsck on the way.  `TInv` says of every such place that its offset is at
most `Written`.  For the length of a file this needs that no half of a transaction is
in it twice (`FileOK`), and so that the second half which an interrupted writer still
has to write is nowhere yet and nobody else's (`TxnOK`); while a write is under way
`sync_offset` leaves room for it (`SyncOK`).  `FindingOK` makes the file that is mapped
next exist.  `TInv` holds with every fault: no hypothesis is made.

The refinement is shown action by action.  `LInv` relates the places of an operation
to the lock: who has `locked` set owns the lock of its head, past the check the head
is where the name leads (`OwnerOK`), a file about to be published is locked and newer
than the log (`NewOK`), and no open file is newer than the log (`OpenOK`, `NamesOK`),
which is why a reopened log is always usable.  The actions fall into a few kinds
(`GoesOn`, `Releases`, `Waits`, `Enters` and forgetting), each shown once to be a step
of `LogLock` or none; rotation, reopening and acquiring are shown one by one.

The hypotheses are where the code gives way (section 3): a log marked corrupted is
unlinked by whoever opens it, whatever lock there is, and a reset that meets a broken
index goes on rotating without the lock that fsck dropped.  `Sound` excludes exactly
these two states, and nothing else: crashes, torn writes, failing writes and `fsync()`
and a repair within a commit or a read are in.  With `fcntl()`, the default of `lock_method`,
the statement is false after case (b), a rotation that died between `link()` and
`rename()`: the theorems about the log are about `lock_method = flock`.
`LogLock` is about who has the lock, so a commit that writes on after fsck unlocked
the log is to it a process that has unlocked: that this happens is case (c) of
section 3, and `TransactionLog!OneWriter`, which counts writers, is not claimed.

`TransactionLogData_proofs`, for any finite set of processes and any number of
files, transactions, crashes and torn or failing writes, with
`LockMethod = "flock"` and `"fsync" \notin IOFaults`:

* `WriterIsCurrent`: `Spec => []WriterSeesAll`
* `ReadersSeeCommits`: `Spec => []ReadsAPrefix`
* `LogsAreChained`: `Spec => []ChainFits`
* `DataInvariant`: `Spec => []WInv`, on which they rest;

and with `MaxResets = 0` besides:

* `LogIsRecoverable`: `Spec => []Recoverable`
* `FsckNeedsAGap`: `Spec => []FsckOnlyAfterGap`
* `LogImplementsCommitLog`: `Spec /\ [](~Damaged /\ ~loss) => ImplementsCommitLog`.

The hypotheses are cases (a), (b) and (d) of section 3, in each of which the code
loses transactions: an `fsync()` that fails after others have read what it should
have stored, `fcntl()` locks, and a reset, which removes `dovecot.index` after it has
dropped the lock.  The first three theorems hold with resets.

None of these properties is inductive, because a process that has been asleep goes
on with files that nobody else looks at any more.  `DInv(c, b)` therefore speaks of
*all* files that have ever been the log.  There are numberings `c` and `b` such that
`c[k]` is the file with sequence `k` and `b[k]` the number of commits before it became
the log (`Chain`): the complete transactions of `c[k]` are the commits from `b[k] + 1` on,
the files follow each other, all that is committed is in them, and a file either
names its predecessor and where that ended or begins with a reset.  The names lead to
numbered files, and every map, in memory or in `dovecot.index`, is what the index was
after the commits before its position (`Fits`).  Of every process `Reader` says that its
open files are numbered, that its log view begins where its map is (`Viewing`), that
what the view has gathered is what the files from the next one to the head hold
(`Mapped`; files are mapped from the last to the first), and that what it has seen is
not after the end of its head (`Seen`).  The last is why a reader never goes back.
Of the process that has the log locked `Owner` says, in addition, that its map is at
the end of the log (`Ends`), that the file it will publish goes on from there (`NewIs`),
that mapping got all there is (`MappedAll`), and that one who has to look at
`dovecot.index` again has what is on disk (`Reopened`).

The parts stand or fall together: a rotation may publish because the owner's map is at
the end, that map is at the end because mapping got what the files hold, the files hold
it because rotations published only then.  Only two kinds of steps change the log,
writing (`Rewritten`) and publishing (`Published`); for each it is shown once that the
numbering goes on and that all readers stay in order (`Grown`, `ReaderStays`).  The other
steps are shown at the process that takes them (`Step`), one lemma per action.  `WInv`
is that, or a file has been damaged, or fsck has made a position up (`Flawed`): once
that has happened nothing is claimed, and it is not undone (`FlawedStays`).

`Recoverable` needs that `dovecot.index` is of the log the name leads to unless someone
has rotated and not rewritten it yet (`Indexed`, in `RInv`).  For `FsckOnlyAfterGap` `FInv`
follows those who fail to find the log their map is at.  They look once more at
`dovecot.index` before they fsck (`Retries`), as long as there has been one log only they
always find it (`First`), and fsck under the lock meets an index that is either of the
log or has been rewritten since they read it, and then leaves it alone
(`FsckFindsNothing`).  Before they were proved, `DInv` and `FInv` were checked by TLC with
three files, a torn write, a crash and failing writes (3.3 million states), and `DInv`
with a reset and failing writes (1.5 million).

The proof changed one property.  `ChainFits` was about all files, and TLC confirmed it at
the bounds of `log_rotate`; but a rotation that fails leaves the file it had prepared,
and the next rotation uses the same sequence.  Nobody opens such a file, so the
property is now about the files that have a name or are open.

`MailIndexSync_proofs`, for any processes and any number of records, syncs,
rotations and crashes:

* `TypesHold`: `Spec => []TypeOK`
* `PositionsAlwaysFit`: `Spec => []PositionsFit`
* `TailAlwaysSafe`: `Spec => []TailSafe`
* `RequestsAlwaysFound`: `Spec => []RequestsFound`
* `TailUpdatesAlwaysPay`: `Spec => TailUpdatesPay`
* `Invariance`: `Spec => []IInv`.

No assumption is made about who commits a sync: requests that a commit without
reading them wrote over (section 3) are in `skipped`, and the theorems are about
all others.  `TailSafe` speaks of the places where a tail offset is stored, but an offset
gets there from a process's log file, which reads it from header records and
moves it by itself over records that ask for nothing.  `IInv` therefore says of
*every* tail, stored or in memory, in the current file or in one that a process
has still open, that it lies between the beginning of its file and what has been
read, and that the requests before it are done or in `skipped`; and of a sync that it has all
requests between its map's tail and head.  Reading the rest of a log is a recursive
function in the model.  That it keeps these facts is proved by induction on the
number of records read (`TrackSync` is the step).

`TailUpdatesPay` compares a header update with those before it in the file, of which
`IInv` says nothing.  Its own invariant `PInv` has three parts.  What a process takes
for the greatest tail offset is at least that of every header update it has read of the
current file; a map that skips ahead keeps this because only dovecot.index is ahead, and its
tail offset is its head offset.  Either some record other than a header update is past
every tail offset of the file, or the log ends with a header update that covers
itself, and then a sync of everything has nothing to write (`Owing`).  And no header
update is written between the beginning and the commit of a sync, and what it has
to do is past every tail offset (`SyncPays`).

`Dotlock_proofs`, for any processes, inode numbers, timeouts and bounds:

* `OnlyOneOwner`: `Spec => []OnlyOwner`
* `LossIsExplained`: `Spec => []LossExplained`
* `Invariance`: `Spec => []IInv`.

A process acts on what it saw earlier, so `IInv` says what it may still conclude:
`ProcsOK`, that unless the lock was changed behind its back (`raced`) or a change was
noted too early (`late`) the inode and times it remembers are those of the file
that is there; `SeenOK`, that a lock whose PID was found dead is no live
process's; `IdsOK` and `OpenOK`, that a lock file belongs to one process only, and
which inode numbers cannot be used again; `LostOK`, that as long as nobody has
lost its lock the lock file is the owner's.

`IndexerQueue_proofs`, for any clients, mailboxes, limits and bounds:

* `TypesHold`, `RequestsQueuedOrWorking`, `NeverStalls`, `WaitersAlwaysKept`:
  `Spec => []TypeOK`, `[]QueuedOrWorking`, `[]NeverStalled`, `[]WaitersKept`
* `OnlyDoneAsAsked`: `Spec => DoneAsAsked`, an action property
* `Invariance`: `Spec => []IInv`.

`DoneAsAsked` needs to know what the worker was asked for when the first `idx`
contexts of a request joined it, and that the rest came later and have another
run coming: `ContextsOK`.  `WaitersKept` needs that nobody is told twice
(`TicketsOK`, contexts are injective) and that a client's reference count covers its
waiting tickets (`CountsOK`).  The lemmas about the queue (what `Without` leaves, in
which order, each once) are proved by induction on its length.

`MdboxMap_proofs`, for any finite set of processes, any mailboxes and bounds:

* `TypesHold`: `Spec => []TypeOK`; in particular no count reaches the limit
* `PurgeAlwaysSeesFile`: `Spec => []PurgeSeesFile`
* `NeverWaitsInCycle`: `Spec => []NoWaitCycle`
* `MailsKept`: `Spec => []KeptUnlessExposed`
* `CountsAreExact`: `Spec => []RefsExact`
* `Invariance`: `Spec => []IInv` and `KeepingInvariance`: `Spec => []KInv`.

Of each process `IInv` says what its record means (`ProcOK`), that a mailbox it is
syncing is locked and its expunges still requested (`RefsOK`), that the file it has
written to is locked and has what it wrote (`WriterOK`), that the file it purges is
locked, exists and has no mails but those it has read, of which some may have
lost their records (`PurgeOK`), and that nobody purges a
file whose creator may still remove it (`CreatorOK`).  These interfere: a step of
one process must keep them for all others.  `StepOK` does that once, from six facts
about the step (`LocksStay`, `MapStays`, `RequestsStay`, `PurgesStay`, `WritesStay`,
`PurgeFound`), and there is one lemma per action that shows them.  The processes
have to be finitely many because the bounds on mails and files count them.

`KInv` rests on it and is about the data.  A mail outside `exposed` that has a record
is in its file, or the file is gone and nothing refers to it (`Traced`).  A count
that somebody is changing differs from the number of messages by what that process
has still to write: `todo` after `SyncMap`, one for the copy after `Append`, one too
many for a mail that is saved but has no message yet (`Exact`); whenever it differs,
`dirty` says so, which is why a death leaves a trace.  The mails that a purge removes
have been without references since it checked them under the map's lock (`DeadOK`),
and whoever copies one of them afterwards exposes it; this is the window that
`mdbox_purge` shows, and the proof says that it is the only one but for those in
`exposed`.  `References` counts pairs of mailbox and number, so that the lemmas
`NamedMore`, `NamedLess` and `NamedNone` reduce a change of one mailbox to the library's
facts about finite sets.

All of this rests on the assumptions in the modules: that the "none" values are not
members, that bounds are numbers, and finiteness where sets are counted.  TLC
evaluates them in every run.

**Only model-checked.**

* Liveness (`OperationsEnd`, `EveryoneAnswered`): beyond this prover.
* `NothingInvented`: it is about logs that have been damaged and replaced, of which
  `WInv` claims nothing.  `FsckOnlyAfterGap` with resets and
  failing fsyncs (`log_faults`).
* The properties of `MailIndexView`.  The index map and the views are compared with a
  fold over the log (`Contents`), and a lost log is made up for by folds over records;
  what a fold of an operator computes for every sequence is beyond the provers, and
  even the types depend on it, because a map's count is that of records it shares.

The library's induction theorems take an operator as a parameter, which the
backends cannot instantiate.  The modules with recursive functions begin with
induction over a *set* of numbers instead (`NatInd`, `UpTo`), and recursion with a
function for the step (`Steps`), both proved from the well-foundedness of the natural
numbers; that is enough for those functions.

## 5. What is not modelled

* NFS (`MAIL_INDEX_OPEN_FLAG_NFS_FLUSH`), `lock_method = dotlock`, and indexes
  that have been moved to memory after their process gives up the disk.
* Validation of log records and of the snapshot (`is_record_valid`,
  `mail_index_check_header`): files are damaged only by torn writes.
* A sync that is broken off before all records are read leaves its view
  inconsistent (modelled), and may leave older flags in records that are shared
  with the index: `IndexIsLog` excludes that case (`broken`).
* Of `mail_transaction_log_file_skip_to_head()` `MailIndexSync!OpenFile` has the
  case that modseqs are not used (`mail-transaction-log-file.c:161-164`).  Where they
  are (165-180), reading begins earlier, where the modseqs were last tracked, and
  passes again records that the map has applied already.
* In view syncs: I/O errors; a log that consists of a reset alone for a sync without
  expunges (`mail-index-view-sync.c:103-108`, the log view is cleared and the reset
  waits), which `LogViewRange` treats as a sync that ends before the reset; and the
  still empty secondary index (643-651), whose view is repaired on the spot
  instead of becoming inconsistent.
* The rebuild of an mdbox storage that was found corrupted: behaviours of
  `MdboxMap` end where it would begin.  Alternative storage, attachments, sizes
  and ages of mail files.
* Dotlocks on NFS, the notify callback that may refuse an override, failing
  system calls.
* Indexer: `LIST`, `REMOVE` with a wildcard in the user name (it iterates over
  requests that it frees), `max_recent_msgs`, the recursion through
  `worker_avail_callback()` when connecting fails.
* Everything listed as `not_modelled` in `PROJECT.json`: the protocol servers and
  libraries, authentication, configuration and the content libraries make up
  most of the repository's lines.  They are parsers, codecs and connection
  handling of one process, with little state that several actors share.

## 6. Plan

Done: `LogLock`, `CommitLog`, `MailIndexSync`, `Dotlock`, `IndexerQueue` and `MdboxMap`
with proofs, `TransactionLog` with proofs about its types, its lock and its data,
`MailIndexView`.

Next, in this order:

1. Proofs: `MailIndexView` with `Contents` as a recursive function of the position,
   its types and `NoPanic` together.
2. `MailCachePurge`: `file_seq` against the reset id in the log.
3. The rebuild of an mdbox storage, composed with `MdboxMap`.
4. `SeqRangeArray` and the transaction builders as operators against set
   definitions.
5. anvil (connect limits), auth request handler, master's service monitor,
   dict client, dsync brain.
