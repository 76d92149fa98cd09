---------------------------- MODULE MailIndexView ----------------------------
(***************************************************************************)
(* The views of a mailbox index inside one process, and how they are       *)
(* brought up to date.                                                     *)
(*                                                                         *)
(* index->map follows the transaction log.  Each view (an IMAP session, a  *)
(* notifier) keeps a map of its own, in which messages have the sequence   *)
(* numbers that its client was told; it moves forward only in a view sync, *)
(* which reports every change and may be asked not to expunge anything     *)
(* yet.  Maps and the record arrays below them are shared between the      *)
(* index and the views and copied when they are written to, but flags are  *)
(* changed in place in whatever is shared.                                 *)
(*                                                                         *)
(* A position counts log records.  The log is written by other processes   *)
(* (TransactionLog says how); parts of it may be gone before this process  *)
(* has read them.  A "reset" record stands for a log file that resets the  *)
(* index and the header update that begins it.                             *)
(***************************************************************************)
EXTENDS Integers, Sequences, FiniteSets, FiniteSetsExt, SequencesExt

CONSTANTS
    Views,      \* views of the process
    Messages,   \* number of messages in dovecot.index at the start
    Kinds,      \* kinds of records that are written
    MaxUid,     \* bound: highest UID
    MaxLog,     \* bound: records ever written to the log and gaps; requests,
                \*        which change nothing for a view, count twice
    MaxGaps,    \* bound: how often dovecot.index is read again, or logs are closed
    MaxResets   \* bound: index resets

ASSUME ViewAssumption ==
    /\ IsFiniteSet(Views)
    /\ {Messages, MaxUid, MaxLog, MaxGaps, MaxResets} \subseteq Nat
    /\ Messages <= MaxUid
    /\ Kinds \subseteq {"append", "expunge", "request", "flag", "reset"}

VARIABLES
    log,        \* records written to the transaction log
    tail,       \* log positions before this one are not available any more
    heap,       \* struct mail_index_map and mail_index_record_map objects
    imap,       \* index->map
    view,       \* the views
    ctx,        \* the view syncs that are under way
    client,     \* what the client of each view was told: its message list
    broken,     \* a view sync was ended before all its records were read
    gaps,       \* how often dovecot.index was read again, or logs were closed
    panic       \* an i_assert() has failed

vars == <<log, tail, heap, imap, view, ctx, client, broken, gaps, panic>>

Uids == 1..MaxUid
NoPos == -1                              \* log_file_seq = 0
Ids == 1..(MaxLog + MaxGaps + 2 * Cardinality(Views) + 1)
NoObject == 0

(* struct mail_index_map: messages_count, next_uid, log position, rec_map *)
NoMap == [n |-> 0, next |-> 1, pos |-> NoPos, rec |-> NoObject]
(* struct mail_index_record_map: records and last_appended_uid *)
NoRec == [r |-> <<>>, last |-> 0]
NoView == [map |-> NoObject, head |-> 0, exp |-> 0, inconsistent |-> FALSE,
           refs |-> {}, hidden |-> {}, keeps |-> FALSE, wasLost |-> FALSE]
NoCtx == [on |-> FALSE]

Append1(u) == [t |-> "append", uid |-> u, flag |-> FALSE]
Expunge1(u) == [t |-> "expunge", uid |-> u, flag |-> FALSE]
Request1 == [t |-> "request", uid |-> 0, flag |-> FALSE]  \* views skip it unread
Flag1(u, f) == [t |-> "flag", uid |-> u, flag |-> f]
Reset1 == [t |-> "reset", uid |-> 0, flag |-> FALSE]

-----------------------------------------------------------------------------
(* The maps of a heap h *)

Records(h, m) == SubSeq(h.recs[h.maps[m].rec].r, 1, h.maps[m].n)
UidsIn(h, m) == {Records(h, m)[k].uid : k \in 1..h.maps[m].n}
SeqNo(h, m, u) == CHOOSE k \in 1..h.maps[m].n : Records(h, m)[k].uid = u
FreeMap(h) == Min({i \in Ids : h.maps[i] = NoMap})
FreeRec(h) == Min({i \in Ids : \A m \in Ids : h.maps[m].rec # i})

(* mail_index_map_clone(): the records stay shared. *)
Clone(h, m) == [h EXCEPT !.maps[FreeMap(h)] = h.maps[m]]

(* Fault: last_appended_uid stays as it was when records are cut off. *)
PrivateRecordsKeepsLast(h, m) ==
    LET old == h.recs[h.maps[m].rec]
        shared == \E i \in Ids \ {m} : h.maps[i].rec = h.maps[m].rec
        r == IF shared THEN FreeRec(h) ELSE h.maps[m].rec
    IN  [h EXCEPT !.maps[m].rec = r,
                  !.recs[r] = [r |-> SubSeq(old.r, 1, h.maps[m].n), last |-> old.last]]

(* Fault: the records are changed although other maps share them. *)
PrivateRecordsInPlace(h, m) == h

(* mail_index_record_map_move_to_private() *)
PrivateRecords(h, m) ==
    LET n == h.maps[m].n
        old == h.recs[h.maps[m].rec]
        shared == \E i \in Ids \ {m} : h.maps[i].rec = h.maps[m].rec
        r == IF shared THEN FreeRec(h) ELSE h.maps[m].rec
        last == CASE Len(old.r) # n -> IF n = 0 THEN 0 ELSE old.r[n].uid
                  [] shared         -> 0
                  [] OTHER          -> old.last
    IN  [h EXCEPT !.maps[m].rec = r,
                  !.recs[r] = [r |-> SubSeq(old.r, 1, n), last |-> last]]

(* sync_append(), once the map is private; the record may be there already *)
(* because a map that shares the records has got it.                       *)
AddRecord(h, m, u, f) ==
    LET r == h.maps[m].rec
        there == u <= h.recs[r].last
    IN  [h EXCEPT !.maps[m].n = @ + 1,
                  !.maps[m].next = u + 1,
                  !.recs[r] = IF there THEN @
                              ELSE [r |-> Append(@.r, [uid |-> u, flag |-> f]), last |-> u]]

(* sync_append() takes an old UID for a corrupted log. *)
Corrupted(h, m, e) == e.t = "append" /\ e.uid < h.maps[m].next

(* It asserts that a record which should be there already is. *)
AppendAsserts(h, m, e) ==
    LET rec == h.recs[h.maps[m].rec]
    IN  e.t = "append" /\ e.uid <= rec.last =>
            h.maps[m].n < Len(rec.r) /\ rec.r[h.maps[m].n + 1].uid = e.uid

(* sync_flag_update(): in place, for everyone who shares the records. *)
SetFlag(h, m, u, f) ==
    IF u \in UidsIn(h, m)
    THEN [h EXCEPT !.recs[h.maps[m].rec].r[SeqNo(h, m, u)].flag = f]
    ELSE h

(* sync_expunge_range(), once the map and its records are private *)
DropRecord(h, m, u) ==
    [h EXCEPT !.recs[h.maps[m].rec].r = RemoveAt(@, SeqNo(h, m, u)),
              !.maps[m].n = @ - 1]

(* mail_index_unmap(): objects that nothing refers to are freed. *)
Sweep(h, live) ==
    LET maps == [i \in Ids |-> IF i \in live THEN h.maps[i] ELSE NoMap]
    IN  [maps |-> maps,
         recs |-> [i \in Ids |-> IF \E m \in Ids : maps[m].rec = i THEN h.recs[i] ELSE NoRec]]

MapsOf(vs, cs) ==
    UNION {{vs[v].map} \cup vs[v].refs \cup (IF cs[v].on THEN {cs[v].new} ELSE {}) : v \in Views}
Refcount(m) ==
    Cardinality({v \in Views : view[v].map = m})
    + Cardinality({v \in Views : m \in view[v].refs})
    + Cardinality({v \in Views : ctx[v].on /\ ctx[v].new = m})
    + (IF imap = m THEN 1 ELSE 0)

(* The records of a view sync are read in one go by a process that does    *)
(* nothing else meanwhile.                                                 *)
ReadAll(v) == ctx[v].cur = ctx[v].end
Reading == \E v \in Views : ctx[v].on /\ ~ReadAll(v)

-----------------------------------------------------------------------------
Init ==
    /\ log = <<>>
    /\ tail = 0
    /\ heap = [maps |-> [i \in Ids |->
                  IF i = 1 THEN [n |-> Messages, next |-> Messages + 1, pos |-> 0, rec |-> 1]
                  ELSE NoMap],
               recs |-> [i \in Ids |->
                  IF i = 1 THEN [r |-> [k \in 1..Messages |-> [uid |-> k, flag |-> FALSE]],
                                 last |-> 0]
                  ELSE NoRec]]
    /\ imap = 1
    /\ view = [v \in Views |-> NoView]
    /\ ctx = [v \in Views |-> NoCtx]
    /\ client = [v \in Views |-> <<>>]
    /\ broken = FALSE
    /\ gaps = 0
    /\ panic = FALSE

-----------------------------------------------------------------------------
(* The log as other processes see and write it *)

(* What the records up to a position amount to. *)
Contents(pos) ==
    LET start == [r |-> [k \in 1..Messages |-> [uid |-> k, flag |-> FALSE]], next |-> Messages + 1]
        step(acc, e) ==
            CASE e.t = "append" -> [r |-> Append(acc.r, [uid |-> e.uid, flag |-> e.flag]),
                                    next |-> e.uid + 1]
              [] e.t = "expunge" -> [acc EXCEPT !.r = SelectSeq(@, LAMBDA x : x.uid # e.uid)]
              [] e.t = "flag" -> [acc EXCEPT !.r = [k \in 1..Len(@) |->
                                    IF @[k].uid = e.uid THEN [@[k] EXCEPT !.flag = e.flag] ELSE @[k]]]
              [] e.t = "reset" -> [r |-> <<>>, next |-> 1]
              [] OTHER -> acc
    IN  FoldLeft(step, start, SubSeq(log, 1, pos))

Requests == {i \in 1..Len(log) : log[i].t = "request"}
Room == Len(log) + Cardinality(Requests) + gaps < MaxLog
Resets == {i \in 1..Len(log) : log[i].t = "reset"}
Newest == Contents(Len(log))
Existing == {Newest.r[k].uid : k \in 1..Len(Newest.r)}
FlagOf(c, u) == \E k \in 1..Len(c.r) : c.r[k] = [uid |-> u, flag |-> TRUE]

(* Someone commits a change of the mailbox.  What is written while a view  *)
(* reads its records is behind the end of that sync, and can wait.         *)
Write ==
    /\ ~Reading
    /\ Room
    /\ \/ Newest.next <= MaxUid /\ log' = Append(log, Append1(Newest.next))
       \/ \E u \in Existing : log' = Append(log, Expunge1(u))
       \/ Existing # {} /\ log' = Append(log, Request1)
       \/ \E u \in Existing : log' = Append(log, Flag1(u, ~FlagOf(Newest, u)))
       \/ Cardinality(Resets) < MaxResets /\ log' = Append(log, Reset1)
    /\ log'[Len(log')].t \in Kinds
    /\ UNCHANGED <<tail, heap, imap, view, ctx, client, broken, gaps, panic>>

(* A view changes a flag itself and hides the change from its own syncs    *)
(* (MAIL_INDEX_TRANSACTION_FLAG_HIDE).  The commit maps all of the log     *)
(* before it writes, and what it has written right after.                  *)
WriteHidden(v) ==
    /\ ~Reading
    /\ view[v].map # NoObject
    /\ ~ctx[v].on
    /\ ~view[v].inconsistent
    /\ "flag" \in Kinds
    /\ Room
    /\ heap.maps[imap].pos = Len(log)
    /\ \E u \in Existing \cap UidsIn(heap, view[v].map) :
        LET f == ~FlagOf(Newest, u)
        IN  /\ log' = Append(log, Flag1(u, f))
            /\ client' = [client EXCEPT ![v] = [k \in 1..Len(@) |->
                            IF @[k].uid = u THEN [@[k] EXCEPT !.flag = f] ELSE @[k]]]
            /\ heap' = [SetFlag(heap, imap, u, f) EXCEPT !.maps[imap].pos = Len(log')]
    /\ view' = [view EXCEPT ![v].hidden = @ \cup {Len(log')}]
    /\ UNCHANGED <<tail, imap, ctx, broken, gaps, panic>>

-----------------------------------------------------------------------------
(* index->map follows the log: mail_index_sync_map() *)

(* One record.  The map is cloned if a view has it, except for flags. *)
Refresh ==
    LET m == imap
        pos == heap.maps[m].pos
        e == log[pos + 1]
        expunges == e.t = "expunge" /\ e.uid \in UidsIn(heap, m)
        appends == e.t = "append"
        copies == (appends \/ expunges) /\ Refcount(m) > 1
        new == IF copies THEN FreeMap(heap) ELSE m
        h == IF copies THEN Clone(heap, m) ELSE heap
        done == CASE appends       -> AddRecord(h, new, e.uid, e.flag)
                  [] expunges      -> DropRecord(PrivateRecords(h, new), new, e.uid)
                  [] e.t = "flag"  -> SetFlag(h, new, e.uid, e.flag)
                  [] OTHER         -> h
    IN  /\ ~Reading
        /\ pos # NoPos
        /\ pos < Len(log)
        /\ e.t # "reset"
        /\ imap' = new
        /\ heap' = Sweep([done EXCEPT !.maps[new].pos = pos + 1], {new} \cup MapsOf(view, ctx))
        /\ panic' = (panic \/ Corrupted(h, new, e) \/ ~AppendAsserts(h, new, e))
        /\ UNCHANGED <<log, tail, view, ctx, client, broken, gaps>>

(* A log file that resets the index is found: what was before it is not    *)
(* read, and the map that is left behind is marked as being up to there.   *)
RefreshReset ==
    \E i \in Resets :
        /\ ~Reading
        /\ IF heap.maps[imap].pos = NoPos THEN i = tail + 1 ELSE heap.maps[imap].pos < i
        /\ LET new == FreeMap(heap)
               h == [heap EXCEPT !.maps[imap].pos = i - 1,
                                 !.maps[new] = [NoMap EXCEPT !.pos = i, !.rec = FreeRec(heap)]]
           IN  /\ imap' = new
               /\ heap' = Sweep(h, {new} \cup MapsOf(view, ctx))
        /\ UNCHANGED <<log, tail, view, ctx, client, broken, gaps, panic>>

(* mail_index_map_latest_file(): a new map is read from dovecot.index, and *)
(* what is between the old one and some later position may be gone.        *)
Reopen ==
    LET pos == Max({tail, heap.maps[imap].pos})
    IN  \E at \in pos..Len(log) : \E gone \in {tail} \cup (pos + 1)..at :
            /\ ~Reading
            /\ gaps < MaxGaps /\ Room
            /\ gaps' = gaps + 1
            /\ tail' = gone
            /\ LET new == FreeMap(heap)
                   c == Contents(at)
                   h == [heap EXCEPT
                           !.maps[new] = [n |-> Len(c.r), next |-> c.next, pos |-> at,
                                          rec |-> FreeRec(heap)],
                           !.recs[FreeRec(heap)] = [r |-> c.r, last |-> 0]]
               IN  /\ imap' = new
                   /\ heap' = Sweep(h, {new} \cup MapsOf(view, ctx))
            /\ UNCHANGED <<log, view, ctx, client, broken, panic>>

(* mail_transaction_logs_clean(): a file that no view refers to is closed, *)
(* and its name is gone already.                                           *)
LogsClean ==
    /\ ~Reading
    /\ gaps < MaxGaps /\ Room
    /\ gaps' = gaps + 1
    /\ tail' \in (tail + 1)..heap.maps[imap].pos
    /\ \A v \in Views : view[v].map # NoObject /\ (view[v].keeps \/ ctx[v].on) => view[v].exp >= tail'
    /\ UNCHANGED <<log, heap, imap, view, ctx, client, broken, panic>>

-----------------------------------------------------------------------------
(* View syncs *)

(* mail_index_view_open() *)
Open(v) ==
    /\ ~Reading
    /\ view[v].map = NoObject
    /\ view' = [view EXCEPT ![v] = [NoView EXCEPT !.map = imap,
                                                  !.head = heap.maps[imap].pos,
                                                  !.exp = heap.maps[imap].pos]]
    /\ client' = [client EXCEPT ![v] = Records(heap, imap)]
    /\ UNCHANGED <<log, tail, heap, imap, ctx, broken, gaps, panic>>

(* mail_index_view_close() *)
Close(v) ==
    /\ ~Reading
    /\ view[v].map # NoObject
    /\ ~ctx[v].on
    /\ view' = [view EXCEPT ![v] = NoView]
    /\ client' = [client EXCEPT ![v] = <<>>]
    /\ heap' = Sweep(heap, {imap} \cup MapsOf(view', ctx))
    /\ UNCHANGED <<log, tail, imap, ctx, broken, gaps, panic>>

(* Fault: the sync begins at the position of the map, which the index may  *)
(* have moved along with its own.                                          *)
LogViewRangeOfMap(v, noexp) ==
    LET start == Max({heap.maps[view[v].map].pos, IF noexp THEN view[v].head ELSE view[v].exp})
    IN  [ret |-> IF tail <= start THEN 1 ELSE 0, cur |-> start, end |-> heap.maps[imap].pos,
         reset |-> FALSE, partial |-> FALSE]

(* Fault: a log that is missing is taken for an error. *)
LogViewRangeMissing(v, noexp) ==
    LET start == IF noexp THEN view[v].head ELSE view[v].exp
    IN  [ret |-> IF tail <= start THEN 1 ELSE -1, cur |-> start, end |-> heap.maps[imap].pos,
         reset |-> FALSE, partial |-> FALSE]

(* view_sync_set_log_view_range(): a reset of the index can only be synced *)
(* together with the expunges, otherwise the sync ends before it.          *)
LogViewRange(v, noexp) ==
    LET start == IF noexp THEN view[v].head ELSE view[v].exp
        end == heap.maps[imap].pos
        resets == {i \in Resets : start < i /\ i <= end}
        from == IF start = NoPos /\ tail + 1 \notin Resets THEN {} ELSE resets
        readable == IF tail <= start THEN 1 ELSE 0
        range == [ret |-> readable, cur |-> start, end |-> end, reset |-> FALSE, partial |-> FALSE]
    IN  IF end < view[v].head
        THEN [range EXCEPT !.ret = -1]
        ELSE IF from = {}
        THEN range
        ELSE IF noexp
        THEN [range EXCEPT !.end = Min(resets) - 1,
                           !.partial = readable = 1 \/ Max(resets) > tail]
        ELSE [range EXCEPT !.ret = IF Max(resets) > tail THEN 1 ELSE 0,
                           !.cur = Max(resets), !.reset = Max(resets) > tail]

(* mail_index_view_sync_clean_log_syncs() *)
CleanHidden(w) == {i \in w.hidden : i > w.exp}

(* A sync that fails leaves the view inconsistent. *)
Fail(v) ==
    /\ view' = [view EXCEPT ![v] =
                  LET w == [@ EXCEPT !.inconsistent = TRUE, !.exp = view[v].head, !.refs = {}]
                  IN  [w EXCEPT !.hidden = CleanHidden(w)]]
    /\ heap' = Sweep(heap, {imap} \cup MapsOf(view', ctx))
    /\ UNCHANGED <<log, tail, imap, ctx, client, broken, gaps, panic>>

(* mail_index_view_sync_begin() on a view that is already inconsistent, or *)
(* past the index, or that would have to show a reset.                     *)
SyncFails(v) ==
    /\ ~Reading
    /\ view[v].map # NoObject
    /\ ~ctx[v].on
    /\ \E noexp \in BOOLEAN :
        LET range == LogViewRange(v, noexp)
        IN  view[v].inconsistent \/ range.ret = -1 \/ (range.ret = 1 /\ range.reset)
    /\ Fail(v)

(* The end of mail_index_view_sync_begin(): if no message disappears the   *)
(* view takes over the map of the index, otherwise it gets a private one   *)
(* that is updated record by record.                                       *)
StartSync(v, h, w, c, direct, min) ==
    LET shared == \/ imap = w.map
                  \/ \E o \in Views : \/ o # v /\ w.map \in {view[o].map} \cup view[o].refs
                                      \/ ctx[o].on /\ ctx[o].new = w.map
        private == IF shared THEN FreeMap(h) ELSE w.map
        lacks == heap.maps[imap].n < min
        w2 == IF direct
              THEN [w EXCEPT !.map = imap, !.inconsistent = lacks]
              ELSE [w EXCEPT !.map = private]
        c2 == IF direct
              THEN [c EXCEPT !.min = IF lacks THEN 0 ELSE min]
              ELSE [c EXCEPT !.update = TRUE, !.new = IF c.noexp THEN NoObject ELSE imap, !.min = min]
    IN  /\ view' = [view EXCEPT ![v] = w2]
        /\ ctx' = [ctx EXCEPT ![v] = c2]
        /\ heap' = Sweep(IF ~direct /\ shared THEN Clone(h, w.map) ELSE h,
                         {imap} \cup MapsOf(view', ctx'))
        /\ UNCHANGED <<log, tail, imap, client, broken, gaps>>

NewCtx(noexp, range) ==
    [on |-> TRUE, noexp |-> noexp, cur |-> range.cur, end |-> range.end, expunges |-> {},
     min |-> 0, update |-> FALSE, new |-> NoObject, skipped |-> FALSE,
     lost |-> FALSE, flags |-> {}, failed |-> FALSE]

(* The UIDs of a view that a part of the log expunges. *)
Expunged(v, from, to) ==
    {u \in UidsIn(heap, view[v].map) : \E i \in (from + 1)..to : log[i] = Expunge1(u)}

(* Fault: the expunges that an earlier sync held back are forgotten. *)
SyncBeginForgetsPending(v, noexp) ==
    LET w == [view[v] EXCEPT !.refs = {}]
        range == LogViewRange(v, noexp)
        gone == Expunged(v, range.cur, range.end)
        expunges == IF noexp THEN {} ELSE gone
        c == [NewCtx(noexp, range) EXCEPT
                !.expunges = {SeqNo(heap, w.map, u) : u \in expunges},
                !.skipped = noexp /\ w.exp # w.head]
    IN  /\ ~Reading
        /\ w.map # NoObject
        /\ ~ctx[v].on
        /\ ~w.inconsistent
        /\ range.ret = 1
        /\ ~range.reset
        /\ StartSync(v, heap, w, c, gone = {} /\ ~range.partial,
                     heap.maps[w.map].n - Cardinality(expunges))
        /\ UNCHANGED panic

SyncBegin(v, noexp) ==
    LET w == [view[v] EXCEPT !.refs = {}]
        range == LogViewRange(v, noexp)
        gone == Expunged(v, range.cur, range.end)
        expunges == IF noexp THEN {} ELSE gone
        have == gone # {} \/ (noexp /\ w.exp # w.head)
        c == [NewCtx(noexp, range) EXCEPT
                !.expunges = {SeqNo(heap, w.map, u) : u \in expunges},
                !.skipped = noexp /\ w.exp # w.head]
    IN  /\ ~Reading
        /\ w.map # NoObject
        /\ ~ctx[v].on
        /\ ~w.inconsistent
        /\ range.ret = 1
        /\ ~range.reset
        /\ StartSync(v, heap, w, c, ~have /\ ~range.partial,
                     heap.maps[w.map].n - Cardinality(expunges))
        /\ UNCHANGED panic

(* view_sync_get_log_lost_changes(): the changes are found by comparing    *)
(* the map of the view with that of the index.                             *)
SyncBeginLost(v, noexp) ==
    LET w == [view[v] EXCEPT !.refs = {}]
        range == LogViewRange(v, noexp)
        old == UidsIn(heap, w.map)
        new == UidsIn(heap, imap)
        cloned == Refcount(w.map) - (IF w.map \in view[v].refs THEN 1 ELSE 0) > 1
        m == IF cloned THEN FreeMap(heap) ELSE w.map
        h0 == PrivateRecords(IF cloned THEN Clone(heap, w.map) ELSE heap, m)
        flagOf(u) == Records(heap, imap)[SeqNo(heap, imap, u)].flag
        changed == {u \in old \cap new : Records(heap, w.map)[SeqNo(heap, w.map, u)].flag # flagOf(u)}
        h1 == FoldLeft(LAMBDA h, x : SetFlag(h, m, x.uid, x.flag), h0, Records(heap, imap))
        fresh == SelectSeq(Records(heap, imap), LAMBDA x : x.uid \notin old)
        h2 == FoldLeft(LAMBDA h, x : AddRecord(h, m, x.uid, x.flag), h1, fresh)
        h3 == [h2 EXCEPT !.maps[w.map].pos = NoPos]
        gone == old \ new
        c == [NewCtx(noexp, range) EXCEPT
                !.expunges = IF noexp THEN {} ELSE {SeqNo(heap, w.map, u) : u \in gone},
                !.skipped = noexp /\ gone # {},
                !.cur = 0, !.end = 1, !.lost = TRUE, !.flags = changed]
    IN  /\ ~Reading
        /\ w.map # NoObject
        /\ ~ctx[v].on
        /\ ~w.inconsistent
        /\ range.ret = 0
        /\ IF \E k \in 1..Len(fresh) : \/ \E u \in old : fresh[k].uid < u
                                       \/ fresh[k].uid < heap.maps[w.map].next
           THEN Fail(v)
           ELSE /\ StartSync(v, h3,
                             [w EXCEPT !.map = m, !.head = h3.maps[imap].pos, !.wasLost = TRUE],
                             c, gone = {} /\ ~range.partial,
                             h3.maps[m].n - Cardinality(gone))
                /\ panic' = \/ panic
                            \/ fresh # <<>> /\ ~AppendAsserts(h1, m, Append1(fresh[1].uid))

(* view_lookup_full() looks into the map of the index first, and keeps a   *)
(* reference to it for the sake of the record that it returns.             *)
Lookup(h, m, u) ==
    LET from == IF u \in UidsIn(h, imap) THEN imap ELSE m
    IN  Records(h, from)[SeqNo(h, from, u)].flag
Refs(v, h, m, u) ==
    IF m # imap /\ u \in UidsIn(h, imap) THEN view[v].refs \cup {imap} ELSE view[v].refs

(* What a fetch returns is not counted as told. *)
Fetch(v) ==
    /\ ~Reading
    /\ view[v].map # NoObject
    /\ \E u \in UidsIn(heap, view[v].map) :
        view' = [view EXCEPT ![v].refs = Refs(v, heap, view[v].map, u)]
    /\ UNCHANGED <<log, tail, heap, imap, ctx, client, broken, gaps, panic>>

(* Fault: a hidden change is taken to be in the map of the view already. *)
SyncNextSkipsHidden(v) ==
    LET w == view[v]
        c == ctx[v]
        i == c.cur + 1
        e == log[i]
        delayed == e.t = "expunge" /\ c.noexp
        wanted == ~delayed /\ i - 1 >= w.head
        apply == wanted /\ i \notin w.hidden /\ c.update /\ ~(heap.maps[w.map].pos # NoPos /\ i - 1 < heap.maps[w.map].pos)
        fails == apply /\ Corrupted(heap, w.map, e)
        reports == wanted /\ e.t = "flag" /\ i \notin w.hidden /\ e.uid \in UidsIn(heap, w.map)
    IN  /\ c.on /\ ~c.lost /\ ~c.failed
        /\ c.cur < c.end
        /\ ctx' = [ctx EXCEPT ![v].cur = IF fails THEN @ ELSE i,
                              ![v].failed = fails,
                              ![v].skipped = @ \/ delayed,
                              ![v].flags = IF reports THEN @ \cup {e.uid} ELSE @]
        /\ view' = [view EXCEPT ![v].head = IF wanted THEN i ELSE @,
                                ![v].exp = IF delayed /\ ~c.skipped THEN i - 1 ELSE @]
        /\ heap' = IF ~apply \/ fails THEN heap
                   ELSE CASE e.t = "append" -> AddRecord(heap, w.map, e.uid, e.flag)
                          [] e.t = "flag"   -> SetFlag(heap, w.map, e.uid, e.flag)
                          [] OTHER          -> heap
        /\ panic' = \/ panic
                    \/ delayed /\ i - 1 < w.exp
                    \/ apply /\ ~fails /\ ~AppendAsserts(heap, w.map, e)
        /\ UNCHANGED <<log, tail, imap, client, broken, gaps>>

(* mail_index_view_sync_next(): a record that is wanted is applied to the  *)
(* private map.  The messages whose flags changed are kept in mind.        *)
SyncNext(v) ==
    LET w == view[v]
        c == ctx[v]
        i == c.cur + 1
        e == log[i]
        delayed == e.t = "expunge" /\ c.noexp
        wanted == ~delayed /\ i - 1 >= w.head
        apply == wanted /\ c.update /\ ~(heap.maps[w.map].pos # NoPos /\ i - 1 < heap.maps[w.map].pos)
        fails == apply /\ Corrupted(heap, w.map, e)
        reports == wanted /\ e.t = "flag" /\ i \notin w.hidden /\ e.uid \in UidsIn(heap, w.map)
    IN  /\ c.on /\ ~c.lost /\ ~c.failed
        /\ c.cur < c.end
        /\ ctx' = [ctx EXCEPT ![v].cur = IF fails THEN @ ELSE i,
                              ![v].failed = fails,
                              ![v].skipped = @ \/ delayed,
                              ![v].flags = IF reports THEN @ \cup {e.uid} ELSE @]
        /\ view' = [view EXCEPT ![v].head = IF wanted THEN i ELSE @,
                                ![v].exp = IF delayed /\ ~c.skipped THEN i - 1 ELSE @]
        /\ heap' = IF ~apply \/ fails THEN heap
                   ELSE CASE e.t = "append" -> AddRecord(heap, w.map, e.uid, e.flag)
                          [] e.t = "flag"   -> SetFlag(heap, w.map, e.uid, e.flag)
                          [] OTHER          -> heap
        /\ panic' = \/ panic
                    \/ delayed /\ i - 1 < w.exp
                    \/ apply /\ ~fails /\ ~AppendAsserts(heap, w.map, e)
        /\ UNCHANGED <<log, tail, imap, client, broken, gaps>>

(* mail_index_view_sync_next_lost() *)
SyncNextLost(v) ==
    /\ ctx[v].on /\ ctx[v].lost
    /\ ctx[v].cur < ctx[v].end
    /\ ctx' = [ctx EXCEPT ![v].cur = ctx[v].end]
    /\ UNCHANGED <<log, tail, heap, imap, view, client, broken, gaps, panic>>

(* index_mailbox_sync_next(): the client is told the flags as they are now. *)
Report(v) ==
    /\ ctx[v].on
    /\ ~Reading
    /\ ctx[v].flags # {}
    /\ client' = [client EXCEPT ![v] = [k \in 1..Len(@) |->
            IF @[k].uid \in ctx[v].flags
            THEN [@[k] EXCEPT !.flag = Lookup(heap, view[v].map, client[v][k].uid)]
            ELSE @[k]]]
    /\ view' = [view EXCEPT ![v].refs = UNION {Refs(v, heap, view[v].map, u) : u \in ctx[v].flags}]
    /\ ctx' = [ctx EXCEPT ![v].flags = {}]
    /\ UNCHANGED <<log, tail, heap, imap, broken, gaps, panic>>

(* The client removes the messages it is told were expunged, by their      *)
(* sequence numbers, and takes what the view has beyond the rest as new.   *)
Told(v, h, m) ==
    LET kept == [k \in 1..(Len(client[v]) - Cardinality(ctx[v].expunges)) |->
                    client[v][CHOOSE j \in 1..Len(client[v]) :
                        j \notin ctx[v].expunges
                        /\ Cardinality((1..j) \ ctx[v].expunges) = k]]
        isNew == [k \in 1..Max({0, h.maps[m].n - Len(kept)}) |->
                    LET u == Records(h, m)[Len(kept) + k].uid
                    IN  [uid |-> u, flag |-> Lookup(h, m, u)]]
    IN  kept \o isNew

(* Fault: the map of the index is not taken over after the expunges. *)
SyncCommitKeepsMap(v) ==
    LET w == view[v]
        c == ctx[v]
        m == w.map
        h == IF c.new = NoObject /\ c.update THEN [heap EXCEPT !.maps[m].pos = NoPos] ELSE heap
        w2 == [w EXCEPT !.map = m,
                        !.inconsistent = @ \/ ~ReadAll(v),
                        !.keeps = TRUE,
                        !.exp = IF c.skipped THEN @ ELSE w.head]
    IN  /\ c.on
        /\ IF Reading THEN ~ReadAll(v) ELSE c.flags = {}
        /\ view' = [view EXCEPT ![v] = [w2 EXCEPT !.hidden = CleanHidden(w2)]]
        /\ ctx' = [ctx EXCEPT ![v] = NoCtx]
        /\ heap' = Sweep(h, {imap} \cup MapsOf(view', ctx'))
        /\ panic' = (panic \/ h.maps[m].n < c.min)
        /\ broken' = (broken \/ ~ReadAll(v))
        /\ client' = IF w2.inconsistent THEN client
                     ELSE [client EXCEPT ![v] = Told(v, h, m)]
        /\ UNCHANGED <<log, tail, imap, gaps>>

(* Fault: log_file_expunge moves although expunges were skipped. *)
SyncCommitForgets(v) ==
    LET w == view[v]
        c == ctx[v]
        m == IF c.new # NoObject THEN c.new ELSE w.map
        h == IF c.new = NoObject /\ c.update THEN [heap EXCEPT !.maps[m].pos = NoPos] ELSE heap
        w2 == [w EXCEPT !.map = m,
                        !.inconsistent = @ \/ ~ReadAll(v),
                        !.keeps = TRUE,
                        !.exp = w.head]
    IN  /\ c.on
        /\ IF Reading THEN ~ReadAll(v) ELSE c.flags = {}
        /\ view' = [view EXCEPT ![v] = [w2 EXCEPT !.hidden = CleanHidden(w2)]]
        /\ ctx' = [ctx EXCEPT ![v] = NoCtx]
        /\ heap' = Sweep(h, {imap} \cup MapsOf(view', ctx'))
        /\ panic' = (panic \/ h.maps[m].n < c.min)
        /\ broken' = (broken \/ ~ReadAll(v))
        /\ client' = IF w2.inconsistent THEN client
                     ELSE [client EXCEPT ![v] = Told(v, h, m)]
        /\ UNCHANGED <<log, tail, imap, gaps>>

(* mail_index_view_sync_commit(), also when not all records were read. *)
SyncCommit(v) ==
    LET w == view[v]
        c == ctx[v]
        m == IF c.new # NoObject THEN c.new ELSE w.map
        h == IF c.new = NoObject /\ c.update THEN [heap EXCEPT !.maps[m].pos = NoPos] ELSE heap
        w2 == [w EXCEPT !.map = m,
                        !.inconsistent = @ \/ ~ReadAll(v),
                        !.keeps = TRUE,
                        !.exp = IF c.skipped THEN @ ELSE w.head]
    IN  /\ c.on
        /\ IF Reading THEN ~ReadAll(v) ELSE c.flags = {}
        /\ view' = [view EXCEPT ![v] = [w2 EXCEPT !.hidden = CleanHidden(w2)]]
        /\ ctx' = [ctx EXCEPT ![v] = NoCtx]
        /\ heap' = Sweep(h, {imap} \cup MapsOf(view', ctx'))
        /\ panic' = (panic \/ h.maps[m].n < c.min)
        /\ broken' = (broken \/ ~ReadAll(v))
        /\ client' = IF w2.inconsistent THEN client
                     ELSE [client EXCEPT ![v] = Told(v, h, m)]
        /\ UNCHANGED <<log, tail, imap, gaps>>

(* MAIL_INDEX_VIEW_SYNC_FLAG_FIX_INCONSISTENT: the view starts over.  If   *)
(* the map of the index has no log position the view stays inconsistent.   *)
SyncFix(v) ==
    /\ ~Reading
    /\ view[v].map # NoObject
    /\ ~ctx[v].on
    /\ LET pos == heap.maps[imap].pos
           w == [NoView EXCEPT !.map = imap, !.head = pos, !.exp = pos, !.keeps = TRUE,
                               !.hidden = view[v].hidden,
                               !.inconsistent = /\ view[v].inconsistent
                                                /\ pos = NoPos
                                                /\ tail + 1 \notin Resets]
       IN  view' = [view EXCEPT ![v] = [w EXCEPT !.hidden = CleanHidden(w)]]
    /\ client' = [client EXCEPT ![v] = Records(heap, imap)]
    /\ heap' = Sweep(heap, {imap} \cup MapsOf(view', ctx))
    /\ UNCHANGED <<log, tail, imap, ctx, broken, gaps, panic>>

-----------------------------------------------------------------------------
Next ==
    \/ Write \/ Refresh \/ RefreshReset \/ Reopen \/ LogsClean
    \/ \E v \in Views :
        \/ WriteHidden(v) \/ Fetch(v) \/ Open(v) \/ Close(v) \/ SyncFails(v) \/ SyncFix(v)
        \/ \E noexp \in BOOLEAN : SyncBegin(v, noexp) \/ SyncBeginLost(v, noexp)
        \/ SyncNext(v) \/ SyncNextLost(v) \/ Report(v) \/ SyncCommit(v)

Spec == Init /\ [][Next]_vars

-----------------------------------------------------------------------------
(* Types of the state. *)
TypeOK ==
    /\ tail \in 0..Len(log)
    /\ imap \in Ids
    /\ \A i \in Ids :
        /\ heap.maps[i].rec \in Ids \cup {NoObject}
        /\ heap.maps[i].pos \in NoPos..Len(log)
        /\ heap.maps[i].rec # NoObject => heap.maps[i].n \in 0..Len(heap.recs[heap.maps[i].rec].r)
    /\ \A v \in Views :
        /\ view[v].map \in Ids \cup {NoObject}
        /\ view[v].head \in NoPos..Len(log)
        /\ view[v].exp \in NoPos..Len(log)
        /\ ctx[v].on => ctx[v].cur <= ctx[v].end

Settled(v) == view[v].map # NoObject /\ ~ctx[v].on /\ ~view[v].inconsistent
UidsOf(s) == [k \in 1..Len(s) |-> s[k].uid]

(* The assertions on appending to shared records (sync_append() finds its  *)
(* UID beyond all others of the record map) and on comparing two maps after *)
(* a lost log do not fail.  Those on the positions of the log view, in      *)
(* mail_transaction_log_view_set() and mail-index-view-sync.c:130, are not  *)
(* modelled.                                                               *)
NoPanic == ~panic

(* The map of the index is what the log says, although views that share    *)
(* records with it apply older flag changes to them again.  That holds     *)
(* after every sync that reads all of its records.                         *)
IndexIsLog ==
    ~Reading /\ ~broken /\ heap.maps[imap].pos # NoPos =>
        Records(heap, imap) = Contents(heap.maps[imap].pos).r

(* A client that counts messages by what it is told has the same sequence  *)
(* numbers as the view: nothing disappears without being reported or       *)
(* while expunges are held back, and new messages come at the end.         *)
SequencesAgree ==
    \A v \in Views : Settled(v) => UidsOf(client[v]) = UidsOf(Records(heap, view[v].map))

(* An expunge that was held back is found again by a later sync: if the    *)
(* view still has a message that the log expunged before log_file_head,    *)
(* then log_file_expunge is before that record.                            *)
DelayedExpungesPending ==
    \A v \in Views : Settled(v) =>
        \A i \in 1..view[v].head :
            (log[i].t = "expunge" /\ log[i].uid \in UidsIn(heap, view[v].map)
                /\ ~\E j \in Resets : j > i)
            => view[v].exp < i

(* A view that has nothing left to sync has exactly the messages of the    *)
(* index, with the same flags.                                             *)
SyncedIsIndex ==
    \A v \in Views :
        (Settled(v) /\ view[v].exp = view[v].head /\ view[v].head = heap.maps[imap].pos)
            => Records(heap, view[v].map) = Records(heap, imap)

(* Every flag change reaches the client: once the view is at the position  *)
(* of the index the client has the flags of the index, unless the log was  *)
(* lost on the way or the message is expunged.                             *)
FlagsReported ==
    \A v \in Views :
        (Settled(v) /\ ~view[v].wasLost /\ view[v].head = heap.maps[imap].pos)
            => \A k \in 1..Len(client[v]) :
                 client[v][k].uid \in UidsIn(heap, imap)
                   => client[v][k].flag = Lookup(heap, imap, client[v][k].uid)

(* A view becomes inconsistent only when the index is reset or its own     *)
(* sync is broken off; losing parts of the log is not a reason.  This is   *)
(* of a view that has the index for itself: the lost-log path of one view  *)
(* may zero the position of a map that the index and other views share.    *)
InconsistentOnlyByReset ==
    [][\A v \in Views : (view'[v].inconsistent /\ ~view[v].inconsistent)
          => Resets # {} \/ (ctx[v].on /\ ~ReadAll(v))]_vars
=============================================================================
