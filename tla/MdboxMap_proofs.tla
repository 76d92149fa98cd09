--------------------------- MODULE MdboxMap_proofs ---------------------------
(***************************************************************************)
(* Proofs about MdboxMap, for any processes, mailboxes and bounds.         *)
(***************************************************************************)
EXTENDS MdboxMap, FiniteSetTheorems, TLAPS

Pcs == {"idle", "lock", "mapped", "refs", "synced", "appended", "finish", "tried",
        "scanned", "copied", "checked", "purged", "remove", "removing"}
\* Where a process has the map locked, may have a mailbox locked, purges.
MapPcs == {"mapped", "refs", "synced", "appended", "finish", "checked"}
BoxPcs == {"tried", "refs", "synced", "appended"}
PurgePcs == {"scanned", "copied", "checked", "purged", "remove", "removing"}
Copying == {"copied", "checked"}

ProcRec == [op : {"none", "deliver", "sync", "purge"}, pc : Pcs, box : Boxes,
            file : Int, purged : Int, mail : Int, copy : Int,
            todo : [Uids -> Nat], live : SUBSET Uids, dead : SUBSET Uids,
            success : BOOLEAN]
MapRec == [file : Nat, ref : Nat]
FileRec == [mails : SUBSET Uids, unrecorded : Nat]

Types ==
    /\ map \in [DOMAIN map -> MapRec] /\ files \in [DOMAIN files -> FileRec]
    /\ DOMAIN map \subseteq Uids /\ DOMAIN files \subseteq 1..MaxFiles
    /\ nextUid \in Nat \ {0} /\ highest \in Nat
    /\ box \in [Boxes -> [Uids -> Nat]] /\ requests \in [Boxes -> [Uids -> Nat]]
    /\ mapLock \in Procs \union {NoProc}
    /\ boxLock \in [Boxes -> Procs \union {NoProc}]
    /\ fileLock \in [1..MaxFiles -> Procs \union {NoProc}]
    /\ proc \in [Procs -> ProcRec]
    /\ dirty \in BOOLEAN /\ noticed \in BOOLEAN /\ faults \in Nat

\* UIDs and file ids are given out once; counts stay below the limit.
MapOK ==
    \A u \in DOMAIN map : /\ u < nextUid
                          /\ map[u].file \in 1..highest
                          /\ map[u].ref < RefLimit
BoxesOK == \A b \in Boxes, u \in Uids : requests[b][u] <= box[b][u]

\* The bounds.
BoundsOK ==
    /\ nextUid + Cardinality(Saving) <= MaxMails + 1
    /\ highest + Cardinality(NewFiles) <= MaxFiles

\* What a process is doing fits what it is: r is its record, hi the highest file id.
ProcOK(r, hi) ==
    /\ r.pc = "idle" => r = Idle
    /\ r.pc \in PurgePcs => r.op = "purge"
    /\ r.pc = "appended" => r.op = "deliver"
    /\ r.pc \in {"lock", "mapped", "refs", "tried"} => r.mail = NoMail
    /\ r.pc \in {"appended", "finish"} /\ r.op = "deliver" => r.file = NoFile \/ r.mail # NoMail
    /\ r.op = "purge" => r.pc \in PurgePcs \union {"finish"} /\ r.purged \in 1..hi
    /\ r.file >= NewFile
    /\ r.file > hi => r.pc = "checked" /\ r.file = hi + 1
    /\ r.pc \in Copying => r.file # r.purged /\ (r.live = {} <=> r.file = NoFile)
    /\ r.pc = "checked" => r.file # NewFile

\* Locks.
LocksOK ==
    /\ \A p \in Procs : mapLock = p <=> proc[p].pc \in MapPcs
    /\ \A p \in Procs, b \in Boxes : boxLock[b] = p => proc[p].pc \in BoxPcs
    /\ \A f \in 1..MaxFiles : fileLock[f] # NoProc => f <= highest

\* A mailbox that is being synced, a mail that is about to get a reference:
\* bl are the locks of mailboxes, rq the requested expunges, m the map.
RefsOK(p, r, bl, rq, m) ==
    /\ r.pc = "refs" => bl[r.box] = p /\ \A u \in Uids : r.todo[u] <= rq[r.box][u]
    /\ r.pc = "appended" /\ r.copy # NoMail => r.copy \in DOMAIN m /\ m[r.copy].ref + 1 < RefLimit

\* The file that a process has written to; fl are the locks of files, fs the
\* files, bad says that the storage is marked corrupted.
Wrote(p, r, n, fl, hi, bad, fs) ==
    /\ \/ r.file <= hi /\ fl[r.file] = p
       \/ r.file = hi + 1 /\ r.pc = "checked"
    /\ ~bad /\ r.file \in DOMAIN fs => fs[r.file].unrecorded >= n
WriterOK(p, r, fl, hi, bad, fs) ==
    /\ r.op = "deliver" /\ r.mail = NoMail /\ r.file > 0 => Wrote(p, r, 1, fl, hi, bad, fs)
    /\ r.pc \in Copying /\ r.file > 0 => Wrote(p, r, Cardinality(r.live), fl, hi, bad, fs)

\* The file that a process purges; nu is the next UID.  Of the mails that the
\* process found in it only those may have vanished from the map that another
\* purge removed; once the map is locked none that is to be expunged has.
In(m, f) == {u \in DOMAIN m : m[u].file = f}
PurgeOK(p, r, fl, fs, m, nu, bad) ==
    /\ r.pc \in Copying \union {"purged"} => fl[r.purged] = p
    /\ r.pc \in Copying =>
          /\ r.purged \in DOMAIN fs
          /\ In(m, r.purged) = (r.live \union r.dead) \intersect DOMAIN m
          /\ \A u \in r.live \union r.dead : u < nu
    /\ r.pc = "checked" /\ ~bad => r.dead \subseteq DOMAIN m

\* Nobody purges the file that a process has created as long as that process
\* may still remove it; P are the records of all processes.
Creator(p, r, fl) ==
    /\ r.op = "deliver" /\ r.pc \in {"synced", "appended"}
    /\ r.mail # NoMail /\ r.file > 0 /\ fl[r.file] # p
CreatorOK(p, P, fl, m) ==
    Creator(p, P[p], fl) =>
        /\ \A u \in In(m, P[p].file) : m[u].ref > 0
        /\ \A q \in Procs : P[q].op = "purge" => P[q].purged # P[p].file

PartsOK(p, P, bl, fl, hi, bad, rq, fs, m, nu) ==
    /\ ProcOK(P[p], hi)
    /\ RefsOK(p, P[p], bl, rq, m)
    /\ WriterOK(p, P[p], fl, hi, bad, fs)
    /\ PurgeOK(p, P[p], fl, fs, m, nu, bad)
    /\ CreatorOK(p, P, fl, m)
IInv ==
    /\ Types /\ MapOK /\ BoxesOK /\ BoundsOK /\ LocksOK
    /\ \A p \in Procs : PartsOK(p, proc, boxLock, fileLock, highest, noticed, requests,
                                files, map, nextUid)

-----------------------------------------------------------------------------
(* Records of processes, and how many there are of a kind.                 *)

LEMMA IdleRec ==
    /\ Idle \in ProcRec /\ Idle.pc = "idle" /\ Idle.op = "none" /\ Idle.file = 0 /\ Idle.mail = 0
    /\ Idle.purged = 0 /\ Idle.copy = 0 /\ Idle.live = {} /\ Idle.dead = {}
<1>1. PICK b \in Boxes : b = CHOOSE x \in Boxes : TRUE
    BY FiniteAssumption
<1>2. NoRequests \in [Uids -> Nat]
    BY DEF NoRequests
<1>3. PICK t \in [Uids -> Nat] : t = NoRequests
    BY <1>2
<1>4. Idle = [op |-> "none", pc |-> "idle", box |-> b,
         file |-> 0, purged |-> 0, mail |-> 0, copy |-> 0,
         todo |-> t, live |-> {}, dead |-> {}, success |-> FALSE]
    BY <1>1, <1>3 DEF Idle, NoFile, NoMail
<1>. QED BY <1>4 DEF ProcRec, Pcs

\* r is r0 except for its pc.
Moved(r, r0) ==
    /\ r.op = r0.op /\ r.box = r0.box /\ r.file = r0.file /\ r.purged = r0.purged
    /\ r.mail = r0.mail /\ r.copy = r0.copy /\ r.todo = r0.todo /\ r.live = r0.live
    /\ r.dead = r0.dead

LEMMA GoRec ==
    ASSUME NEW r0 \in ProcRec, NEW pc \in Pcs, NEW r, r = [r0 EXCEPT !.pc = pc]
    PROVE  r \in ProcRec /\ r.pc = pc /\ Moved(r, r0)
BY DEF ProcRec, Moved

LEMMA GoWell ==
    ASSUME NEW r0 \in ProcRec, NEW pc \in Pcs,
           NEW r, r = [r0 EXCEPT !.pc = pc, !.success = TRUE]
    PROVE  r \in ProcRec /\ r.pc = pc /\ Moved(r, r0)
BY DEF ProcRec, Moved

LEMMA Fewer ==
    ASSUME NEW S, IsFiniteSet(S), NEW T, NEW x
    PROVE  /\ Cardinality(S) \in Nat
           /\ T \subseteq S => Cardinality(T) \in Nat /\ Cardinality(T) <= Cardinality(S)
           /\ T \subseteq S \union {x} =>
                 Cardinality(T) \in Nat /\ Cardinality(T) <= Cardinality(S) + 1
           /\ x \in S /\ T \subseteq S \ {x} =>
                 Cardinality(T) \in Nat /\ Cardinality(T) <= Cardinality(S) - 1
<1>1. Cardinality(S) \in Nat
    BY FS_CardinalityType
<1>2. ASSUME T \subseteq S PROVE Cardinality(T) \in Nat /\ Cardinality(T) <= Cardinality(S)
    <2>1. IsFiniteSet(T) /\ Cardinality(T) <= Cardinality(S)
        BY <1>2, FS_Subset
    <2>. QED BY <2>1, FS_CardinalityType
<1>3. ASSUME T \subseteq S \union {x}
      PROVE  Cardinality(T) \in Nat /\ Cardinality(T) <= Cardinality(S) + 1
    <2>1. PICK U : U = S \union {x}
        OBVIOUS
    <2>2. /\ IsFiniteSet(U)
          /\ Cardinality(U) = IF x \in S THEN Cardinality(S) ELSE Cardinality(S) + 1
        BY <2>1, FS_AddElement
    <2>3. IsFiniteSet(T) /\ Cardinality(T) <= Cardinality(U)
        BY <1>3, <2>1, <2>2, FS_Subset
    <2>4. Cardinality(T) \in Nat
        BY <2>3, FS_CardinalityType
    <2>. QED BY <1>1, <2>2, <2>3, <2>4
<1>4. ASSUME x \in S, T \subseteq S \ {x}
      PROVE  Cardinality(T) \in Nat /\ Cardinality(T) <= Cardinality(S) - 1
    <2>1. PICK U : U = S \ {x}
        OBVIOUS
    <2>2. /\ IsFiniteSet(U)
          /\ Cardinality(U) = IF x \in S THEN Cardinality(S) - 1 ELSE Cardinality(S)
        BY <2>1, FS_RemoveElement
    <2>3. IsFiniteSet(T) /\ Cardinality(T) <= Cardinality(U)
        BY <1>4, <2>1, <2>2, FS_Subset
    <2>4. Cardinality(T) \in Nat
        BY <2>3, FS_CardinalityType
    <2>. QED BY <1>1, <1>4, <2>2, <2>3, <2>4
<1>. QED BY <1>1, <1>2, <1>3, <1>4

-----------------------------------------------------------------------------
(* A step of process p, seen by the others.                                *)

Others(p) == Procs \ {p}

\* The locks that the others have stay with them.
LocksStay(p) ==
    /\ \A q \in Others(p) : mapLock' = q <=> mapLock = q
    /\ \A q \in Others(p), b \in Boxes : boxLock'[b] = q <=> boxLock[b] = q
    /\ \A q \in Others(p), f \in 1..MaxFiles : fileLock'[f] = q <=> fileLock[f] = q
\* The map changes only if none of the others has locked it, and ids only grow.
MapStays(p) ==
    /\ map' = map \/ mapLock \in {p, NoProc}
    /\ highest' \in Nat /\ nextUid' \in Nat /\ highest <= highest' /\ nextUid <= nextUid'
    /\ highest' = highest \/ mapLock = p
\* Requested expunges are taken back only by who has locked the mailbox.
RequestsStay(p) ==
    \A b \in Boxes : boxLock[b] = p \/ \A u \in Uids : requests[b][u] <= requests'[b][u]
\* What the others purge stays as it is.
PurgesStay(p) ==
    /\ \A q \in Others(p) : proc[q].pc \in Copying =>
          /\ proc[q].purged \in DOMAIN files'
          /\ In(map', proc[q].purged) =
                (proc[q].live \union proc[q].dead) \intersect DOMAIN map'
    /\ \A f \in 1..highest : f \in DOMAIN files' => f \in DOMAIN files
\* What the others have written stays.
WritesStay(p) ==
    \A q \in Others(p), f \in DOMAIN files' :
        fileLock[f] = q \/ (f = highest + 1 /\ mapLock = q) =>
            f \in DOMAIN files /\ files'[f].unrecorded >= files[f].unrecorded
\* p purges what it did before, or the file of a mail without references.
PurgeFound(p) ==
    proc'[p].op = "purge" => \/ proc[p].op = "purge" /\ proc'[p].purged = proc[p].purged
                             \/ \E u \in DOMAIN map : map[u].ref = 0 /\ map[u].file = proc'[p].purged

LEMMA HighestOK ==
    ASSUME IInv
    PROVE  highest \in Nat /\ MaxFiles \in Nat /\ highest <= MaxFiles
<1>1. IsFiniteSet(NewFiles)
    BY FiniteAssumption, FS_Subset DEF NewFiles
<1>2. Cardinality(NewFiles) \in Nat
    BY <1>1, FS_CardinalityType
<1>. QED BY <1>2, BoundsAssumption DEF IInv, Types, BoundsOK

LEMMA OthersOK ==
    ASSUME IInv, ~noticed, Types', NEW p \in Procs,
           \A q \in Others(p) : proc'[q] = proc[q],
           LocksStay(p), MapStays(p), RequestsStay(p), PurgesStay(p), WritesStay(p), PurgeFound(p)
    PROVE  \A q \in Others(p) : PartsOK(q, proc', boxLock', fileLock', highest', noticed',
                                        requests', files', map', nextUid')
<1>1. ASSUME NEW q \in Others(p)
      PROVE  PartsOK(q, proc', boxLock', fileLock', highest', noticed',
                     requests', files', map', nextUid')
    <2>1. PICK r : r = proc[q]
        OBVIOUS
    <2>2. /\ proc'[q] = r /\ r \in ProcRec /\ q \in Procs /\ q # p /\ highest \in Nat
          /\ r.file \in Int /\ r.purged \in Int /\ highest' \in Nat /\ highest <= highest'
          /\ NoProc \notin Procs
        BY <2>1, NoProcAssumption DEF IInv, Types, Others, ProcRec, MapStays
    <2>3. /\ ProcOK(r, highest) /\ RefsOK(q, r, boxLock, requests, map)
          /\ WriterOK(q, r, fileLock, highest, noticed, files)
          /\ PurgeOK(q, r, fileLock, files, map, nextUid, noticed) /\ CreatorOK(q, proc, fileLock, map)
        BY <2>1, <2>2 DEF IInv, PartsOK
    <2>4. r.pc \in MapPcs <=> mapLock = q
        BY <2>1, <2>2 DEF IInv, LocksOK
    <2>5. r.pc \in MapPcs => map' = map /\ highest' = highest
        BY <2>2, <2>4 DEF MapStays
    <2>6. ProcOK(r, highest')
        <3>1. r.purged \in 1..highest => r.purged \in 1..highest'
            BY <2>2
        <3>2. r.file > highest' => r.file > highest
            BY <2>2
        <3>3. r.file > highest => highest' = highest
            BY <2>3, <2>5 DEF ProcOK, MapPcs
        <3>. QED BY <2>2, <2>3, <3>1, <3>2, <3>3 DEF ProcOK
    <2>7. RefsOK(q, r, boxLock', requests', map')
        <3>1. ASSUME r.pc = "refs"
              PROVE  boxLock'[r.box] = q /\ \A u \in Uids : r.todo[u] <= requests'[r.box][u]
            <4>1. r.box \in Boxes /\ boxLock[r.box] = q
                BY <2>2, <2>3, <3>1 DEF RefsOK, ProcRec
            <4>2. \A u \in Uids : requests[r.box][u] <= requests'[r.box][u]
                BY <2>2, <4>1 DEF RequestsStay
            <4>3. boxLock'[r.box] = q
                BY <4>1 DEF LocksStay
            <4>4. ASSUME NEW u \in Uids PROVE r.todo[u] <= requests'[r.box][u]
                <5>1. r.todo[u] \in Nat /\ requests[r.box][u] \in Nat
                    BY <2>2, <4>1 DEF IInv, Types, ProcRec
                <5>2. r.todo[u] <= requests[r.box][u]
                    BY <2>3, <3>1 DEF RefsOK
                <5>3. requests[r.box][u] <= requests'[r.box][u] /\ requests'[r.box][u] \in Nat
                    BY <4>1, <4>2 DEF Types
                <5>. QED BY <5>1, <5>2, <5>3
            <4>. QED BY <4>3, <4>4
        <3>2. r.pc = "appended" => map' = map
            BY <2>5 DEF MapPcs
        <3>. QED BY <2>3, <3>1, <3>2 DEF RefsOK
    <2>8. WriterOK(q, r, fileLock', highest', noticed', files')
        <3>1. ASSUME NEW n \in Nat, Wrote(q, r, n, fileLock, highest, noticed, files), r.file > 0
              PROVE  Wrote(q, r, n, fileLock', highest', noticed', files')
            <4>1. r.pc = "checked" => mapLock = q /\ highest' = highest
                BY <2>4, <2>5 DEF MapPcs
            <4>2. r.file <= highest /\ fileLock[r.file] = q => fileLock'[r.file] = q
                BY <2>2, <3>1, HighestOK DEF LocksStay
            <4>3. ASSUME r.file \in DOMAIN files'
                  PROVE  r.file \in DOMAIN files /\ files'[r.file].unrecorded >= files[r.file].unrecorded
                BY <3>1, <4>1, <4>3 DEF WritesStay, Wrote
            <4>4. ASSUME ~noticed', r.file \in DOMAIN files' PROVE files'[r.file].unrecorded >= n
                <5>1. files'[r.file].unrecorded \in Nat /\ files[r.file].unrecorded \in Nat
                    BY <4>3, <4>4 DEF IInv, Types, FileRec
                <5>2. files[r.file].unrecorded >= n
                    BY <3>1, <4>3, <4>4 DEF Wrote
                <5>. QED BY <4>3, <4>4, <5>1, <5>2
            <4>. QED BY <2>2, <3>1, <4>1, <4>2, <4>4 DEF Wrote
        <3>2. Cardinality(r.live) \in Nat
            <4>1. r.live \subseteq Uids /\ IsFiniteSet(Uids)
                BY <2>2, BoundsAssumption, FS_Interval DEF ProcRec, Uids
            <4>. QED BY <4>1, FS_Subset, FS_CardinalityType
        <3>. QED BY <2>3, <3>1, <3>2 DEF WriterOK
    <2>9. PurgeOK(q, r, fileLock', files', map', nextUid', noticed')
        <3>1. ASSUME r.pc \in PurgePcs PROVE r.purged \in 1..highest /\ r.purged \in 1..MaxFiles
            BY <2>2, <2>3, <3>1, HighestOK DEF ProcOK
        <3>2. r.pc \in Copying \union {"purged"} => fileLock'[r.purged] = q
            BY <2>3, <3>1 DEF PurgeOK, LocksStay, PurgePcs, Copying
        <3>3. r.pc \in Copying =>
                 /\ r.purged \in DOMAIN files'
                 /\ In(map', r.purged) = (r.live \union r.dead) \intersect DOMAIN map'
            BY <2>1 DEF PurgesStay
        <3>4. ASSUME r.pc \in Copying, NEW u \in r.live \union r.dead PROVE u < nextUid'
            <4>1. u \in Nat /\ nextUid \in Nat /\ nextUid' \in Nat /\ nextUid <= nextUid'
                BY <2>2 DEF IInv, Types, ProcRec, Uids, MapStays
            <4>2. u < nextUid
                BY <2>3, <3>4 DEF PurgeOK
            <4>. QED BY <4>1, <4>2
        <3>5. r.pc = "checked" => r.dead \subseteq DOMAIN map'
            <4>1. r.pc = "checked" => map' = map
                BY <2>5 DEF MapPcs
            <4>2. r.pc = "checked" => r.dead \subseteq DOMAIN map
                BY <2>3 DEF PurgeOK
            <4>. QED BY <4>1, <4>2
        <3>. QED BY <3>2, <3>3, <3>4, <3>5 DEF PurgeOK
    <2>10. CreatorOK(q, proc', fileLock', map')
        <3>1. SUFFICES ASSUME Creator(q, r, fileLock')
                       PROVE  /\ \A u \in In(map', r.file) : map'[u].ref > 0
                              /\ \A x \in Procs : proc'[x].op = "purge" => proc'[x].purged # r.file
            BY <2>2 DEF CreatorOK
        <3>2. r.pc \in MapPcs /\ map' = map
            BY <2>5, <3>1 DEF Creator, MapPcs
        <3>3. r.file \in 1..MaxFiles
            BY <2>2, <2>3, <3>1, HighestOK DEF Creator, ProcOK
        <3>4. Creator(q, r, fileLock)
            BY <3>1, <3>3 DEF Creator, LocksStay
        <3>5. /\ \A u \in In(map, r.file) : map[u].ref > 0
              /\ \A x \in Procs : proc[x].op = "purge" => proc[x].purged # r.file
            BY <2>1, <2>3, <3>4 DEF CreatorOK
        <3>6. proc'[p].op = "purge" => proc'[p].purged # r.file
            BY <3>5 DEF PurgeFound, In
        <3>. QED BY <3>2, <3>5, <3>6 DEF Others
    <2>. QED BY <2>2, <2>6, <2>7, <2>8, <2>9, <2>10 DEF PartsOK
<1>. QED BY <1>1

\* The locks of p itself.
OwnLocks(p) ==
    /\ mapLock' = p <=> proc'[p].pc \in MapPcs
    /\ \A b \in Boxes : boxLock'[b] = p => proc'[p].pc \in BoxPcs
    /\ \A f \in 1..MaxFiles : fileLock'[f] # NoProc => f <= highest'

\* What the step does to p is in its record, and the record fits.
OwnOK(p) ==
    /\ \A q \in Others(p) : proc'[q] = proc[q]
    /\ ProcOK(proc'[p], highest')
    /\ RefsOK(p, proc'[p], boxLock', requests', map')
    /\ WriterOK(p, proc'[p], fileLock', highest', noticed', files')
    /\ PurgeOK(p, proc'[p], fileLock', files', map', nextUid', noticed')
    /\ CreatorOK(p, proc', fileLock', map')

LEMMA StepOK ==
    ASSUME IInv, ~noticed, NEW p \in Procs,
           Types', MapOK', BoxesOK', BoundsOK', OwnLocks(p), OwnOK(p),
           LocksStay(p), MapStays(p), RequestsStay(p), PurgesStay(p), WritesStay(p), PurgeFound(p)
    PROVE  IInv'
<1>1. \A q \in Others(p) : PartsOK(q, proc', boxLock', fileLock', highest', noticed',
                                   requests', files', map', nextUid')
    <2>1. \A q \in Others(p) : proc'[q] = proc[q]
        BY DEF OwnOK
    <2>. QED BY <2>1, OthersOK
<1>2. PartsOK(p, proc', boxLock', fileLock', highest', noticed',
              requests', files', map', nextUid')
    BY DEF OwnOK, PartsOK
<1>3. \A q \in Procs : PartsOK(q, proc', boxLock', fileLock', highest', noticed',
                               requests', files', map', nextUid')
    BY <1>1, <1>2 DEF Others
<1>4. LocksOK'
    <2>1. ASSUME NEW q \in Procs PROVE mapLock' = q <=> proc'[q].pc \in MapPcs
        BY DEF IInv, LocksOK, LocksStay, OwnLocks, OwnOK, Others
    <2>2. ASSUME NEW q \in Procs, NEW b \in Boxes, boxLock'[b] = q PROVE proc'[q].pc \in BoxPcs
        BY <2>2 DEF IInv, LocksOK, LocksStay, OwnLocks, OwnOK, Others
    <2>3. \A f \in 1..MaxFiles : fileLock'[f] # NoProc => f <= highest'
        BY DEF OwnLocks
    <2>. QED BY <2>1, <2>2, <2>3 DEF LocksOK
<1>. QED BY <1>3, <1>4 DEF IInv

(* Steps that leave the map and the files alone. *)
LEMMA SameMap ==
    ASSUME IInv, NEW p \in Procs, UNCHANGED <<map, nextUid, highest, files>>
    PROVE  MapOK' /\ MapStays(p) /\ PurgesStay(p) /\ WritesStay(p)
<1>1. MapOK'
    BY DEF IInv, MapOK
<1>2. MapStays(p)
    BY DEF IInv, Types, MapStays
<1>3. PurgesStay(p)
    BY DEF IInv, PartsOK, PurgeOK, PurgesStay, Others
<1>4. WritesStay(p)
    <2>1. \A f \in DOMAIN files : files[f].unrecorded \in Nat
        BY DEF IInv, Types, FileRec
    <2>. QED BY <2>1 DEF WritesStay
<1>. QED BY <1>1, <1>2, <1>3, <1>4

\* A process that will save a mail, that may create a file.
Saves(r) == r.op = "deliver" /\ r.mail = NoMail /\ r.file # NoFile
Creates(r, hi) == r.file = NewFile \/ r.file > hi \/ r.pc = "scanned"

LEMMA CountsOK ==
    ASSUME IInv, NEW p \in Procs, \A q \in Others(p) : proc'[q] = proc[q],
           MapStays(p), proc' \in [Procs -> ProcRec],
           \/ nextUid' = nextUid /\ (Saves(proc'[p]) => Saves(proc[p]) \/ Savable(1))
           \/ nextUid' = nextUid + 1 /\ Saves(proc[p]) /\ ~Saves(proc'[p])
           \/ \E k \in Nat : nextUid' = nextUid + k /\ Savable(k) /\ ~Saves(proc'[p]),
           \/ highest' = highest /\ (Creates(proc'[p], highest) => Creates(proc[p], highest) \/ Creatable)
           \/ highest' = highest + 1 /\ Creates(proc[p], highest) /\ ~Creates(proc'[p], highest')
    PROVE  BoundsOK'
<1>1. IsFiniteSet(Saving) /\ IsFiniteSet(NewFiles)
    BY FiniteAssumption, FS_Subset DEF Saving, NewFiles
<1>2. /\ nextUid \in Nat /\ highest \in Nat /\ MaxMails \in Nat /\ MaxFiles \in Nat
      /\ nextUid + Cardinality(Saving) <= MaxMails + 1
      /\ highest + Cardinality(NewFiles) <= MaxFiles
      /\ proc \in [Procs -> ProcRec] /\ highest' \in Nat /\ highest <= highest'
    BY BoundsAssumption DEF IInv, Types, BoundsOK, MapStays
<1>3. \A q \in Procs : proc[q].file \in Int
    BY <1>2 DEF ProcRec
<1>s. /\ Saving = {q \in Procs : Saves(proc[q])} /\ Saving' = {q \in Procs : Saves(proc'[q])}
      /\ NewFiles = {q \in Procs : Creates(proc[q], highest)}
      /\ NewFiles' = {q \in Procs : Creates(proc'[q], highest')}
    BY DEF Saving, NewFiles, Saves, Creates
<1>4. nextUid' + Cardinality(Saving') <= MaxMails + 1
    <2>1. PICK S, T : S = Saving /\ T = Saving'
        OBVIOUS
    <2>2. T \subseteq S \union {p}
        BY <1>s, <2>1 DEF Others
    <2>3. CASE nextUid' = nextUid /\ (Saves(proc'[p]) => Saves(proc[p]))
        <3>1. T \subseteq S
            BY <1>s, <2>1, <2>3 DEF Others
        <3>. QED BY <1>1, <1>2, <2>1, <2>3, <3>1, Fewer
    <2>4. CASE nextUid' = nextUid /\ Savable(1)
        <3>1. nextUid + Cardinality(S) + 1 <= MaxMails + 1
            BY <2>1, <2>4 DEF Savable
        <3>. QED BY <1>1, <1>2, <2>1, <2>2, <2>4, <3>1, Fewer
    <2>5. CASE nextUid' = nextUid + 1 /\ Saves(proc[p]) /\ ~Saves(proc'[p])
        <3>1. p \in S /\ T \subseteq S \ {p}
            BY <1>s, <2>1, <2>5 DEF Others
        <3>. QED BY <1>1, <1>2, <2>1, <2>5, <3>1, Fewer
    <2>6. CASE \E k \in Nat : nextUid' = nextUid + k /\ Savable(k) /\ ~Saves(proc'[p])
        <3>1. PICK k \in Nat : nextUid' = nextUid + k /\ Savable(k) /\ ~Saves(proc'[p])
            BY <2>6
        <3>2. nextUid + Cardinality(S) + k <= MaxMails + 1
            BY <2>1, <3>1 DEF Savable
        <3>3. T \subseteq S
            BY <1>s, <2>1, <3>1 DEF Others
        <3>4. Cardinality(S) \in Nat /\ Cardinality(T) \in Nat /\ Cardinality(T) <= Cardinality(S)
            BY <1>1, <2>1, <3>3, Fewer
        <3>. QED BY <1>2, <2>1, <3>1, <3>2, <3>4
    <2>. QED BY <2>3, <2>4, <2>5, <2>6
<1>5. highest' + Cardinality(NewFiles') <= MaxFiles
    <2>1. PICK S, T : S = NewFiles /\ T = NewFiles'
        OBVIOUS
    <2>2. \A q \in Others(p) : Creates(proc'[q], highest') => Creates(proc[q], highest)
        BY <1>2, <1>3 DEF Others, Creates
    <2>3. T \subseteq S \union {p}
        BY <1>s, <2>1, <2>2 DEF Others
    <2>4. CASE highest' = highest /\ (Creates(proc'[p], highest) => Creates(proc[p], highest))
        <3>1. T \subseteq S
            BY <1>s, <2>1, <2>2, <2>4 DEF Others
        <3>. QED BY <1>1, <1>2, <2>1, <2>4, <3>1, Fewer
    <2>5. CASE highest' = highest /\ Creatable
        <3>1. highest + Cardinality(S) < MaxFiles
            BY <2>1, <2>5 DEF Creatable
        <3>. QED BY <1>1, <1>2, <2>1, <2>3, <2>5, <3>1, Fewer
    <2>6. CASE highest' = highest + 1 /\ Creates(proc[p], highest) /\ ~Creates(proc'[p], highest')
        <3>1. p \in S /\ T \subseteq S \ {p}
            BY <1>s, <2>1, <2>2, <2>6 DEF Others
        <3>. QED BY <1>1, <1>2, <2>1, <2>6, <3>1, Fewer
    <2>. QED BY <2>4, <2>5, <2>6
<1>. QED BY <1>4, <1>5 DEF BoundsOK

LEMMA UnlockedFiles ==
    ASSUME IInv, NEW p \in Procs, fileLock' = Unlocked(fileLock, p)
    PROVE  /\ fileLock' \in [1..MaxFiles -> Procs \union {NoProc}]
           /\ \A f \in 1..MaxFiles : fileLock'[f] # p /\ (fileLock'[f] # NoProc => f <= highest)
           /\ \A q \in Others(p), f \in 1..MaxFiles : fileLock'[f] = q <=> fileLock[f] = q
BY NoProcAssumption DEF IInv, Types, LocksOK, Unlocked, Others

LEMMA UnlockedBoxes ==
    ASSUME IInv, NEW p \in Procs, boxLock' = Unlocked(boxLock, p)
    PROVE  /\ boxLock' \in [Boxes -> Procs \union {NoProc}]
           /\ \A b \in Boxes : boxLock'[b] # p
           /\ \A q \in Others(p), b \in Boxes : boxLock'[b] = q <=> boxLock[b] = q
BY NoProcAssumption DEF IInv, Types, Unlocked, Others

LEMMA QuietStep ==
    ASSUME IInv, ~noticed, NEW p \in Procs, UNCHANGED <<map, nextUid, highest, files>>,
           Types', BoxesOK', OwnLocks(p), OwnOK(p), LocksStay(p), RequestsStay(p), PurgeFound(p),
           Saves(proc'[p]) => Saves(proc[p]),
           Creates(proc'[p], highest) => Creates(proc[p], highest) \/ Creatable
    PROVE  IInv'
<1>1. MapOK' /\ MapStays(p) /\ PurgesStay(p) /\ WritesStay(p)
    BY SameMap
<1>2. BoundsOK'
    <2>1. \A q \in Others(p) : proc'[q] = proc[q]
        BY DEF OwnOK
    <2>2. proc' \in [Procs -> ProcRec]
        BY DEF Types
    <2>. QED BY <1>1, <2>1, <2>2, CountsOK
<1>. QED BY <1>1, <1>2, StepOK

LEMMA ProcStep ==
    ASSUME IInv, NEW p \in Procs, NEW r \in ProcRec, proc' = [proc EXCEPT ![p] = r]
    PROVE  /\ proc' \in [Procs -> ProcRec] /\ proc'[p] = r
           /\ \A q \in Others(p) : proc'[q] = proc[q]
BY DEF IInv, Types, Others

LEMMA GoStep ==
    ASSUME IInv, NEW p \in Procs, NEW pc \in Pcs, Go(p, pc)
    PROVE  /\ proc' \in [Procs -> ProcRec] /\ proc'[p].pc = pc /\ Moved(proc'[p], proc[p])
           /\ proc'[p] \in ProcRec
           /\ \A q \in Others(p) : proc'[q] = proc[q]
<1>1. PICK r0, r : r0 = proc[p] /\ r = [r0 EXCEPT !.pc = pc]
    OBVIOUS
<1>2. r0 \in ProcRec /\ proc \in [Procs -> ProcRec]
    BY <1>1 DEF IInv, Types
<1>3. r \in ProcRec /\ r.pc = pc /\ Moved(r, r0)
    BY <1>1, <1>2, GoRec
<1>4. proc' = [proc EXCEPT ![p] = r]
    BY <1>1, <1>2 DEF Go
<1>. QED BY <1>1, <1>3, <1>4, ProcStep

LEMMA GoWellStep ==
    ASSUME IInv, NEW p \in Procs, NEW pc \in Pcs,
           proc' = [proc EXCEPT ![p].pc = pc, ![p].success = TRUE]
    PROVE  /\ proc' \in [Procs -> ProcRec] /\ proc'[p].pc = pc /\ Moved(proc'[p], proc[p])
           /\ proc'[p] \in ProcRec /\ proc' = [proc EXCEPT ![p] = proc'[p]]
           /\ \A q \in Others(p) : proc'[q] = proc[q]
<1>1. PICK r0, r : r0 = proc[p] /\ r = [r0 EXCEPT !.pc = pc, !.success = TRUE]
    OBVIOUS
<1>2. r0 \in ProcRec /\ proc \in [Procs -> ProcRec]
    BY <1>1 DEF IInv, Types
<1>3. r \in ProcRec /\ r.pc = pc /\ Moved(r, r0)
    BY <1>1, <1>2, GoWell
<1>4. proc' = [proc EXCEPT ![p] = r]
    BY <1>1, <1>2
<1>. QED BY <1>1, <1>3, <1>4, ProcStep

\* The record of a process, and what the invariant says of it.
LEMMA Own ==
    ASSUME IInv, NEW p \in Procs
    PROVE  /\ proc[p] \in ProcRec /\ ProcOK(proc[p], highest)
           /\ RefsOK(p, proc[p], boxLock, requests, map)
           /\ WriterOK(p, proc[p], fileLock, highest, noticed, files)
           /\ PurgeOK(p, proc[p], fileLock, files, map, nextUid, noticed)
           /\ CreatorOK(p, proc, fileLock, map)
           /\ proc[p].file \in Int /\ proc[p].purged \in Int /\ proc[p].box \in Boxes
           /\ highest \in Nat
           /\ mapLock = p <=> proc[p].pc \in MapPcs
           /\ \A b \in Boxes : boxLock[b] = p => proc[p].pc \in BoxPcs
BY DEF IInv, PartsOK, Types, ProcRec, LocksOK

\* A process that has stopped.
LEMMA IdleOK ==
    ASSUME NEW p, NEW P, P[p] = Idle, NEW bl, NEW fl, NEW hi \in Nat, NEW bad, NEW rq, NEW fs,
           NEW m, NEW nu
    PROVE  /\ ProcOK(P[p], hi) /\ RefsOK(p, P[p], bl, rq, m) /\ WriterOK(p, P[p], fl, hi, bad, fs)
           /\ PurgeOK(p, P[p], fl, fs, m, nu, bad) /\ CreatorOK(p, P, fl, m)
<1>1. ProcOK(Idle, hi)
    BY IdleRec DEF ProcOK, PurgePcs, Copying, NewFile
<1>2. RefsOK(p, Idle, bl, rq, m) /\ WriterOK(p, Idle, fl, hi, bad, fs)
    BY IdleRec DEF RefsOK, WriterOK, Copying
<1>3. PurgeOK(p, Idle, fl, fs, m, nu, bad)
    BY IdleRec DEF PurgeOK, Copying
<1>4. CreatorOK(p, P, fl, m)
    BY IdleRec DEF CreatorOK, Creator
<1>. QED BY <1>1, <1>2, <1>3, <1>4

LEMMA StopOK ==
    ASSUME IInv, ~noticed, NEW p \in Procs, Stop(p),
           UNCHANGED <<map, nextUid, highest, box, requests>>,
           dirty' \in BOOLEAN, noticed' \in BOOLEAN, faults' \in Nat,
           files' \in [DOMAIN files' -> FileRec], DOMAIN files' \subseteq 1..MaxFiles,
           PurgesStay(p), WritesStay(p),
           mapLock' = IF mapLock = p THEN NoProc ELSE mapLock,
           \/ boxLock' = Unlocked(boxLock, p)
           \/ boxLock' = boxLock /\ proc[p].pc \notin BoxPcs,
           fileLock' = Unlocked(fileLock, p) \/ fileLock' = fileLock
    PROVE  IInv'
<1>1. /\ proc' \in [Procs -> ProcRec] /\ proc'[p] = Idle
      /\ \A q \in Others(p) : proc'[q] = proc[q]
    <2>1. Idle \in ProcRec
        BY IdleRec
    <2>. QED BY <2>1, ProcStep DEF Stop
<1>2. /\ boxLock' \in [Boxes -> Procs \union {NoProc}] /\ \A b \in Boxes : boxLock'[b] # p
      /\ \A q \in Others(p), b \in Boxes : boxLock'[b] = q <=> boxLock[b] = q
    <2>1. CASE boxLock' = Unlocked(boxLock, p)
        BY <2>1, UnlockedBoxes
    <2>2. CASE boxLock' = boxLock /\ proc[p].pc \notin BoxPcs
        BY <2>2 DEF IInv, Types, LocksOK
    <2>. QED BY <2>1, <2>2
<1>3. /\ fileLock' \in [1..MaxFiles -> Procs \union {NoProc}]
      /\ \A f \in 1..MaxFiles : fileLock'[f] # NoProc => f <= highest
      /\ \A q \in Others(p), f \in 1..MaxFiles : fileLock'[f] = q <=> fileLock[f] = q
    <2>1. CASE fileLock' = Unlocked(fileLock, p)
        BY <2>1, UnlockedFiles
    <2>2. CASE fileLock' = fileLock
        BY <2>2 DEF IInv, Types, LocksOK
    <2>. QED BY <2>1, <2>2
<1>4. Types'
    BY <1>1, <1>2, <1>3 DEF IInv, Types
<1>5. MapOK' /\ BoxesOK' /\ RequestsStay(p) /\ MapStays(p)
    <2>1. MapOK' /\ BoxesOK' /\ MapStays(p)
        BY DEF IInv, MapOK, BoxesOK, Types, MapStays
    <2>2. \A b \in Boxes, u \in Uids : requests[b][u] \in Nat
        BY DEF IInv, Types
    <2>3. RequestsStay(p)
        BY <2>2 DEF RequestsStay
    <2>. QED BY <2>1, <2>3
<1>6. LocksStay(p) /\ OwnLocks(p)
    <2>1. LocksStay(p)
        BY <1>2, <1>3, NoProcAssumption DEF LocksStay, Others
    <2>2. OwnLocks(p)
        BY <1>1, <1>2, <1>3, IdleRec, NoProcAssumption DEF OwnLocks, MapPcs
    <2>. QED BY <2>1, <2>2
<1>7. OwnOK(p)
    <2>1. highest' \in Nat
        BY DEF IInv, Types
    <2>. QED BY <1>1, <2>1, IdleOK DEF OwnOK
<1>8. PurgeFound(p)
    BY <1>1, IdleRec DEF PurgeFound
<1>9. BoundsOK'
    <2>1. ~Saves(proc'[p]) /\ ~Creates(proc'[p], highest)
        <3>1. highest \in Nat
            BY DEF IInv, Types
        <3>. QED BY <1>1, <3>1, IdleRec DEF Saves, Creates, NewFile
    <2>. QED BY <1>1, <1>5, <2>1, CountsOK
<1>. QED BY <1>4, <1>5, <1>6, <1>7, <1>8, <1>9, StepOK

LEMMA SameFiles ==
    ASSUME IInv
    PROVE  files \in [DOMAIN files -> FileRec] /\ DOMAIN files \subseteq 1..MaxFiles
BY DEF IInv, Types

LEMMA FaultOK ==
    ASSUME IInv
    PROVE  faults \in Nat /\ (Fault => faults' \in Nat)
BY DEF IInv, Types, Fault

LEMMA FinishOK ==
    ASSUME IInv, NEW p \in Procs, Finish(p)
    PROVE  IInv'
<1>1. /\ ~noticed /\ Stop(p) /\ proc[p].pc = "finish"
      /\ UNCHANGED <<map, nextUid, highest, box, requests, files, boxLock, fileLock, noticed, faults>>
      /\ mapLock' = NoProc
    BY DEF Finish, At, boxes, history
<1>2. mapLock = p /\ proc[p].pc \notin BoxPcs
    BY <1>1, Own DEF MapPcs, BoxPcs
<1>3. dirty' \in BOOLEAN /\ noticed' \in BOOLEAN /\ faults' \in Nat
    BY <1>1 DEF IInv, Types, Finish, TailAfter
<1>4. PurgesStay(p) /\ WritesStay(p)
    BY <1>1, SameMap
<1>5. files' \in [DOMAIN files' -> FileRec] /\ DOMAIN files' \subseteq 1..MaxFiles
    BY <1>1, SameFiles
<1>. QED BY <1>1, <1>2, <1>3, <1>4, <1>5, StopOK

LEMMA PurgeBusyOK ==
    ASSUME IInv, NEW p \in Procs, PurgeBusy(p)
    PROVE  IInv'
<1>1. /\ ~noticed /\ Stop(p) /\ proc[p].pc = "scanned" /\ UNCHANGED dirty
      /\ UNCHANGED <<map, nextUid, highest, box, requests, files, boxLock, fileLock, mapLock, noticed, faults>>
    BY DEF PurgeBusy, At, mapvars, boxes, locks, history
<1>2. mapLock # p /\ proc[p].pc \notin BoxPcs
    BY <1>1, Own DEF MapPcs, BoxPcs
<1>3. dirty' \in BOOLEAN /\ noticed' \in BOOLEAN /\ faults' \in Nat
    BY <1>1 DEF IInv, Types
<1>4. PurgesStay(p) /\ WritesStay(p)
    BY <1>1, SameMap
<1>5. files' \in [DOMAIN files' -> FileRec] /\ DOMAIN files' \subseteq 1..MaxFiles
    BY <1>1, SameFiles
<1>. QED BY <1>1, <1>2, <1>3, <1>4, <1>5, StopOK

LEMMA CrashOK ==
    ASSUME IInv, NEW p \in Procs, Crash(p)
    PROVE  IInv'
<1>1. /\ ~noticed /\ Stop(p) /\ UNCHANGED dirty
      /\ UNCHANGED <<map, nextUid, highest, box, requests, files, noticed>>
      /\ boxLock' = Unlocked(boxLock, p) /\ fileLock' = Unlocked(fileLock, p)
      /\ mapLock' = IF mapLock = p THEN NoProc ELSE mapLock
    BY DEF Crash, mapvars, boxes
<1>3. dirty' \in BOOLEAN /\ noticed' \in BOOLEAN /\ faults' \in Nat
    BY <1>1, FaultOK DEF IInv, Types, Crash
<1>4. PurgesStay(p) /\ WritesStay(p)
    BY <1>1, SameMap
<1>5. files' \in [DOMAIN files' -> FileRec] /\ DOMAIN files' \subseteq 1..MaxFiles
    BY <1>1, SameFiles
<1>. QED BY <1>1, <1>3, <1>4, <1>5, StopOK

-----------------------------------------------------------------------------
(* Steps towards the end of a delivery, a copy or a sync.                  *)

Ahead == {"lock", "mapped", "refs", "synced", "appended", "tried"}
\* r is a later record of who had r0.
Later(r, r0) ==
    /\ r0.pc \in Ahead /\ r.pc \in Ahead \union {"finish"}
    /\ r.op = r0.op /\ r.file = r0.file /\ r.mail = r0.mail
    /\ r.pc \in {"lock", "mapped", "refs", "tried"} => r0.mail = NoMail
    /\ r.pc = "appended" => r.op = "deliver"
    /\ r.pc \in {"appended", "finish"} /\ r.op = "deliver" => r.file = NoFile \/ r.mail # NoMail

LEMMA LaterOK ==
    ASSUME IInv, ~noticed, NEW p \in Procs, NEW r \in ProcRec, Later(r, proc[p]), NEW bad,
           NEW fl, NEW fs, NEW m, NEW nu
    PROVE  /\ ProcOK(r, highest) /\ PurgeOK(p, r, fl, fs, m, nu, bad)
           /\ WriterOK(p, r, fileLock, highest, bad, files)
           /\ Saves(r) => Saves(proc[p])
           /\ ~Creates(r, highest) \/ Creates(proc[p], highest)
           /\ r.op # "purge"
<1>1. PICK r0 : r0 = proc[p]
    OBVIOUS
<1>2. /\ ProcOK(r0, highest) /\ WriterOK(p, r0, fileLock, highest, noticed, files)
      /\ r0 \in ProcRec /\ r0.file \in Int /\ highest \in Nat /\ Later(r, r0)
    BY <1>1, Own
<1>3. r0.pc \notin PurgePcs \union {"finish", "idle", "checked"} /\ r.pc \notin PurgePcs \union {"idle"}
    BY <1>2 DEF Later, Ahead, PurgePcs
<1>4. r0.op # "purge" /\ ~(r0.file > highest) /\ r0.file >= NewFile
    BY <1>2, <1>3 DEF ProcOK
<1>5. ProcOK(r, highest)
    BY <1>2, <1>3, <1>4 DEF ProcOK, Later, PurgePcs, Copying
<1>6. PurgeOK(p, r, fl, fs, m, nu, bad)
    BY <1>3 DEF PurgeOK, PurgePcs, Copying
<1>7. WriterOK(p, r, fileLock, highest, bad, files)
    BY <1>2, <1>3, <1>4 DEF WriterOK, Wrote, Later, PurgePcs, Copying
<1>9. (Saves(r) => Saves(r0)) /\ (~Creates(r, highest) \/ Creates(r0, highest))
    BY <1>2, <1>3, <1>4 DEF Saves, Creates, Later, PurgePcs
<1>10. r.op # "purge"
    BY <1>2, <1>4 DEF Later
<1>. QED BY <1>1, <1>5, <1>6, <1>7, <1>9, <1>10

\* Such a step, if it leaves map and files alone.
LEMMA LaterStep ==
    ASSUME IInv, ~noticed, NEW p \in Procs, NEW r \in ProcRec, Later(r, proc[p]),
           proc' = [proc EXCEPT ![p] = r],
           UNCHANGED <<map, nextUid, highest, files, fileLock>>,
           Types', BoxesOK', LocksStay(p), RequestsStay(p),
           RefsOK(p, r, boxLock', requests', map),
           r.pc \in {"synced", "appended"} => proc[p].pc = "synced" \/ r.mail = NoMail,
           mapLock' = p <=> r.pc \in MapPcs,
           \A b \in Boxes : boxLock'[b] = p => r.pc \in BoxPcs
    PROVE  IInv'
<1>1. proc'[p] = r /\ \A q \in Others(p) : proc'[q] = proc[q]
    BY ProcStep
<1>2. /\ ProcOK(r, highest) /\ PurgeOK(p, r, fileLock, files, map, nextUid, noticed')
      /\ WriterOK(p, r, fileLock, highest, noticed', files)
      /\ Saves(r) => Saves(proc[p])
      /\ ~Creates(r, highest) \/ Creates(proc[p], highest)
      /\ r.op # "purge"
    BY LaterOK
<1>3. CreatorOK(p, proc', fileLock', map')
    <2>1. SUFFICES ASSUME Creator(p, r, fileLock)
                   PROVE  /\ \A u \in In(map, r.file) : map[u].ref > 0
                          /\ \A x \in Procs : proc'[x].op = "purge" => proc'[x].purged # r.file
        BY <1>1 DEF CreatorOK
    <2>2. Creator(p, proc[p], fileLock) /\ proc[p].file = r.file
        BY <2>1 DEF Creator, Later
    <2>3. /\ \A u \in In(map, r.file) : map[u].ref > 0
          /\ \A x \in Procs : proc[x].op = "purge" => proc[x].purged # r.file
        BY <2>2, Own DEF CreatorOK
    <2>. QED BY <1>1, <1>2, <2>3 DEF Others
<1>4. OwnOK(p)
    BY <1>1, <1>2, <1>3 DEF OwnOK
<1>5. OwnLocks(p)
    BY <1>1 DEF OwnLocks, IInv, LocksOK
<1>6. PurgeFound(p)
    BY <1>1, <1>2 DEF PurgeFound
<1>. QED BY <1>1, <1>2, <1>4, <1>5, <1>6, QuietStep

LEMMA SameBoxes ==
    ASSUME IInv, NEW p \in Procs, UNCHANGED boxes
    PROVE  BoxesOK' /\ RequestsStay(p)
<1>1. BoxesOK'
    BY DEF IInv, BoxesOK, boxes
<1>2. \A b \in Boxes, u \in Uids : requests[b][u] \in Nat
    BY DEF IInv, Types
<1>3. RequestsStay(p)
    BY <1>2 DEF RequestsStay, boxes
<1>. QED BY <1>1, <1>3

LEMMA LockMapOK ==
    ASSUME IInv, NEW p \in Procs, LockMap(p)
    PROVE  IInv'
<1>1. /\ ~noticed /\ proc[p].pc = "lock" /\ mapLock = NoProc /\ mapLock' = p /\ noticed' = dirty
      /\ Go(p, "mapped") /\ UNCHANGED boxes
      /\ UNCHANGED <<map, nextUid, highest, dirty, files, box, requests, boxLock, fileLock, faults>>
    BY DEF LockMap, At, mapvars, boxes, history
<1>2. PICK r : r = proc'[p]
    OBVIOUS
<1>3. /\ r \in ProcRec /\ proc' \in [Procs -> ProcRec] /\ r.pc = "mapped" /\ Moved(r, proc[p])
    BY <1>1, <1>2, GoStep DEF Pcs
<1>4. proc' = [proc EXCEPT ![p] = r]
    BY <1>1, <1>2 DEF Go, IInv, Types
<1>5. Later(r, proc[p])
    <2>1. proc[p].mail = NoMail
        BY <1>1, Own DEF ProcOK
    <2>. QED BY <1>1, <1>3, <2>1 DEF Later, Moved, Ahead
<1>6. Types'
    BY <1>1, <1>3 DEF IInv, Types
<1>7. BoxesOK' /\ RequestsStay(p)
    BY <1>1, SameBoxes
<1>8. LocksStay(p)
    BY <1>1, NoProcAssumption DEF LocksStay, Others
<1>9. RefsOK(p, r, boxLock', requests', map)
    BY <1>3 DEF RefsOK
<1>10. (mapLock' = p <=> r.pc \in MapPcs) /\ \A b \in Boxes : boxLock'[b] = p => r.pc \in BoxPcs
    <2>1. \A b \in Boxes : boxLock[b] # p
        BY <1>1, Own DEF BoxPcs
    <2>. QED BY <1>1, <1>3, <2>1 DEF MapPcs
<1>. QED BY <1>1, <1>3, <1>4, <1>5, <1>6, <1>7, <1>8, <1>9, <1>10, LaterStep

LEMMA SyncReleaseOK ==
    ASSUME IInv, NEW p \in Procs, SyncRelease(p)
    PROVE  IInv'
<1>1. /\ ~noticed /\ proc[p].pc = "tried" /\ Go(p, "lock") /\ UNCHANGED boxes
      /\ boxLock' = Unlocked(boxLock, p)
      /\ UNCHANGED <<map, nextUid, highest, dirty, files, box, requests, mapLock, fileLock, noticed, faults>>
    BY DEF SyncRelease, At, mapvars, boxes, history
<1>2. PICK r : r = proc'[p]
    OBVIOUS
<1>3. /\ r \in ProcRec /\ proc' \in [Procs -> ProcRec] /\ r.pc = "lock" /\ Moved(r, proc[p])
    BY <1>1, <1>2, GoStep DEF Pcs
<1>4. proc' = [proc EXCEPT ![p] = r]
    BY <1>1, <1>2 DEF Go, IInv, Types
<1>5. Later(r, proc[p])
    <2>1. proc[p].mail = NoMail
        BY <1>1, Own DEF ProcOK
    <2>. QED BY <1>1, <1>3, <2>1 DEF Later, Moved, Ahead
<1>u. /\ boxLock' \in [Boxes -> Procs \union {NoProc}]
      /\ \A b \in Boxes : boxLock'[b] # p
      /\ \A q \in Others(p), b \in Boxes : boxLock'[b] = q <=> boxLock[b] = q
    BY <1>1, UnlockedBoxes
<1>6. Types'
    BY <1>1, <1>3, <1>u DEF IInv, Types
<1>7. BoxesOK' /\ RequestsStay(p)
    BY <1>1, SameBoxes
<1>8. LocksStay(p)
    BY <1>1, <1>u DEF LocksStay
<1>9. RefsOK(p, r, boxLock', requests', map)
    BY <1>3 DEF RefsOK
<1>10. mapLock' = p <=> r.pc \in MapPcs
    BY <1>1, <1>3, Own DEF MapPcs
<1>. QED BY <1>1, <1>3, <1>4, <1>5, <1>6, <1>7, <1>8, <1>9, <1>10, <1>u, LaterStep

LEMMA SyncFinishOK ==
    ASSUME IInv, NEW p \in Procs, SyncFinish(p)
    PROVE  IInv'
<1>1. /\ ~noticed /\ proc[p].pc = "synced" /\ proc[p].op = "sync" /\ UNCHANGED boxes
      /\ proc' = [proc EXCEPT ![p].pc = "finish", ![p].success = TRUE]
      /\ boxLock' = Unlocked(boxLock, p)
      /\ UNCHANGED <<map, nextUid, highest, dirty, files, box, requests, mapLock, fileLock, noticed, faults>>
    BY DEF SyncFinish, At, mapvars, boxes, history
<1>2. PICK r : r = proc'[p]
    OBVIOUS
<1>3. /\ r \in ProcRec /\ r.pc = "finish" /\ Moved(r, proc[p])
      /\ proc' = [proc EXCEPT ![p] = r]
    BY <1>1, <1>2, GoWellStep DEF Pcs
<1>5. Later(r, proc[p])
    BY <1>1, <1>3 DEF Later, Moved, Ahead
<1>u. /\ boxLock' \in [Boxes -> Procs \union {NoProc}]
      /\ \A b \in Boxes : boxLock'[b] # p
      /\ \A q \in Others(p), b \in Boxes : boxLock'[b] = q <=> boxLock[b] = q
    BY <1>1, UnlockedBoxes
<1>6. Types'
    <2>1. proc' \in [Procs -> ProcRec]
        BY <1>3, ProcStep
    <2>. QED BY <1>1, <1>u, <2>1 DEF IInv, Types
<1>7. BoxesOK' /\ RequestsStay(p)
    BY <1>1, SameBoxes
<1>8. LocksStay(p)
    BY <1>1, <1>u DEF LocksStay
<1>9. RefsOK(p, r, boxLock', requests', map)
    BY <1>3 DEF RefsOK
<1>10. mapLock' = p <=> r.pc \in MapPcs
    BY <1>1, <1>3, Own DEF MapPcs
<1>. QED BY <1>1, <1>3, <1>5, <1>6, <1>7, <1>8, <1>9, <1>10, <1>u, LaterStep

LEMMA AppendOK ==
    ASSUME IInv, NEW p \in Procs, Append(p)
    PROVE  IInv'
<1>1. /\ ~noticed /\ proc[p].pc = "synced" /\ proc[p].op = "deliver"
      /\ proc[p].file = NoFile \/ proc[p].mail # NoMail
      /\ Go(p, "appended") /\ Copyable(proc[p].copy)
      /\ UNCHANGED <<map, nextUid, highest, dirty, files, requests, mapLock, boxLock, fileLock, noticed, faults>>
    BY DEF Append, Prepared, At, mapvars, locks
<1>2. PICK r : r = proc'[p]
    OBVIOUS
<1>3. /\ r \in ProcRec /\ proc' \in [Procs -> ProcRec] /\ r.pc = "appended" /\ Moved(r, proc[p])
    BY <1>1, <1>2, GoStep DEF Pcs
<1>4. proc' = [proc EXCEPT ![p] = r]
    BY <1>1, <1>2 DEF Go, IInv, Types
<1>5. Later(r, proc[p])
    BY <1>1, <1>3 DEF Later, Moved, Ahead
<1>b. /\ box' \in [Boxes -> [Uids -> Nat]]
      /\ \A b \in Boxes, u \in Uids : box[b][u] <= box'[b][u]
    <2>1. PICK N : N = [u \in Uids |-> Cardinality({n \in {"mail", "copy"} : proc[p][n] = u})]
        OBVIOUS
    <2>2. ASSUME NEW u \in Uids PROVE N[u] \in Nat
        <3>1. IsFiniteSet({"mail"} \union {"copy"})
            BY FS_AddElement, FS_EmptySet, FS_Singleton
        <3>2. PICK S : S = {n \in {"mail", "copy"} : proc[p][n] = u}
            OBVIOUS
        <3>3. S \subseteq {"mail"} \union {"copy"}
            BY <3>2
        <3>4. Cardinality(S) \in Nat
            BY <3>1, <3>3, FS_Subset, FS_CardinalityType
        <3>. QED BY <2>1, <3>2, <3>4
    <2>3. PICK b0 \in Boxes : b0 = proc[p].box
        BY Own
    <2>4. box' = [box EXCEPT ![b0] = [u \in Uids |-> @[u] + N[u]]]
        BY <2>1, <2>3 DEF Append
    <2>5. box \in [Boxes -> [Uids -> Nat]]
        BY DEF IInv, Types
    <2>6. \A u \in Uids : box[b0][u] \in Nat /\ box[b0][u] + N[u] \in Nat
        BY <2>2, <2>3, <2>5
    <2>7. \A b \in Boxes, u \in Uids : box'[b][u] = IF b = b0 THEN box[b][u] + N[u] ELSE box[b][u]
        BY <2>3, <2>4, <2>5
    <2>8. \A b \in Boxes, u \in Uids : box[b][u] \in Nat
        BY <2>5
    <2>9. PICK F : F = [u \in Uids |-> box[b0][u] + N[u]]
        OBVIOUS
    <2>10. F \in [Uids -> Nat] /\ box' = [box EXCEPT ![b0] = F]
        BY <2>3, <2>4, <2>5, <2>6, <2>9
    <2>11. box' \in [Boxes -> [Uids -> Nat]]
        BY <2>3, <2>5, <2>10
    <2>12. \A b \in Boxes, u \in Uids : box[b][u] <= box'[b][u]
        BY <2>2, <2>7, <2>8
    <2>. QED BY <2>11, <2>12
<1>6. Types'
    BY <1>1, <1>3, <1>b DEF IInv, Types
<1>7. BoxesOK' /\ RequestsStay(p)
    <2>1. \A b \in Boxes, u \in Uids : requests[b][u] \in Nat /\ box[b][u] \in Nat /\ box'[b][u] \in Nat
        BY <1>b DEF IInv, Types
    <2>2. RequestsStay(p)
        BY <1>1, <2>1 DEF RequestsStay
    <2>3. \A b \in Boxes, u \in Uids : requests[b][u] <= box[b][u]
        BY DEF IInv, BoxesOK
    <2>4. BoxesOK'
        BY <1>1, <1>b, <2>1, <2>3 DEF BoxesOK
    <2>. QED BY <2>2, <2>4
<1>8. LocksStay(p)
    BY <1>1 DEF LocksStay
<1>9. RefsOK(p, r, boxLock', requests', map)
    BY <1>1, <1>3 DEF RefsOK, Moved, Copyable
<1>10. (mapLock' = p <=> r.pc \in MapPcs) /\ \A b \in Boxes : boxLock'[b] = p => r.pc \in BoxPcs
    BY <1>1, <1>3, Own DEF MapPcs, BoxPcs
<1>. QED BY <1>1, <1>3, <1>4, <1>5, <1>6, <1>7, <1>8, <1>9, <1>10, LaterStep

LEMMA SyncBoxOK ==
    ASSUME IInv, NEW p \in Procs, SyncBox(p)
    PROVE  IInv'
<1>1. /\ ~noticed /\ proc[p].pc = "refs"
      /\ proc' = [proc EXCEPT ![p].pc = "synced", ![p].todo = NoRequests]
      /\ UNCHANGED <<map, nextUid, highest, dirty, files, mapLock, boxLock, fileLock, noticed, faults>>
    BY DEF SyncBox, At, mapvars, locks, history
<1>2. PICK r0, t, r : r0 = proc[p] /\ t = NoRequests /\ r = [r0 EXCEPT !.pc = "synced", !.todo = t]
    OBVIOUS
<1>3. r0 \in ProcRec /\ t \in [Uids -> Nat]
    BY <1>2, Own DEF NoRequests
<1>4. /\ r \in ProcRec /\ r.pc = "synced" /\ r.op = r0.op /\ r.file = r0.file /\ r.mail = r0.mail
    BY <1>2, <1>3 DEF ProcRec, Pcs
<1>5. proc' = [proc EXCEPT ![p] = r] /\ proc' \in [Procs -> ProcRec]
    <2>1. proc' = [proc EXCEPT ![p] = r]
        BY <1>1, <1>2 DEF IInv, Types
    <2>. QED BY <1>4, <2>1, ProcStep
<1>6. Later(r, proc[p]) /\ r.mail = NoMail
    <2>1. r0.mail = NoMail
        BY <1>1, <1>2, Own DEF ProcOK
    <2>. QED BY <1>1, <1>2, <1>4, <2>1 DEF Later, Ahead
<1>7. PICK b0 \in Boxes : b0 = proc[p].box
    BY Own
<1>8. /\ boxLock[b0] = p
      /\ \A u \in Uids : /\ r0.todo[u] \in Nat /\ requests[b0][u] \in Nat /\ box[b0][u] \in Nat
                         /\ r0.todo[u] <= requests[b0][u] /\ requests[b0][u] <= box[b0][u]
    <2>1. boxLock[b0] = p /\ \A u \in Uids : r0.todo[u] <= requests[b0][u]
        BY <1>1, <1>2, <1>7, Own DEF RefsOK
    <2>2. \A u \in Uids : requests[b0][u] \in Nat /\ box[b0][u] \in Nat /\ requests[b0][u] <= box[b0][u]
        BY DEF IInv, Types, BoxesOK
    <2>3. \A u \in Uids : r0.todo[u] \in Nat
        BY <1>3 DEF ProcRec
    <2>. QED BY <2>1, <2>2, <2>3
<1>9. PICK B, R : B = [u \in Uids |-> box[b0][u] - r0.todo[u]] /\ R = [u \in Uids |-> requests[b0][u] - r0.todo[u]]
    OBVIOUS
<1>10. /\ B \in [Uids -> Nat] /\ R \in [Uids -> Nat] /\ \A u \in Uids : R[u] <= B[u]
    BY <1>8, <1>9
<1>11. box' = [box EXCEPT ![b0] = B] /\ requests' = [requests EXCEPT ![b0] = R]
    BY <1>2, <1>7, <1>9 DEF SyncBox, IInv, Types
<1>12. /\ box' \in [Boxes -> [Uids -> Nat]] /\ requests' \in [Boxes -> [Uids -> Nat]]
       /\ box'[b0] = B /\ requests'[b0] = R
       /\ \A b \in Boxes : b # b0 => box'[b] = box[b] /\ requests'[b] = requests[b]
    BY <1>10, <1>11 DEF IInv, Types
<1>13. Types'
    BY <1>1, <1>5, <1>12 DEF IInv, Types
<1>14. BoxesOK' /\ RequestsStay(p)
    <2>1. ASSUME NEW b \in Boxes, NEW u \in Uids PROVE requests'[b][u] <= box'[b][u]
        BY <1>10, <1>12 DEF IInv, BoxesOK
    <2>2. ASSUME NEW b \in Boxes, boxLock[b] # p, NEW u \in Uids
          PROVE  requests[b][u] <= requests'[b][u]
        <3>1. requests[b][u] \in Nat /\ requests'[b] = requests[b]
            BY <1>8, <1>12, <2>2 DEF IInv, Types
        <3>. QED BY <3>1
    <2>. QED BY <2>1, <2>2 DEF BoxesOK, RequestsStay
<1>15. LocksStay(p)
    BY <1>1 DEF LocksStay
<1>16. RefsOK(p, r, boxLock', requests', map)
    BY <1>4 DEF RefsOK
<1>17. (mapLock' = p <=> r.pc \in MapPcs) /\ \A b \in Boxes : boxLock'[b] = p => r.pc \in BoxPcs
    BY <1>1, <1>4, Own DEF MapPcs, BoxPcs
<1>. QED BY <1>1, <1>4, <1>5, <1>6, <1>13, <1>14, <1>15, <1>16, <1>17, LaterStep

\* A step that changes reference counts.
LEMMA RefsStep ==
    ASSUME IInv, ~noticed, NEW p \in Procs, NEW r \in ProcRec, Later(r, proc[p]),
           proc' = [proc EXCEPT ![p] = r],
           UNCHANGED <<nextUid, highest, files>>, mapLock = p,
           DOMAIN map' = DOMAIN map, \A u \in DOMAIN map : map'[u].file = map[u].file,
           Types', MapOK', BoxesOK', LocksStay(p), RequestsStay(p),
           RefsOK(p, r, boxLock', requests', map'),
           WriterOK(p, r, fileLock', highest, noticed', files),
           r.pc \notin {"synced", "appended"},
           mapLock' = p <=> r.pc \in MapPcs,
           \A b \in Boxes : boxLock'[b] = p => r.pc \in BoxPcs,
           \A f \in 1..MaxFiles : fileLock'[f] # NoProc => f <= highest
    PROVE  IInv'
<1>1. proc'[p] = r /\ \A q \in Others(p) : proc'[q] = proc[q]
    BY ProcStep
<1>2. /\ ProcOK(r, highest) /\ PurgeOK(p, r, fileLock', files, map', nextUid, noticed')
      /\ Saves(r) => Saves(proc[p])
      /\ ~Creates(r, highest) \/ Creates(proc[p], highest)
      /\ r.op # "purge"
    BY LaterOK
<1>3. CreatorOK(p, proc', fileLock', map')
    BY <1>1 DEF CreatorOK, Creator
<1>4. OwnOK(p)
    BY <1>1, <1>2, <1>3 DEF OwnOK
<1>5. OwnLocks(p)
    BY <1>1 DEF OwnLocks
<1>6. PurgeFound(p)
    BY <1>1, <1>2 DEF PurgeFound
<1>7. MapStays(p)
    BY DEF MapStays, IInv, Types
<1>8. PurgesStay(p)
    <2>1. \A f : In(map', f) = In(map, f)
        BY DEF In
    <2>2. \A q \in Others(p) : PurgeOK(q, proc[q], fileLock, files, map, nextUid, noticed)
        BY DEF IInv, PartsOK, Others
    <2>3. \A f \in 1..highest : f \in DOMAIN files' => f \in DOMAIN files
        OBVIOUS
    <2>. QED BY <2>1, <2>2, <2>3 DEF PurgesStay, PurgeOK
<1>9. WritesStay(p)
    <2>1. \A f \in DOMAIN files : files[f].unrecorded \in Nat
        BY DEF IInv, Types, FileRec
    <2>. QED BY <2>1 DEF WritesStay
<1>10. BoundsOK'
    <2>1. proc' \in [Procs -> ProcRec]
        BY DEF Types
    <2>. QED BY <1>1, <1>2, <1>7, <2>1, CountsOK
<1>. QED BY <1>4, <1>5, <1>6, <1>7, <1>8, <1>9, <1>10, StepOK

\* m is map with other reference counts.
LEMMA Recounted ==
    ASSUME IInv, NEW R \in [DOMAIN map -> Nat], \A u \in DOMAIN map : R[u] < RefLimit,
           map' = [u \in DOMAIN map |-> [map[u] EXCEPT !.ref = R[u]]],
           UNCHANGED <<nextUid, highest>>
    PROVE  /\ DOMAIN map' = DOMAIN map /\ map' \in [DOMAIN map' -> MapRec] /\ MapOK'
           /\ \A u \in DOMAIN map : map'[u].file = map[u].file /\ map'[u].ref = R[u]
<1>1. DOMAIN map' = DOMAIN map
    OBVIOUS
<1>2. ASSUME NEW u \in DOMAIN map
      PROVE  map'[u] \in MapRec /\ map'[u].file = map[u].file /\ map'[u].ref = R[u]
    <2>0. R[u] \in Nat
        OBVIOUS
    <2>1. PICK r, n : r = map[u] /\ n = R[u] /\ n \in Nat
        BY <2>0
    <2>2. r \in MapRec
        BY <2>1 DEF IInv, Types
    <2>3. map'[u] = [r EXCEPT !.ref = n]
        BY <2>1
    <2>. QED BY <2>1, <2>2, <2>3 DEF MapRec
<1>3. map' \in [DOMAIN map' -> MapRec]
    BY <1>1, <1>2
<1>4. MapOK'
    BY <1>1, <1>2 DEF IInv, MapOK
<1>. QED BY <1>1, <1>2, <1>3, <1>4

LEMMA SyncMapOK ==
    ASSUME IInv, NEW p \in Procs, SyncMap(p)
    PROVE  IInv'
<1>0. PICK b \in Boxes : b = proc[p].box
    BY Own
<1>1. PICK todo : b = proc[p].box /\ todo = requests[b]
    BY <1>0
<1>2. /\ ~noticed /\ proc[p].pc = "mapped" /\ boxLock[b] = NoProc
      /\ boxLock' = [boxLock EXCEPT ![b] = p] /\ UNCHANGED boxes
      /\ UNCHANGED <<nextUid, highest, files, mapLock, fileLock, faults, box, requests>>
    BY <1>1 DEF SyncMap, At, boxes, history
<1>3. /\ boxLock' \in [Boxes -> Procs \union {NoProc}] /\ boxLock'[b] = p
      /\ \A q \in Others(p), c \in Boxes : boxLock'[c] = q <=> boxLock[c] = q
    BY <1>2, NoProcAssumption DEF IInv, Types, Others
<1>4. LocksStay(p) /\ BoxesOK' /\ RequestsStay(p)
    <2>1. LocksStay(p)
        BY <1>2, <1>3 DEF LocksStay
    <2>. QED BY <1>2, <2>1, SameBoxes
<1>5. /\ mapLock = p /\ proc[p].mail = NoMail /\ proc[p] \in ProcRec
      /\ proc \in [Procs -> ProcRec] /\ todo \in [Uids -> Nat]
    <2>1. mapLock = p /\ proc[p].mail = NoMail /\ proc[p] \in ProcRec
        BY <1>2, Own DEF MapPcs, ProcOK
    <2>. QED BY <1>1, <2>1 DEF IInv, Types
<1>6. CASE todo = NoRequests
    <2>1. Go(p, "synced") /\ UNCHANGED <<map, dirty, noticed>>
        BY <1>1, <1>6 DEF SyncMap
    <2>2. PICK r : r = proc'[p]
        OBVIOUS
    <2>3. r \in ProcRec /\ proc' \in [Procs -> ProcRec] /\ r.pc = "synced" /\ Moved(r, proc[p])
        BY <2>1, <2>2, GoStep DEF Pcs
    <2>4. proc' = [proc EXCEPT ![p] = r]
        BY <1>5, <2>1, <2>2 DEF Go
    <2>5. Later(r, proc[p]) /\ r.mail = NoMail
        BY <1>2, <1>5, <2>3 DEF Later, Moved, Ahead
    <2>6. Types'
        BY <1>2, <1>3, <2>1, <2>3 DEF IInv, Types
    <2>7. RefsOK(p, r, boxLock', requests', map)
        BY <2>3 DEF RefsOK
    <2>8. (mapLock' = p <=> r.pc \in MapPcs) /\ \A c \in Boxes : boxLock'[c] = p => r.pc \in BoxPcs
        BY <1>2, <1>5, <2>3 DEF MapPcs, BoxPcs
    <2>. QED BY <1>2, <1>4, <2>1, <2>3, <2>4, <2>5, <2>6, <2>7, <2>8, LaterStep
<1>7. CASE todo # NoRequests
    <2>1. /\ noticed' = ~Counted(todo) /\ dirty' = TRUE
          /\ map' = IF Counted(todo)
                    THEN [u \in DOMAIN map |-> [map[u] EXCEPT !.ref = @ - todo[u]]] ELSE map
          /\ proc' = [proc EXCEPT ![p].pc = "refs", ![p].todo = todo, ![p].success = TRUE]
        BY <1>1, <1>7 DEF SyncMap
    <2>2. PICK r0, r : r0 = proc[p] /\ r = [r0 EXCEPT !.pc = "refs", !.todo = todo, !.success = TRUE]
        OBVIOUS
    <2>3. /\ r \in ProcRec /\ r.pc = "refs" /\ r.op = r0.op /\ r.file = r0.file
          /\ r.mail = r0.mail /\ r.todo = todo /\ r.box = r0.box
        BY <1>5, <2>2 DEF ProcRec, Pcs
    <2>4. proc' = [proc EXCEPT ![p] = r] /\ proc' \in [Procs -> ProcRec]
        <3>1. proc' = [proc EXCEPT ![p] = r]
            BY <1>5, <2>1, <2>2
        <3>. QED BY <2>3, <3>1, ProcStep
    <2>5. Later(r, proc[p])
        BY <1>2, <1>5, <2>2, <2>3 DEF Later, Ahead
    <2>6. /\ DOMAIN map' = DOMAIN map /\ map' \in [DOMAIN map' -> MapRec] /\ MapOK'
          /\ \A u \in DOMAIN map : map'[u].file = map[u].file
        <3>1. CASE Counted(todo)
            <4>1. PICK R : R = [u \in DOMAIN map |-> map[u].ref - todo[u]]
                OBVIOUS
            <4>2. \A u \in DOMAIN map : R[u] \in Nat /\ R[u] < RefLimit
                <5>1. ASSUME NEW u \in DOMAIN map PROVE R[u] \in Nat /\ R[u] < RefLimit
                    <6>1. /\ u \in Uids /\ map[u].ref \in Nat /\ map[u].ref < RefLimit
                          /\ todo[u] \in Nat /\ RefLimit \in Nat
                        BY <1>5, BoundsAssumption DEF IInv, Types, MapOK, MapRec
                    <6>2. todo[u] > 0 => map[u].ref >= todo[u]
                        BY <3>1, <6>1 DEF Counted
                    <6>3. R[u] = map[u].ref - todo[u]
                        BY <4>1
                    <6>. QED BY <6>1, <6>2, <6>3
                <5>. QED BY <5>1
            <4>3. R \in [DOMAIN map -> Nat]
                BY <4>1, <4>2
            <4>4. map' = [u \in DOMAIN map |-> [map[u] EXCEPT !.ref = R[u]]]
                BY <2>1, <3>1, <4>1
            <4>. QED BY <1>2, <4>2, <4>3, <4>4, Recounted
        <3>2. CASE ~Counted(todo)
            BY <1>2, <2>1, <3>2 DEF IInv, Types, MapOK
        <3>. QED BY <3>1, <3>2
    <2>7. Types'
        <3>1. noticed' \in BOOLEAN /\ DOMAIN map' \subseteq Uids
            BY <2>1, <2>6 DEF IInv, Types, Counted
        <3>. QED BY <1>2, <1>3, <2>1, <2>4, <2>6, <3>1 DEF IInv, Types
    <2>8. RefsOK(p, r, boxLock', requests', map')
        <3>1. \A u \in Uids : todo[u] <= requests'[b][u]
            BY <1>1, <1>2, <1>5
        <3>. QED BY <1>1, <1>3, <2>2, <2>3, <3>1 DEF RefsOK
    <2>9. WriterOK(p, r, fileLock', highest, noticed', files)
        BY <1>2, <2>3, <2>5, LaterOK
    <2>10. (mapLock' = p <=> r.pc \in MapPcs) /\ \A c \in Boxes : boxLock'[c] = p => r.pc \in BoxPcs
        BY <1>2, <1>5, <2>3 DEF MapPcs, BoxPcs
    <2>11. \A f \in 1..MaxFiles : fileLock'[f] # NoProc => f <= highest
        BY <1>2 DEF IInv, LocksOK
    <2>12. r.pc \notin {"synced", "appended"}
        BY <2>3
    <2>. QED BY <1>2, <1>4, <1>5, <2>3, <2>4, <2>5, <2>6, <2>7, <2>8, <2>9, <2>10, <2>11, <2>12, RefsStep
<1>. QED BY <1>6, <1>7

LEMMA CommitOK ==
    ASSUME IInv, NEW p \in Procs, Commit(p)
    PROVE  IInv'
<1>1. PICK c : c = proc[p].copy
    OBVIOUS
<1>2. /\ ~noticed /\ proc[p].pc = "appended" /\ UNCHANGED boxes
      /\ map' = IF c = NoMail THEN map ELSE [map EXCEPT ![c].ref = @ + 1]
      /\ dirty' = (dirty \/ c # NoMail)
      /\ boxLock' = Unlocked(boxLock, p) /\ fileLock' = Unlocked(fileLock, p)
      /\ proc' = [proc EXCEPT ![p].pc = "finish", ![p].success = TRUE]
      /\ UNCHANGED <<nextUid, highest, files, mapLock, noticed, faults, box, requests>>
    BY <1>1 DEF Commit, At, boxes, history
<1>3. PICK r : r = proc'[p]
    OBVIOUS
<1>4. /\ r \in ProcRec /\ r.pc = "finish" /\ Moved(r, proc[p])
      /\ proc' = [proc EXCEPT ![p] = r] /\ proc' \in [Procs -> ProcRec]
    BY <1>2, <1>3, GoWellStep DEF Pcs
<1>5. /\ proc[p].op = "deliver"
      /\ proc[p].file = NoFile \/ proc[p].mail # NoMail
    BY <1>2, Own DEF ProcOK
<1>6. Later(r, proc[p])
    BY <1>2, <1>4, <1>5 DEF Later, Moved, Ahead
<1>7. /\ boxLock' \in [Boxes -> Procs \union {NoProc}]
      /\ \A b \in Boxes : boxLock'[b] # p
      /\ \A q \in Others(p), b \in Boxes : boxLock'[b] = q <=> boxLock[b] = q
    BY <1>2, UnlockedBoxes
<1>8. /\ fileLock' \in [1..MaxFiles -> Procs \union {NoProc}]
      /\ \A f \in 1..MaxFiles : fileLock'[f] # NoProc => f <= highest
      /\ \A q \in Others(p), f \in 1..MaxFiles : fileLock'[f] = q <=> fileLock[f] = q
    BY <1>2, UnlockedFiles
<1>9. LocksStay(p) /\ BoxesOK' /\ RequestsStay(p)
    <2>1. LocksStay(p)
        BY <1>2, <1>7, <1>8 DEF LocksStay
    <2>. QED BY <1>2, <2>1, SameBoxes
<1>10. /\ DOMAIN map' = DOMAIN map /\ map' \in [DOMAIN map' -> MapRec] /\ MapOK'
       /\ \A u \in DOMAIN map : map'[u].file = map[u].file
    <2>1. CASE c = NoMail
        BY <1>2, <2>1 DEF IInv, Types, MapOK
    <2>2. CASE c # NoMail
        <3>1. c \in DOMAIN map /\ map[c].ref + 1 < RefLimit
            BY <1>1, <1>2, <2>2, Own DEF RefsOK
        <3>2. PICK R : R = [u \in DOMAIN map |-> IF u = c THEN map[u].ref + 1 ELSE map[u].ref]
            OBVIOUS
        <3>3. \A u \in DOMAIN map : map[u].ref \in Nat /\ map[u].ref < RefLimit /\ map[u] \in MapRec
            BY DEF IInv, Types, MapOK, MapRec
        <3>4. R \in [DOMAIN map -> Nat] /\ \A u \in DOMAIN map : R[u] < RefLimit
            BY <3>1, <3>2, <3>3
        <3>5. map' = [u \in DOMAIN map |-> [map[u] EXCEPT !.ref = R[u]]]
            <4>1. map = [u \in DOMAIN map |-> map[u]]
                BY DEF IInv, Types
            <4>2. \A u \in DOMAIN map : [map[u] EXCEPT !.ref = map[u].ref] = map[u]
                BY <3>3 DEF MapRec
            <4>. QED BY <1>2, <2>2, <3>1, <3>2, <4>1, <4>2
        <3>. QED BY <1>2, <3>4, <3>5, Recounted
    <2>. QED BY <2>1, <2>2
<1>11. Types'
    <2>1. dirty' \in BOOLEAN /\ DOMAIN map' \subseteq Uids
        BY <1>2, <1>10 DEF IInv, Types
    <2>. QED BY <1>2, <1>4, <1>7, <1>8, <1>10, <2>1 DEF IInv, Types
<1>12. RefsOK(p, r, boxLock', requests', map') /\ r.pc \notin {"synced", "appended"}
    BY <1>4 DEF RefsOK
<1>13. WriterOK(p, r, fileLock', highest, noticed', files)
    BY <1>4, <1>5 DEF WriterOK, Moved, Copying, NoFile
<1>14. mapLock = p /\ (mapLock' = p <=> r.pc \in MapPcs)
    BY <1>2, <1>4, Own DEF MapPcs
<1>. QED BY <1>2, <1>4, <1>6, <1>7, <1>8, <1>9, <1>10, <1>11, <1>12, <1>13, <1>14, RefsStep

-----------------------------------------------------------------------------
(* Steps of a purge that leave map and files alone.                        *)

LEMMA SyncTryOK ==
    ASSUME IInv, NEW p \in Procs, NEW b \in Boxes, SyncTry(p, b)
    PROVE  IInv'
<1>1. /\ ~noticed /\ proc[p].pc = "idle" /\ boxLock[b] = NoProc /\ UNCHANGED boxes
      /\ boxLock' = [boxLock EXCEPT ![b] = p]
      /\ UNCHANGED <<map, nextUid, highest, dirty, files, box, requests, mapLock, fileLock, noticed, faults>>
    BY DEF SyncTry, At, mapvars, boxes, history
<1>2. PICK r : r = [Idle EXCEPT !.op = "sync", !.pc = "tried", !.box = b]
    OBVIOUS
<1>3. r \in ProcRec /\ r.pc = "tried" /\ r.op = "sync" /\ r.file = 0 /\ r.mail = 0
    BY <1>2, IdleRec DEF ProcRec, Pcs
<1>4. /\ proc' \in [Procs -> ProcRec] /\ proc'[p] = r
      /\ \A q \in Others(p) : proc'[q] = proc[q]
    <2>1. proc' = [proc EXCEPT ![p] = r]
        BY <1>2 DEF SyncTry
    <2>. QED BY <1>3, <2>1, ProcStep
<1>5. /\ boxLock' \in [Boxes -> Procs \union {NoProc}]
      /\ \A q \in Others(p), c \in Boxes : boxLock'[c] = q <=> boxLock[c] = q
    BY <1>1, NoProcAssumption DEF IInv, Types, Others
<1>6. Types'
    BY <1>1, <1>4, <1>5 DEF IInv, Types
<1>7. BoxesOK' /\ RequestsStay(p) /\ LocksStay(p)
    BY <1>1, <1>5, SameBoxes DEF LocksStay
<1>8. OwnLocks(p)
    BY <1>1, <1>3, <1>4, Own DEF OwnLocks, MapPcs, BoxPcs, IInv, LocksOK
<1>9. ProcOK(r, highest) /\ ~Saves(r) /\ ~Creates(r, highest)
    <2>1. highest \in Nat
        BY Own
    <2>. QED BY <1>3, <2>1 DEF ProcOK, PurgePcs, Copying, NewFile, NoMail, Saves, Creates
<1>10. OwnOK(p)
    <2>1. RefsOK(p, r, boxLock', requests', map')
        BY <1>3 DEF RefsOK
    <2>2. WriterOK(p, r, fileLock', highest', noticed', files') /\ PurgeOK(p, r, fileLock', files', map', nextUid', noticed')
        BY <1>3 DEF WriterOK, PurgeOK, Copying
    <2>3. CreatorOK(p, proc', fileLock', map')
        BY <1>3, <1>4 DEF CreatorOK, Creator
    <2>. QED BY <1>1, <1>4, <1>9, <2>1, <2>2, <2>3 DEF OwnOK
<1>11. PurgeFound(p)
    BY <1>3, <1>4 DEF PurgeFound
<1>. QED BY <1>1, <1>4, <1>6, <1>7, <1>8, <1>9, <1>10, <1>11, QuietStep

LEMMA PurgeScanOK ==
    ASSUME IInv, NEW p \in Procs, PurgeScan(p)
    PROVE  IInv'
<1>1. /\ ~noticed /\ proc[p].pc = "idle" /\ Creatable /\ UNCHANGED boxes
      /\ UNCHANGED <<map, nextUid, highest, dirty, files, box, requests, mapLock, boxLock, fileLock, noticed, faults>>
    BY DEF PurgeScan, At, mapvars, boxes, locks, history
<1>2. PICK u \in Dying :
          proc' = [proc EXCEPT ![p] = [Idle EXCEPT !.op = "purge", !.pc = "scanned",
                                                   !.purged = map[u].file]]
    BY DEF PurgeScan
<1>3. /\ u \in DOMAIN map /\ map[u].ref = 0 /\ map[u].file \in 1..highest /\ highest \in Nat
    BY DEF IInv, Types, MapOK, Dying
<1>4. PICK f, r : f = map[u].file /\ r = [Idle EXCEPT !.op = "purge", !.pc = "scanned", !.purged = f]
    OBVIOUS
<1>5. f \in Int
    BY <1>3, <1>4
<1>6. /\ r \in ProcRec /\ r.pc = "scanned" /\ r.op = "purge" /\ r.file = 0 /\ r.mail = 0 /\ r.purged = f
    BY <1>4, <1>5, IdleRec DEF ProcRec, Pcs
<1>7. /\ proc' \in [Procs -> ProcRec] /\ proc'[p] = r
      /\ \A q \in Others(p) : proc'[q] = proc[q]
    <2>1. proc' = [proc EXCEPT ![p] = r]
        BY <1>2, <1>4
    <2>. QED BY <1>6, <2>1, ProcStep
<1>8. Types'
    BY <1>1, <1>7 DEF IInv, Types
<1>9. BoxesOK' /\ RequestsStay(p) /\ LocksStay(p)
    BY <1>1, SameBoxes DEF LocksStay
<1>10. OwnLocks(p)
    BY <1>1, <1>6, <1>7, Own DEF OwnLocks, MapPcs, BoxPcs, IInv, LocksOK
<1>11. ProcOK(r, highest) /\ ~Saves(r)
    BY <1>3, <1>4, <1>6 DEF ProcOK, PurgePcs, Copying, NewFile, NoMail, Saves
<1>12. OwnOK(p)
    <2>1. RefsOK(p, r, boxLock', requests', map')
        BY <1>6 DEF RefsOK
    <2>2. WriterOK(p, r, fileLock', highest', noticed', files') /\ PurgeOK(p, r, fileLock', files', map', nextUid', noticed')
        BY <1>6 DEF WriterOK, PurgeOK, Copying
    <2>3. CreatorOK(p, proc', fileLock', map')
        BY <1>6, <1>7 DEF CreatorOK, Creator
    <2>. QED BY <1>1, <1>7, <1>11, <2>1, <2>2, <2>3 DEF OwnOK
<1>13. PurgeFound(p)
    BY <1>3, <1>4, <1>6, <1>7 DEF PurgeFound
<1>. QED BY <1>1, <1>7, <1>8, <1>9, <1>10, <1>11, <1>12, <1>13, QuietStep

\* A purge goes on, with what it knows already.
LEMMA PurgeGoStep ==
    ASSUME IInv, ~noticed, NEW p \in Procs, proc[p].op = "purge", NEW r \in ProcRec,
           proc' = [proc EXCEPT ![p] = r], r.op = "purge", r.purged = proc[p].purged,
           r.file = proc[p].file, r.file <= highest, r.pc \in PurgePcs \ (Copying \union {"scanned"}),
           UNCHANGED <<map, nextUid, highest, dirty, files, boxLock, fileLock, noticed>>,
           faults' \in Nat,
           UNCHANGED boxes, proc[p].pc \notin BoxPcs,
           PurgeOK(p, r, fileLock, files, map, nextUid, noticed),
           mapLock' = IF mapLock = p THEN NoProc ELSE mapLock
    PROVE  IInv'
<1>1. /\ proc' \in [Procs -> ProcRec] /\ proc'[p] = r
      /\ \A q \in Others(p) : proc'[q] = proc[q]
    BY ProcStep
<1>2. Types'
    BY <1>1 DEF IInv, Types, boxes
<1>3. BoxesOK' /\ RequestsStay(p)
    BY SameBoxes
<1>4. LocksStay(p)
    BY NoProcAssumption DEF LocksStay, Others
<1>5. OwnLocks(p)
    <2>1. \A b \in Boxes : boxLock[b] # p
        BY Own
    <2>2. mapLock' # p /\ r.pc \notin MapPcs
        BY NoProcAssumption DEF MapPcs, PurgePcs, Copying
    <2>. QED BY <1>1, <2>1, <2>2 DEF OwnLocks, IInv, LocksOK
<1>6. ProcOK(r, highest) /\ ~Saves(r) /\ (Creates(r, highest) => Creates(proc[p], highest))
    <2>1. highest \in Nat /\ r.file \in Int /\ ProcOK(proc[p], highest)
        BY Own
    <2>2. ProcOK(r, highest)
        BY <2>1 DEF ProcOK, PurgePcs, Copying
    <2>3. ~Saves(r) /\ (Creates(r, highest) => Creates(proc[p], highest))
        BY DEF Saves, Creates
    <2>. QED BY <2>2, <2>3
<1>7. OwnOK(p)
    <2>1. RefsOK(p, r, boxLock', requests', map')
        BY DEF RefsOK, PurgePcs
    <2>2. WriterOK(p, r, fileLock', highest', noticed', files')
        BY DEF WriterOK
    <2>3. CreatorOK(p, proc', fileLock', map')
        BY <1>1 DEF CreatorOK, Creator
    <2>. QED BY <1>1, <1>6, <2>1, <2>2, <2>3 DEF OwnOK
<1>8. PurgeFound(p)
    BY <1>1 DEF PurgeFound
<1>. QED BY <1>1, <1>2, <1>3, <1>4, <1>5, <1>6, <1>7, <1>8, QuietStep DEF boxes

\* The file does not exist, or cannot be opened.
LEMMA PurgeMissingOK ==
    ASSUME IInv, NEW p \in Procs, PurgeMissing(p) \/ PurgeUnopened(p)
    PROVE  IInv'
<1>1. /\ ~noticed /\ proc[p].pc = "scanned" /\ Go(p, "remove") /\ UNCHANGED boxes
      /\ UNCHANGED <<map, nextUid, highest, dirty, files, mapLock, boxLock, fileLock, noticed>>
    BY DEF PurgeMissing, PurgeUnopened, At, mapvars, locks
<1>f. faults' \in Nat
    <2>1. UNCHANGED faults \/ Fault
        BY DEF PurgeMissing, PurgeUnopened, history
    <2>. QED BY <2>1, FaultOK DEF IInv, Types
<1>2. PICK r : r = proc'[p]
    OBVIOUS
<1>3. r \in ProcRec /\ r.pc = "remove" /\ Moved(r, proc[p])
    BY <1>1, <1>2, GoStep DEF Pcs
<1>4. proc' = [proc EXCEPT ![p] = r]
    BY <1>1, <1>2 DEF Go, IInv, Types
<1>5. proc[p].op = "purge" /\ ~(proc[p].file > highest) /\ highest \in Nat /\ proc[p].file \in Int
    BY <1>1, Own DEF ProcOK, PurgePcs
<1>6. /\ r.op = "purge" /\ r.purged = proc[p].purged /\ r.file = proc[p].file /\ r.file <= highest
      /\ r.pc \in PurgePcs \ (Copying \union {"scanned"}) /\ proc[p].pc \notin BoxPcs
    BY <1>1, <1>3, <1>5 DEF Moved, PurgePcs, Copying, BoxPcs
<1>7. PurgeOK(p, r, fileLock, files, map, nextUid, noticed)
    BY <1>1, <1>3, <1>6 DEF PurgeOK, Copying
<1>8. mapLock # p
    BY <1>1, Own DEF MapPcs
<1>. QED BY <1>1, <1>f, <1>3, <1>4, <1>5, <1>6, <1>7, <1>8, PurgeGoStep

LEMMA PurgeAllOK ==
    ASSUME IInv, NEW p \in Procs, PurgeAll(p)
    PROVE  IInv'
<1>1. /\ ~noticed /\ proc[p].pc = "checked" /\ proc[p].live = {} /\ mapLock' = NoProc
      /\ Go(p, "purged") /\ UNCHANGED boxes
      /\ UNCHANGED <<map, nextUid, highest, dirty, files, boxLock, fileLock, noticed, faults>>
    BY DEF PurgeAll, At, mapvars, history
<1>2. PICK r : r = proc'[p]
    OBVIOUS
<1>3. r \in ProcRec /\ r.pc = "purged" /\ Moved(r, proc[p])
    BY <1>1, <1>2, GoStep DEF Pcs
<1>4. proc' = [proc EXCEPT ![p] = r]
    BY <1>1, <1>2 DEF Go, IInv, Types
<1>5. proc[p].op = "purge" /\ proc[p].file = 0 /\ highest \in Nat
    BY <1>1, Own DEF ProcOK, PurgePcs, Copying, NoFile
<1>6. /\ r.op = "purge" /\ r.purged = proc[p].purged /\ r.file = proc[p].file /\ r.file <= highest
      /\ r.pc \in PurgePcs \ (Copying \union {"scanned"}) /\ proc[p].pc \notin BoxPcs
    BY <1>1, <1>3, <1>5 DEF Moved, PurgePcs, Copying, BoxPcs
<1>7. PurgeOK(p, r, fileLock, files, map, nextUid, noticed)
    <2>1. fileLock[r.purged] = p
        BY <1>1, <1>6, Own DEF PurgeOK, Copying
    <2>. QED BY <1>3, <2>1 DEF PurgeOK, Copying
<1>8. mapLock = p
    BY <1>1, Own DEF MapPcs
<1>9. faults' \in Nat
    BY <1>1 DEF IInv, Types
<1>. QED BY <1>1, <1>3, <1>4, <1>5, <1>6, <1>7, <1>8, <1>9, PurgeGoStep

LEMMA RemoveScanOK ==
    ASSUME IInv, NEW p \in Procs, RemoveScan(p)
    PROVE  IInv'
<1>1. PICK mails : mails = RecordsIn(proc[p].purged)
    OBVIOUS
<1>2. /\ ~noticed /\ proc[p].pc = "remove" /\ UNCHANGED boxes
      /\ UNCHANGED <<map, nextUid, highest, dirty, files, mapLock, boxLock, fileLock, noticed, faults>>
      /\ UNCHANGED <<box, requests>>
      /\ proc' = [proc EXCEPT ![p] =
                    IF mails = {} THEN Idle ELSE [@ EXCEPT !.pc = "removing", !.dead = mails]]
    BY <1>1 DEF RemoveScan, At, mapvars, boxes, locks
<1>3. mapLock # p /\ proc[p].pc \notin BoxPcs
    BY <1>2, Own DEF MapPcs, BoxPcs
<1>4. CASE mails = {}
    <2>1. Stop(p)
        BY <1>2, <1>4 DEF Stop
    <2>2. PurgesStay(p) /\ WritesStay(p)
        BY <1>2, SameMap
    <2>3. files' \in [DOMAIN files' -> FileRec] /\ DOMAIN files' \subseteq 1..MaxFiles
        BY <1>2, SameFiles
    <2>4. dirty' \in BOOLEAN /\ noticed' \in BOOLEAN /\ faults' \in Nat
        BY <1>2 DEF IInv, Types
    <2>. QED BY <1>2, <1>3, <2>1, <2>2, <2>3, <2>4, StopOK
<1>5. CASE mails # {}
    <2>1. PICK r0, r : r0 = proc[p] /\ r = [r0 EXCEPT !.pc = "removing", !.dead = mails]
        OBVIOUS
    <2>2. r0 \in ProcRec /\ mails \subseteq Uids
        BY <1>1, <2>1, Own DEF IInv, Types, RecordsIn
    <2>3. /\ r \in ProcRec /\ r.pc = "removing" /\ r.dead = mails /\ r.op = r0.op
          /\ r.file = r0.file /\ r.purged = r0.purged
        BY <2>1, <2>2 DEF ProcRec, Pcs
    <2>4. proc' = [proc EXCEPT ![p] = r]
        BY <1>2, <1>5, <2>1 DEF IInv, Types
    <2>5. proc[p].op = "purge" /\ ~(proc[p].file > highest) /\ highest \in Nat /\ proc[p].file \in Int
        BY <1>2, Own DEF ProcOK, PurgePcs
    <2>6. /\ r.op = "purge" /\ r.purged = proc[p].purged /\ r.file = proc[p].file /\ r.file <= highest
          /\ r.pc \in PurgePcs \ (Copying \union {"scanned"})
        BY <2>1, <2>3, <2>5 DEF PurgePcs, Copying
    <2>7. PurgeOK(p, r, fileLock, files, map, nextUid, noticed)
        BY <2>3 DEF PurgeOK, Copying
    <2>8. faults' \in Nat
        BY <1>2 DEF IInv, Types
    <2>. QED BY <1>2, <1>3, <2>3, <2>4, <2>5, <2>6, <2>7, <2>8, PurgeGoStep
<1>. QED BY <1>4, <1>5

-----------------------------------------------------------------------------
(* Steps that write to mail files.                                         *)

LEMMA WrittenOK ==
    ASSUME IInv, NEW f, NEW n \in Int, f \in DOMAIN files => files[f].unrecorded + n >= 0,
           NEW fs, fs = Written(f, n)
    PROVE  /\ DOMAIN fs = DOMAIN files /\ fs \in [DOMAIN fs -> FileRec]
           /\ \A g \in DOMAIN files : /\ files[g].unrecorded \in Nat
                                      /\ g # f => fs[g].unrecorded = files[g].unrecorded
           /\ f \in DOMAIN files => fs[f].unrecorded = files[f].unrecorded + n
<1>1. files \in [DOMAIN files -> FileRec] /\ \A g \in DOMAIN files : files[g].unrecorded \in Nat
    BY DEF IInv, Types, FileRec
<1>2. CASE f \notin DOMAIN files
    BY <1>1, <1>2 DEF Written
<1>3. CASE f \in DOMAIN files
    <2>1. PICK r0, k, r : r0 = files[f] /\ k = r0.unrecorded + n /\ r = [r0 EXCEPT !.unrecorded = k]
        OBVIOUS
    <2>2. k \in Nat /\ r0 \in FileRec
        BY <1>1, <1>3, <2>1
    <2>3. r \in FileRec /\ r.unrecorded = k
        BY <2>1, <2>2 DEF FileRec
    <2>4. fs = [files EXCEPT ![f] = r]
        BY <1>1, <1>3, <2>1 DEF Written
    <2>. QED BY <1>1, <1>3, <2>1, <2>3, <2>4
<1>. QED BY <1>2, <1>3

\* Others go on with what they purge when no file and no record disappears.
LEMMA SamePurges ==
    ASSUME IInv, NEW p \in Procs, map' = map, DOMAIN files \subseteq DOMAIN files',
           \A f \in 1..highest : f \in DOMAIN files' => f \in DOMAIN files
    PROVE  PurgesStay(p)
<1>1. \A q \in Others(p) : PurgeOK(q, proc[q], fileLock, files, map, nextUid, noticed)
    BY DEF IInv, PartsOK, Others
<1>. QED BY <1>1 DEF PurgesStay, PurgeOK

\* A file that can be written to.
LEMMA TargetOK ==
    ASSUME IInv, NEW f \in Targets
    PROVE  /\ f \in Int /\ f >= NewFile /\ f # 0 /\ highest \in Nat
           /\ f # NewFile => /\ f \in 1..highest /\ f \in 1..MaxFiles /\ f \in DOMAIN files
                             /\ fileLock[f] = NoProc
<1>1. highest \in Nat /\ NewFile = -1
    BY DEF IInv, Types, NewFile
<1>2. ASSUME f # NewFile
      PROVE  /\ f \in 1..highest /\ f \in 1..MaxFiles /\ f \in DOMAIN files /\ fileLock[f] = NoProc
    <2>1. f \in DOMAIN files /\ fileLock[f] = NoProc /\ RecordsIn(f) # {}
        BY <1>2 DEF Targets, Appendable
    <2>2. PICK u \in DOMAIN map : map[u].file = f
        BY <2>1 DEF RecordsIn
    <2>3. f \in 1..highest /\ f \in 1..MaxFiles
        BY <2>1, <2>2 DEF IInv, MapOK, Types
    <2>. QED BY <2>1, <2>3
<1>. QED BY <1>1, <1>2

LEMMA WriteOK ==
    ASSUME IInv, NEW p \in Procs, NEW b \in Boxes, Write(p, b)
    PROVE  IInv'
<1>1. /\ ~noticed /\ proc[p].pc = "idle" /\ UNCHANGED boxes
      /\ UNCHANGED <<map, nextUid, highest, dirty, box, requests, mapLock, boxLock, noticed, faults>>
    BY DEF Write, At, mapvars, boxes, history
<1>2. PICK f \in Targets \union {NoFile}, c \in Seen \union {NoMail} :
        /\ f # NoFile => Savable(1)
        /\ f = NewFile => Creatable
        /\ files' = Written(f, 1)
        /\ fileLock' = IF f > 0 THEN [fileLock EXCEPT ![f] = p] ELSE fileLock
        /\ proc' = [proc EXCEPT ![p] = [Idle EXCEPT
                        !.op = "deliver", !.pc = "lock", !.box = b,
                        !.file = f, !.copy = c]]
    BY DEF Write
<1>3. /\ f \in Int /\ f >= NewFile /\ highest \in Nat /\ c \in Int
      /\ f > 0 => /\ f \in 1..highest /\ f \in 1..MaxFiles /\ f \in DOMAIN files
                  /\ fileLock[f] = NoProc
    <2>1. c \in Int
        BY DEF Seen, Uids, NoMail
    <2>2. CASE f = NoFile
        BY <2>1, <2>2 DEF NoFile, NewFile, IInv, Types
    <2>3. CASE f \in Targets
        BY <2>1, <2>3, TargetOK DEF NewFile
    <2>. QED BY <2>2, <2>3
<1>4. PICK r : r = [Idle EXCEPT !.op = "deliver", !.pc = "lock", !.box = b, !.file = f, !.copy = c]
    OBVIOUS
<1>5. r \in ProcRec /\ r.pc = "lock" /\ r.op = "deliver" /\ r.file = f /\ r.mail = 0
    BY <1>3, <1>4, IdleRec DEF ProcRec, Pcs
<1>6. /\ proc' \in [Procs -> ProcRec] /\ proc'[p] = r
      /\ \A q \in Others(p) : proc'[q] = proc[q]
    <2>1. proc' = [proc EXCEPT ![p] = r]
        BY <1>2, <1>4
    <2>. QED BY <1>5, <2>1, ProcStep
<1>7. /\ fileLock' \in [1..MaxFiles -> Procs \union {NoProc}]
      /\ \A g \in 1..MaxFiles : fileLock'[g] # NoProc => g <= highest
      /\ \A q \in Others(p), g \in 1..MaxFiles : fileLock'[g] = q <=> fileLock[g] = q
      /\ f > 0 => fileLock'[f] = p
    BY <1>2, <1>3, NoProcAssumption DEF IInv, Types, LocksOK, Others
<1>8. /\ DOMAIN files' = DOMAIN files /\ files' \in [DOMAIN files' -> FileRec]
      /\ \A g \in DOMAIN files : /\ files[g].unrecorded \in Nat
                                 /\ g # f => files'[g].unrecorded = files[g].unrecorded
      /\ f \in DOMAIN files => files'[f].unrecorded = files[f].unrecorded + 1
    <2>1. f \in DOMAIN files => files[f].unrecorded + 1 >= 0
        BY DEF IInv, Types, FileRec
    <2>. QED BY <1>2, <2>1, WrittenOK
<1>9. Types'
    BY <1>1, <1>6, <1>7, <1>8 DEF IInv, Types
<1>10. BoxesOK' /\ RequestsStay(p) /\ LocksStay(p) /\ MapOK' /\ MapStays(p)
    <2>1. MapOK' /\ MapStays(p)
        BY <1>1 DEF IInv, MapOK, MapStays, Types
    <2>2. LocksStay(p)
        BY <1>1, <1>7 DEF LocksStay
    <2>. QED BY <1>1, <2>1, <2>2, SameBoxes
<1>11. PurgesStay(p)
    BY <1>1, <1>8, SamePurges
<1>12. WritesStay(p)
    <2>1. ASSUME NEW g \in DOMAIN files'
          PROVE  g \in DOMAIN files /\ files'[g].unrecorded >= files[g].unrecorded
        BY <1>8
    <2>. QED BY <2>1 DEF WritesStay
<1>13. OwnLocks(p)
    <2>1. mapLock # p /\ \A c2 \in Boxes : boxLock[c2] # p
        BY <1>1, Own DEF MapPcs, BoxPcs
    <2>. QED BY <1>1, <1>5, <1>6, <1>7, <2>1 DEF OwnLocks, MapPcs
<1>14. OwnOK(p)
    <2>1. ProcOK(r, highest)
        BY <1>3, <1>5 DEF ProcOK, PurgePcs, Copying, NoMail, NewFile
    <2>2. RefsOK(p, r, boxLock', requests', map')
        BY <1>5 DEF RefsOK
    <2>3. WriterOK(p, r, fileLock', highest', noticed', files')
        BY <1>1, <1>3, <1>5, <1>7, <1>8 DEF WriterOK, Wrote, Copying
    <2>4. PurgeOK(p, r, fileLock', files', map', nextUid', noticed')
        BY <1>5 DEF PurgeOK, Copying
    <2>5. CreatorOK(p, proc', fileLock', map')
        BY <1>5, <1>6 DEF CreatorOK, Creator
    <2>. QED BY <1>1, <1>6, <2>1, <2>2, <2>3, <2>4, <2>5 DEF OwnOK
<1>15. PurgeFound(p)
    BY <1>5, <1>6 DEF PurgeFound
<1>16. BoundsOK'
    <2>1. Saves(r) => Savable(1)
        BY <1>2, <1>5 DEF Saves
    <2>2. Creates(r, highest) => Creatable
        BY <1>2, <1>3, <1>5 DEF Creates
    <2>. QED BY <1>1, <1>6, <1>10, <2>1, <2>2, CountsOK
<1>. QED BY <1>1, <1>9, <1>10, <1>11, <1>12, <1>13, <1>14, <1>15, <1>16, StepOK

LEMMA PurgeFileOK ==
    ASSUME IInv, NEW p \in Procs, PurgeFile(p)
    PROVE  IInv'
<1>1. PICK f, mails, dead, live : /\ f = proc[p].purged /\ mails = RecordsIn(f)
                                  /\ dead = mails \intersect Dying /\ live = mails \ dead
    OBVIOUS
<1>2. /\ ~noticed /\ proc[p].pc = "scanned" /\ f \in DOMAIN files /\ fileLock[f] = NoProc
      /\ noticed' = (files[f] # [mails |-> mails, unrecorded |-> 0]) /\ UNCHANGED boxes
      /\ UNCHANGED <<map, nextUid, highest, dirty, box, requests, mapLock, boxLock, faults>>
    BY <1>1 DEF PurgeFile, At, mapvars, boxes, history
<1>3. PICK t \in IF live = {} THEN {NoFile} ELSE Targets \ {f} :
        /\ files' = Written(t, Cardinality(live))
        /\ fileLock' = [g \in DOMAIN fileLock |->
                           IF g \in {f, t} THEN p ELSE fileLock[g]]
        /\ proc' = [proc EXCEPT ![p].pc = "copied", ![p].file = t,
                                ![p].live = live, ![p].dead = dead]
    BY <1>1 DEF PurgeFile
<1>4. /\ t \in Int /\ t >= NewFile /\ highest \in Nat /\ t # f /\ (live = {} <=> t = NoFile)
      /\ t > 0 => /\ t \in 1..highest /\ t \in 1..MaxFiles /\ t \in DOMAIN files
                  /\ fileLock[t] = NoProc
      /\ f \in 1..MaxFiles /\ f \in 1..highest
    <2>1. f \in 1..MaxFiles /\ highest \in Nat
        BY <1>2 DEF IInv, Types
    <2>2. f \in 1..highest
        BY <1>1, <1>2, Own DEF ProcOK, PurgePcs
    <2>3. CASE live = {}
        BY <1>3, <2>1, <2>2, <2>3 DEF NoFile, NewFile
    <2>4. CASE live # {}
        <3>1. t \in Targets /\ t # f
            BY <1>3, <2>4
        <3>. QED BY <2>1, <2>2, <2>4, <3>1, TargetOK DEF NoFile, NewFile
    <2>. QED BY <2>3, <2>4
<1>5. live \subseteq Uids /\ dead \subseteq Uids /\ Cardinality(live) \in Nat
    <2>1. live \subseteq Uids /\ dead \subseteq Uids
        BY <1>1 DEF RecordsIn, IInv, Types
    <2>2. IsFiniteSet(Uids)
        BY BoundsAssumption, FS_Interval DEF Uids
    <2>. QED BY <2>1, <2>2, FS_Subset, FS_CardinalityType
<1>6. PICK r0, r : /\ r0 = proc[p]
                   /\ r = [r0 EXCEPT !.pc = "copied", !.file = t, !.live = live, !.dead = dead]
    OBVIOUS
<1>7. r0 \in ProcRec /\ r0.op = "purge"
    BY <1>2, <1>6, Own DEF ProcOK, PurgePcs
<1>8. /\ r \in ProcRec /\ r.pc = "copied" /\ r.op = "purge" /\ r.file = t /\ r.purged = f
      /\ r.live = live /\ r.dead = dead
    BY <1>1, <1>4, <1>5, <1>6, <1>7 DEF ProcRec, Pcs
<1>9. /\ proc' \in [Procs -> ProcRec] /\ proc'[p] = r
      /\ \A q \in Others(p) : proc'[q] = proc[q]
    <2>1. proc' = [proc EXCEPT ![p] = r]
        BY <1>3, <1>6 DEF IInv, Types
    <2>. QED BY <1>8, <2>1, ProcStep
<1>10. /\ fileLock' \in [1..MaxFiles -> Procs \union {NoProc}]
       /\ \A g \in 1..MaxFiles : fileLock'[g] # NoProc => g <= highest
       /\ \A q \in Others(p), g \in 1..MaxFiles : fileLock'[g] = q <=> fileLock[g] = q
       /\ fileLock'[f] = p /\ (t > 0 => fileLock'[t] = p)
    BY <1>2, <1>3, <1>4, NoProcAssumption DEF IInv, Types, LocksOK, Others
<1>11. /\ DOMAIN files' = DOMAIN files /\ files' \in [DOMAIN files' -> FileRec]
       /\ \A g \in DOMAIN files : /\ files[g].unrecorded \in Nat
                                  /\ g # t => files'[g].unrecorded = files[g].unrecorded
       /\ t \in DOMAIN files => files'[t].unrecorded = files[t].unrecorded + Cardinality(live)
    <2>1. t \in DOMAIN files => files[t].unrecorded + Cardinality(live) >= 0
        BY <1>5 DEF IInv, Types, FileRec
    <2>2. PICK n \in Int : n = Cardinality(live)
        BY <1>5
    <2>. QED BY <1>3, <2>1, <2>2, WrittenOK
<1>12. Types'
    <2>1. noticed' \in BOOLEAN
        BY <1>2
    <2>. QED BY <1>2, <1>9, <1>10, <1>11, <2>1 DEF IInv, Types
<1>13. BoxesOK' /\ RequestsStay(p) /\ LocksStay(p) /\ MapOK' /\ MapStays(p)
    <2>1. MapOK' /\ MapStays(p)
        BY <1>2 DEF IInv, MapOK, MapStays, Types
    <2>2. LocksStay(p)
        BY <1>2, <1>10 DEF LocksStay
    <2>. QED BY <1>2, <2>1, <2>2, SameBoxes
<1>14. PurgesStay(p)
    BY <1>2, <1>11, SamePurges
<1>15. WritesStay(p)
    <2>1. ASSUME NEW g \in DOMAIN files'
          PROVE  g \in DOMAIN files /\ files'[g].unrecorded >= files[g].unrecorded
        BY <1>5, <1>11
    <2>. QED BY <2>1 DEF WritesStay
<1>16. OwnLocks(p)
    <2>1. mapLock # p /\ \A c \in Boxes : boxLock[c] # p
        BY <1>2, Own DEF MapPcs, BoxPcs
    <2>. QED BY <1>2, <1>8, <1>9, <1>10, <2>1 DEF OwnLocks, MapPcs
<1>17. OwnOK(p)
    <2>1. ProcOK(r, highest)
        BY <1>4, <1>8 DEF ProcOK, PurgePcs, Copying, NoMail, NewFile
    <2>2. RefsOK(p, r, boxLock', requests', map')
        BY <1>8 DEF RefsOK
    <2>3. WriterOK(p, r, fileLock', highest', noticed', files')
        <3>1. t > 0 /\ t \in DOMAIN files' => files'[t].unrecorded >= Cardinality(live)
            BY <1>5, <1>11
        <3>. QED BY <1>2, <1>4, <1>8, <1>10, <3>1 DEF WriterOK, Wrote, Copying
    <2>4. PurgeOK(p, r, fileLock', files', map', nextUid', noticed')
        <3>1. In(map', f) = live \union dead /\ live \union dead \subseteq DOMAIN map'
            BY <1>1, <1>2 DEF In, RecordsIn
        <3>2. \A u \in live \union dead : u < nextUid'
            BY <1>2, <3>1 DEF IInv, MapOK
        <3>3. In(map', f) = (live \union dead) \intersect DOMAIN map'
            BY <3>1
        <3>. QED BY <1>2, <1>8, <1>10, <1>11, <3>2, <3>3 DEF PurgeOK, Copying
    <2>5. CreatorOK(p, proc', fileLock', map')
        BY <1>8, <1>9 DEF CreatorOK, Creator
    <2>. QED BY <1>2, <1>9, <2>1, <2>2, <2>3, <2>4, <2>5 DEF OwnOK
<1>18. PurgeFound(p)
    BY <1>1, <1>6, <1>7, <1>8, <1>9 DEF PurgeFound
<1>19. BoundsOK'
    <2>1. ~Saves(r) /\ Creates(proc[p], highest)
        BY <1>2, <1>8 DEF Saves, Creates
    <2>. QED BY <1>2, <1>9, <1>13, <2>1, CountsOK
<1>. QED BY <1>2, <1>12, <1>13, <1>14, <1>15, <1>16, <1>17, <1>18, <1>19, StepOK

LEMMA LiveOK ==
    ASSUME IInv, NEW p \in Procs
    PROVE  Cardinality(proc[p].live) \in Nat
<1>1. proc[p].live \subseteq Uids
    BY DEF IInv, Types, ProcRec
<1>2. IsFiniteSet(Uids)
    BY BoundsAssumption, FS_Interval DEF Uids
<1>. QED BY <1>1, <1>2, FS_Subset, FS_CardinalityType

LEMMA PurgeCancelOK ==
    ASSUME IInv, NEW p \in Procs, PurgeCancel(p)
    PROVE  IInv'
<1>1. PICK f, n : f = proc[p].file /\ n = Cardinality(proc[p].live)
    OBVIOUS
<1>2. /\ ~noticed /\ proc[p].pc = "copied" /\ mapLock = NoProc /\ noticed' = dirty
      /\ files' = Written(f, -n) /\ fileLock' = Unlocked(fileLock, p) /\ Stop(p)
      /\ UNCHANGED <<map, nextUid, highest, dirty, box, requests, mapLock, boxLock, faults>>
    BY <1>1 DEF PurgeCancel, Truncated, At, mapvars, boxes, history
<1>3. n \in Nat
    BY <1>1, LiveOK
<1>4. f \in DOMAIN files => f \in 1..highest /\ fileLock[f] = p /\ files[f].unrecorded >= n
    <2>1. ASSUME f \in DOMAIN files
          PROVE f \in 1..highest /\ fileLock[f] = p /\ files[f].unrecorded >= n
        <3>1. f \in 1..MaxFiles
            BY <2>1 DEF IInv, Types
        <3>2. Wrote(p, proc[p], n, fileLock, highest, noticed, files)
            BY <1>1, <1>2, <3>1, Own DEF WriterOK, Copying
        <3>. QED BY <1>1, <1>2, <2>1, <3>1, <3>2, Own DEF Wrote
    <2>. QED BY <2>1
<1>5. /\ DOMAIN files' = DOMAIN files /\ files' \in [DOMAIN files' -> FileRec]
      /\ \A g \in DOMAIN files : /\ files[g].unrecorded \in Nat
                                 /\ g # f => files'[g].unrecorded = files[g].unrecorded
    <2>1. f \in DOMAIN files => files[f].unrecorded + (-n) >= 0
        BY <1>3, <1>4 DEF IInv, Types, FileRec
    <2>2. PICK m \in Int : m = -n
        BY <1>3
    <2>. QED BY <1>2, <2>1, <2>2, WrittenOK
<1>6. PurgesStay(p)
    BY <1>2, <1>5, SamePurges
<1>7. WritesStay(p)
    <2>1. ASSUME NEW q \in Others(p), NEW g \in DOMAIN files',
                 fileLock[g] = q \/ (g = highest + 1 /\ mapLock = q)
          PROVE  g \in DOMAIN files /\ files'[g].unrecorded >= files[g].unrecorded
        <3>1. g # f
            BY <1>2, <1>4, <1>5, <2>1, NoProcAssumption DEF Others
        <3>. QED BY <1>5, <3>1
    <2>. QED BY <2>1 DEF WritesStay
<1>8. /\ mapLock # p /\ proc[p].pc \notin BoxPcs /\ DOMAIN files' \subseteq 1..MaxFiles
      /\ dirty' \in BOOLEAN /\ noticed' \in BOOLEAN /\ faults' \in Nat
    BY <1>2, <1>5, NoProcAssumption DEF IInv, Types, BoxPcs
<1>. QED BY <1>2, <1>5, <1>6, <1>7, <1>8, StopOK

\* f is added to files, or was there; fs are the files after that.
Creation(f, mails, n) == f \in 1..MaxFiles /\ mails \subseteq Uids /\ n \in Nat
OnlyNew(f, n, fs) ==
    /\ DOMAIN fs = DOMAIN files \union {f} /\ fs \in [DOMAIN fs -> FileRec]
    /\ \A g \in DOMAIN files : fs[g] = files[g] /\ files[g].unrecorded \in Nat
    /\ f \notin DOMAIN files => fs[f].unrecorded = n

LEMMA CreatedOK ==
    ASSUME IInv, NEW f, NEW mails, NEW n, Creation(f, mails, n)
    PROVE  OnlyNew(f, n, Created(f, mails, n))
<1>1. PICK r, fs : r = [mails |-> mails, unrecorded |-> n] /\ fs = Created(f, mails, n)
    OBVIOUS
<1>2. r \in FileRec /\ r.unrecorded = n
    BY <1>1 DEF FileRec, Creation
<1>3. fs = [g \in DOMAIN files \union {f} |-> IF g \in DOMAIN files THEN files[g] ELSE r]
    BY <1>1 DEF Created, Added
<1>4. \A g \in DOMAIN files : files[g] \in FileRec /\ files[g].unrecorded \in Nat
    BY DEF IInv, Types, FileRec
<1>5. OnlyNew(f, n, fs)
    BY <1>2, <1>3, <1>4 DEF OnlyNew
<1>. QED BY <1>1, <1>5

LEMMA PurgeCheckOK ==
    ASSUME IInv, NEW p \in Procs, PurgeCheck(p)
    PROVE  IInv'
<1>. DEFINE new == proc[p].file = NewFile
<1>1. PICK t, n : t = FileId(proc[p].file) /\ n = Cardinality(proc[p].live)
    OBVIOUS
<1>2. /\ ~noticed /\ proc[p].pc = "copied" /\ mapLock = NoProc /\ mapLock' = p
      /\ noticed' = (\/ dirty
                     \/ ~(proc[p].dead \subseteq DOMAIN map)
                     \/ new /\ t \in DOMAIN files)
      /\ files' = IF new THEN Created(t, {}, n) ELSE files
      /\ proc' = [proc EXCEPT ![p].pc = "checked", ![p].file = t]
      /\ UNCHANGED boxes
      /\ UNCHANGED <<map, nextUid, highest, dirty, box, requests, boxLock, fileLock, faults>>
    BY <1>1 DEF PurgeCheck, At, mapvars, boxes, history
<1>3. /\ n \in Nat /\ highest \in Nat /\ MaxFiles \in Nat /\ proc[p].file \in Int
      /\ proc[p].file >= NewFile /\ ~(proc[p].file > highest)
      /\ ProcOK(proc[p], highest) /\ proc[p] \in ProcRec
    <2>1. n \in Nat
        BY <1>1, LiveOK
    <2>2. ~(proc[p].file > highest) /\ proc[p].file >= NewFile
        BY <1>2, Own DEF ProcOK
    <2>. QED BY <1>1, <2>1, <2>2, Own, HighestOK
<1>4. new => t = highest + 1 /\ t \in 1..MaxFiles
    <2>1. ASSUME new PROVE highest + 1 <= MaxFiles
        <3>1. p \in NewFiles
            BY <1>1, <2>1 DEF NewFiles
        <3>2. IsFiniteSet(NewFiles)
            BY FiniteAssumption, FS_Subset DEF NewFiles
        <3>3. PICK S : S = NewFiles
            OBVIOUS
        <3>4. Cardinality({}) <= Cardinality(S) - 1 /\ Cardinality(S) \in Nat
            BY <3>1, <3>2, <3>3, Fewer
        <3>5. Cardinality({}) = 0
            BY FS_EmptySet
        <3>6. highest + Cardinality(S) <= MaxFiles
            BY <3>3 DEF IInv, BoundsOK
        <3>. QED BY <1>3, <3>4, <3>5, <3>6
    <2>. QED BY <1>1, <1>3, <2>1 DEF FileId
<1>5. ~new => t = proc[p].file /\ t <= highest /\ t >= 0
    BY <1>1, <1>3 DEF FileId, NewFile
<1>6. t \in Int /\ t >= 0 /\ t <= highest + 1
    BY <1>3, <1>4, <1>5
<1>7. PICK r0, r : r0 = proc[p] /\ r = [r0 EXCEPT !.pc = "checked", !.file = t]
    OBVIOUS
<1>8. /\ r \in ProcRec /\ r.pc = "checked" /\ r.op = r0.op /\ r.file = t /\ r.purged = r0.purged
      /\ r.live = r0.live /\ r.dead = r0.dead
    BY <1>3, <1>6, <1>7 DEF ProcRec, Pcs
<1>9. /\ proc' \in [Procs -> ProcRec] /\ proc'[p] = r
      /\ \A q \in Others(p) : proc'[q] = proc[q]
    <2>1. proc' = [proc EXCEPT ![p] = r]
        BY <1>2, <1>7 DEF IInv, Types
    <2>. QED BY <1>8, <2>1, ProcStep
<1>10. /\ DOMAIN files \subseteq DOMAIN files' /\ files' \in [DOMAIN files' -> FileRec]
       /\ \A g \in DOMAIN files' : g \in DOMAIN files \/ (new /\ g = t)
       /\ \A g \in DOMAIN files : files'[g] = files[g] /\ files[g].unrecorded \in Nat
       /\ new /\ t \notin DOMAIN files => files'[t].unrecorded = n
       /\ DOMAIN files' \subseteq 1..MaxFiles
    <2>1. CASE new
        <3>1. Creation(t, {}, n)
            BY <1>3, <1>4, <2>1 DEF Creation
        <3>2. OnlyNew(t, n, Created(t, {}, n))
            BY <3>1, CreatedOK
        <3>3. OnlyNew(t, n, files')
            BY <1>2, <2>1, <3>2
        <3>. QED BY <1>4, <2>1, <3>3, SameFiles DEF OnlyNew
    <2>2. CASE ~new
        BY <1>2, <2>2 DEF IInv, Types, FileRec
    <2>. QED BY <2>1, <2>2
<1>11. Types'
    <2>1. noticed' \in BOOLEAN
        BY <1>2 DEF IInv, Types
    <2>. QED BY <1>2, <1>9, <1>10, <2>1 DEF IInv, Types
<1>12. BoxesOK' /\ RequestsStay(p) /\ LocksStay(p) /\ MapOK' /\ MapStays(p)
    <2>1. MapOK' /\ MapStays(p)
        BY <1>2 DEF IInv, MapOK, MapStays, Types
    <2>2. LocksStay(p)
        BY <1>2, NoProcAssumption DEF LocksStay, Others
    <2>. QED BY <1>2, <2>1, <2>2, SameBoxes
<1>13. PurgesStay(p)
    <2>1. \A f \in 1..highest : f \in DOMAIN files' => f \in DOMAIN files
        BY <1>3, <1>4, <1>10
    <2>. QED BY <1>2, <1>10, <2>1, SamePurges
<1>14. WritesStay(p)
    <2>1. ASSUME NEW q \in Others(p), NEW g \in DOMAIN files',
                 fileLock[g] = q \/ (g = highest + 1 /\ mapLock = q)
          PROVE  g \in DOMAIN files /\ files'[g].unrecorded >= files[g].unrecorded
        <3>1. fileLock[g] = q /\ q # NoProc /\ g \in 1..MaxFiles
            BY <1>2, <1>10, <2>1, NoProcAssumption DEF Others
        <3>2. g <= highest
            BY <3>1 DEF IInv, LocksOK
        <3>3. g \in DOMAIN files
            BY <1>3, <1>4, <1>10, <3>1, <3>2
        <3>. QED BY <1>10, <3>3
    <2>. QED BY <2>1 DEF WritesStay
<1>15. OwnLocks(p)
    <2>1. \A c \in Boxes : boxLock[c] # p
        BY <1>2, Own DEF BoxPcs
    <2>. QED BY <1>2, <1>8, <1>9, <2>1 DEF OwnLocks, MapPcs, IInv, LocksOK
<1>16. r0.op = "purge" /\ r0.purged \in 1..highest /\ r0.file # r0.purged
       /\ (r0.live = {} <=> r0.file = NoFile)
    BY <1>2, <1>3, <1>7 DEF ProcOK, PurgePcs, Copying
<1>17. OwnOK(p)
    <2>1. ProcOK(r, highest)
        <3>1. t # r0.purged /\ (r0.live = {} <=> t = NoFile) /\ t # NewFile
            BY <1>1, <1>3, <1>4, <1>5, <1>7, <1>16 DEF NoFile, NewFile
        <3>. QED BY <1>3, <1>6, <1>8, <1>16, <3>1 DEF ProcOK, PurgePcs, Copying, NewFile
    <2>2. RefsOK(p, r, boxLock', requests', map')
        BY <1>8 DEF RefsOK
    <2>3. WriterOK(p, r, fileLock', highest', noticed', files')
        <3>1. ASSUME t > 0 PROVE Wrote(p, r, n, fileLock, highest, noticed', files')
            <4>1. CASE new
                <5>1. ~noticed' => t \notin DOMAIN files
                    BY <1>2, <4>1
                <5>2. t = highest + 1 /\ n \in Nat
                    BY <1>3, <1>4, <4>1
                <5>3. ~noticed' => files'[t].unrecorded = n
                    BY <1>10, <4>1, <5>1
                <5>. QED BY <1>8, <5>2, <5>3 DEF Wrote
            <4>2. CASE ~new
                <5>1. Wrote(p, r0, n, fileLock, highest, noticed, files)
                    BY <1>1, <1>2, <1>5, <1>7, <3>1, <4>2, Own DEF WriterOK, Copying
                <5>2. t = r0.file /\ t <= highest
                    BY <1>5, <1>7, <4>2
                <5>3. fileLock[t] = p /\ (t \in DOMAIN files => files[t].unrecorded >= n)
                    BY <1>2, <1>3, <1>7, <5>1, <5>2 DEF Wrote
                <5>. QED BY <1>8, <1>10, <4>2, <5>2, <5>3 DEF Wrote
            <4>. QED BY <4>1, <4>2
        <3>2. n = Cardinality(r.live) /\ r.op = "purge"
            BY <1>1, <1>7, <1>8, <1>16
        <3>. QED BY <1>2, <1>8, <3>1, <3>2 DEF WriterOK
    <2>4. PurgeOK(p, r, fileLock', files', map', nextUid', noticed')
        <3>1. PurgeOK(p, r0, fileLock, files, map, nextUid, noticed)
            BY <1>7, Own
        <3>2. ~noticed' => r0.dead \subseteq DOMAIN map
            BY <1>2, <1>7, Zenon
        <3>. QED BY <1>2, <1>7, <1>8, <1>10, <3>1, <3>2 DEF PurgeOK, Copying
    <2>5. CreatorOK(p, proc', fileLock', map')
        BY <1>8, <1>9 DEF CreatorOK, Creator
    <2>. QED BY <1>2, <1>9, <2>1, <2>2, <2>3, <2>4, <2>5 DEF OwnOK
<1>18. PurgeFound(p)
    BY <1>7, <1>8, <1>9, <1>16 DEF PurgeFound
<1>19. BoundsOK'
    <2>1. ~Saves(r)
        BY <1>8, <1>16 DEF Saves
    <2>2. Creates(r, highest) => Creates(proc[p], highest)
        BY <1>1, <1>3, <1>5, <1>6, <1>8 DEF Creates, NewFile
    <2>. QED BY <1>2, <1>9, <1>12, <2>1, <2>2, CountsOK
<1>. QED BY <1>2, <1>11, <1>12, <1>13, <1>14, <1>15, <1>17, <1>18, <1>19, StepOK

LEMMA FewerFiles ==
    ASSUME IInv, NEW f, NEW fs, fs = Restrict(files, DOMAIN files \ {f})
    PROVE  /\ DOMAIN fs = DOMAIN files \ {f} /\ fs \in [DOMAIN fs -> FileRec]
           /\ \A g \in DOMAIN fs : g \in DOMAIN files /\ fs[g] = files[g] /\ files[g].unrecorded \in Nat
<1>1. files \in [DOMAIN files -> FileRec] /\ \A g \in DOMAIN files : files[g].unrecorded \in Nat
    BY DEF IInv, Types, FileRec
<1>. QED BY <1>1 DEF Restrict

\* A file goes that nobody else purges.
LEMMA PurgesStayWithout ==
    ASSUME IInv, NEW p \in Procs, NEW f, map' = map, DOMAIN files' = DOMAIN files \ {f},
           \A q \in Others(p) : proc[q].pc \in Copying => proc[q].purged # f
    PROVE  PurgesStay(p)
<1>1. \A q \in Others(p) : PurgeOK(q, proc[q], fileLock, files, map, nextUid, noticed)
    BY DEF IInv, PartsOK, Others
<1>. QED BY <1>1 DEF PurgesStay, PurgeOK

LEMMA PurgeUnlinkOK ==
    ASSUME IInv, NEW p \in Procs, PurgeUnlink(p)
    PROVE  IInv'
<1>1. PICK f : f = proc[p].purged
    OBVIOUS
<1>2. /\ ~noticed /\ proc[p].pc = "purged" /\ Go(p, "remove")
      /\ files' = Restrict(files, DOMAIN files \ {f}) /\ fileLock' = Unlocked(fileLock, p)
      /\ UNCHANGED boxes
      /\ UNCHANGED <<map, nextUid, highest, dirty, box, requests, mapLock, boxLock, noticed, faults>>
    BY <1>1 DEF PurgeUnlink, At, mapvars, boxes, history
<1>3. PICK r : r = proc'[p]
    OBVIOUS
<1>4. /\ r \in ProcRec /\ r.pc = "remove" /\ Moved(r, proc[p]) /\ proc' \in [Procs -> ProcRec]
      /\ \A q \in Others(p) : proc'[q] = proc[q]
    BY <1>2, <1>3, GoStep DEF Pcs
<1>5. /\ ProcOK(proc[p], highest) /\ proc[p].op = "purge" /\ fileLock[f] = p /\ highest \in Nat
      /\ proc[p].file \in Int /\ ~(proc[p].file > highest)
    BY <1>1, <1>2, Own DEF ProcOK, PurgeOK, PurgePcs, Copying
<1>6. /\ DOMAIN files' = DOMAIN files \ {f} /\ files' \in [DOMAIN files' -> FileRec]
      /\ \A g \in DOMAIN files' :
            g \in DOMAIN files /\ files'[g] = files[g] /\ files[g].unrecorded \in Nat
    BY <1>2, FewerFiles
<1>7. /\ fileLock' \in [1..MaxFiles -> Procs \union {NoProc}]
      /\ \A g \in 1..MaxFiles : fileLock'[g] # NoProc => g <= highest
      /\ \A q \in Others(p), g \in 1..MaxFiles : fileLock'[g] = q <=> fileLock[g] = q
    BY <1>2, UnlockedFiles
<1>8. Types'
    BY <1>2, <1>4, <1>6, <1>7 DEF IInv, Types
<1>9. BoxesOK' /\ RequestsStay(p) /\ LocksStay(p) /\ MapOK' /\ MapStays(p)
    <2>1. MapOK' /\ MapStays(p)
        BY <1>2 DEF IInv, MapOK, MapStays, Types
    <2>2. LocksStay(p)
        BY <1>2, <1>7 DEF LocksStay
    <2>. QED BY <1>2, <2>1, <2>2, SameBoxes
<1>10. PurgesStay(p)
    <2>1. \A q \in Others(p) : proc[q].pc \in Copying => fileLock[proc[q].purged] = q
        BY DEF IInv, PartsOK, PurgeOK, Others
    <2>2. \A q \in Others(p) : proc[q].pc \in Copying => proc[q].purged # f
        BY <1>5, <2>1 DEF Others
    <2>. QED BY <1>2, <1>6, <2>2, PurgesStayWithout
<1>11. WritesStay(p)
    BY <1>6 DEF WritesStay
<1>12. OwnLocks(p)
    <2>1. mapLock # p /\ \A c \in Boxes : boxLock[c] # p
        BY <1>2, Own DEF MapPcs, BoxPcs
    <2>. QED BY <1>2, <1>3, <1>4, <1>7, <2>1 DEF OwnLocks, MapPcs
<1>13. OwnOK(p)
    <2>1. ProcOK(r, highest)
        BY <1>4, <1>5 DEF ProcOK, Moved, PurgePcs, Copying
    <2>2. RefsOK(p, r, boxLock', requests', map')
        BY <1>4 DEF RefsOK
    <2>3. WriterOK(p, r, fileLock', highest', noticed', files')
        BY <1>4, <1>5 DEF WriterOK, Moved, Copying
    <2>4. PurgeOK(p, r, fileLock', files', map', nextUid', noticed')
        BY <1>1, <1>4, <1>6 DEF PurgeOK, Moved, Copying
    <2>5. CreatorOK(p, proc', fileLock', map')
        BY <1>3, <1>4 DEF CreatorOK, Creator
    <2>. QED BY <1>2, <1>3, <1>4, <2>1, <2>2, <2>3, <2>4, <2>5 DEF OwnOK
<1>14. PurgeFound(p)
    BY <1>3, <1>4, <1>5 DEF PurgeFound, Moved
<1>15. BoundsOK'
    <2>1. ~Saves(r) /\ (Creates(r, highest) => Creates(proc[p], highest))
        BY <1>4, <1>5 DEF Saves, Creates, Moved
    <2>. QED BY <1>2, <1>3, <1>4, <1>9, <2>1, CountsOK
<1>. QED BY <1>2, <1>8, <1>9, <1>10, <1>11, <1>12, <1>13, <1>14, <1>15, StepOK

LEMMA CutOffOK ==
    ASSUME IInv, ~noticed, NEW p \in Procs, proc[p].pc \in {"synced", "appended"},
           proc[p].op = "deliver", proc[p].file = NoFile \/ proc[p].mail # NoMail,
           NEW mails, CutOff(p, mails), map' = map
    PROVE  /\ files' \in [DOMAIN files' -> FileRec] /\ DOMAIN files' \subseteq 1..MaxFiles
           /\ PurgesStay(p) /\ WritesStay(p)
<1>1. PICK f : f = proc[p].file
    OBVIOUS
<1>2. CASE CreatedBy(p)
    <2>1. f > 0 /\ fileLock[f] # p /\ files' = Restrict(files, DOMAIN files \ {f})
        BY <1>1, <1>2 DEF CutOff, CreatedBy
    <2>2. /\ DOMAIN files' = DOMAIN files \ {f} /\ files' \in [DOMAIN files' -> FileRec]
          /\ \A g \in DOMAIN files' :
                g \in DOMAIN files /\ files'[g] = files[g] /\ files[g].unrecorded \in Nat
        <3>1. files \in [DOMAIN files -> FileRec] /\ \A g \in DOMAIN files : files[g].unrecorded \in Nat
            BY DEF IInv, Types, FileRec
        <3>. QED BY <2>1, <3>1 DEF Restrict
    <2>3. Creator(p, proc[p], fileLock)
        BY <1>1, <2>1 DEF Creator, NoFile
    <2>4. \A q \in Procs : proc[q].op = "purge" => proc[q].purged # f
        BY <1>1, <2>3, Own DEF CreatorOK
    <2>5. \A q \in Others(p) : proc[q].pc \in Copying => proc[q].op = "purge"
        BY DEF IInv, PartsOK, ProcOK, Others, Copying, PurgePcs
    <2>6. \A q \in Others(p) : proc[q].pc \in Copying => proc[q].purged # f
        BY <2>4, <2>5 DEF Others
    <2>7. PurgesStay(p)
        BY <2>2, <2>6, PurgesStayWithout
    <2>8. WritesStay(p)
        BY <2>2 DEF WritesStay
    <2>. QED BY <2>2, <2>7, <2>8, SameFiles
<1>3. CASE ~CreatedBy(p)
    <2>1. /\ DOMAIN files' = DOMAIN files /\ files' \in [DOMAIN files' -> FileRec]
          /\ \A g \in DOMAIN files : files'[g].unrecorded = files[g].unrecorded
          /\ \A g \in DOMAIN files : files[g].unrecorded \in Nat
        <3>1. files \in [DOMAIN files -> FileRec] /\ \A g \in DOMAIN files : files[g].unrecorded \in Nat
            BY DEF IInv, Types, FileRec
        <3>2. CASE f \in DOMAIN files
            <4>1. PICK r0, m, r : /\ r0 = files[f] /\ m = r0.mails \ {proc[p].mail}
                                  /\ r = [r0 EXCEPT !.mails = m]
                OBVIOUS
            <4>2. r0 \in FileRec /\ m \in SUBSET Uids
                BY <3>1, <3>2, <4>1 DEF FileRec
            <4>3. r \in FileRec /\ r.unrecorded = r0.unrecorded
                BY <4>1, <4>2 DEF FileRec
            <4>4. files' = [files EXCEPT ![f] = r]
                BY <1>1, <1>3, <3>1, <3>2, <4>1 DEF CutOff
            <4>. QED BY <3>1, <3>2, <4>1, <4>3, <4>4
        <3>3. CASE f \notin DOMAIN files
            BY <1>1, <1>3, <3>1, <3>3 DEF CutOff
        <3>. QED BY <3>2, <3>3
    <2>2. PurgesStay(p)
        BY <2>1, SamePurges
    <2>3. WritesStay(p)
        BY <2>1 DEF WritesStay
    <2>. QED BY <2>1, <2>2, <2>3, SameFiles
<1>. QED BY <1>2, <1>3

LEMMA RollbackOK ==
    ASSUME IInv, NEW p \in Procs, Rollback(p)
    PROVE  IInv'
<1>1. /\ ~noticed /\ proc[p].pc = "synced" /\ proc[p].op = "deliver"
      /\ proc[p].file = NoFile \/ proc[p].mail # NoMail
      /\ CutOff(p, {proc[p].mail})
      /\ fileLock' = Unlocked(fileLock, p) /\ boxLock' = Unlocked(boxLock, p) /\ mapLock' = NoProc
      /\ Stop(p) /\ UNCHANGED <<map, nextUid, highest, box, requests, noticed>>
    BY DEF Rollback, Prepared, At, boxes
<1>2. dirty' \in BOOLEAN /\ noticed' \in BOOLEAN /\ faults' \in Nat
    <2>1. dirty' \in BOOLEAN /\ noticed' \in BOOLEAN
        BY <1>1 DEF Rollback, TailAfter, IInv, Types
    <2>2. faults' \in Nat
        BY FaultOK DEF Rollback
    <2>. QED BY <2>1, <2>2
<1>3. mapLock = p
    BY <1>1, Own DEF MapPcs
<1>4. /\ files' \in [DOMAIN files' -> FileRec] /\ DOMAIN files' \subseteq 1..MaxFiles
      /\ PurgesStay(p) /\ WritesStay(p)
    BY <1>1, CutOffOK
<1>. QED BY <1>1, <1>2, <1>3, <1>4, StopOK

LEMMA CommitFailsOK ==
    ASSUME IInv, NEW p \in Procs, CommitFails(p)
    PROVE  IInv'
<1>1. /\ ~noticed /\ proc[p].pc = "appended" /\ Fault /\ CutOff(p, {proc[p].mail, proc[p].copy})
      /\ fileLock' = Unlocked(fileLock, p) /\ boxLock' = Unlocked(boxLock, p)
      /\ Go(p, "finish") /\ UNCHANGED boxes
      /\ UNCHANGED <<map, nextUid, highest, dirty, box, requests, mapLock, noticed>>
    BY DEF CommitFails, At, mapvars, boxes
<1>2. PICK r : r = proc'[p]
    OBVIOUS
<1>3. /\ r \in ProcRec /\ r.pc = "finish" /\ Moved(r, proc[p]) /\ proc' \in [Procs -> ProcRec]
      /\ \A q \in Others(p) : proc'[q] = proc[q]
    BY <1>1, <1>2, GoStep DEF Pcs
<1>4. /\ proc[p].op = "deliver"
      /\ proc[p].file = NoFile \/ proc[p].mail # NoMail
    BY <1>1, Own DEF ProcOK
<1>5. /\ files' \in [DOMAIN files' -> FileRec] /\ DOMAIN files' \subseteq 1..MaxFiles
      /\ PurgesStay(p) /\ WritesStay(p)
    BY <1>1, <1>4, CutOffOK
<1>6. Later(r, proc[p])
    BY <1>1, <1>3, <1>4 DEF Later, Moved, Ahead
<1>7. /\ boxLock' \in [Boxes -> Procs \union {NoProc}]
      /\ \A b \in Boxes : boxLock'[b] # p
      /\ \A q \in Others(p), b \in Boxes : boxLock'[b] = q <=> boxLock[b] = q
    BY <1>1, UnlockedBoxes
<1>8. /\ fileLock' \in [1..MaxFiles -> Procs \union {NoProc}]
      /\ \A f \in 1..MaxFiles : fileLock'[f] # NoProc => f <= highest
      /\ \A q \in Others(p), f \in 1..MaxFiles : fileLock'[f] = q <=> fileLock[f] = q
    BY <1>1, UnlockedFiles
<1>9. BoxesOK' /\ RequestsStay(p) /\ LocksStay(p) /\ MapOK' /\ MapStays(p)
    <2>1. MapOK' /\ MapStays(p)
        BY <1>1 DEF IInv, MapOK, MapStays, Types
    <2>2. LocksStay(p)
        BY <1>1, <1>7, <1>8 DEF LocksStay
    <2>. QED BY <1>1, <2>1, <2>2, SameBoxes
<1>10. Types'
    <2>1. faults' \in Nat
        BY <1>1, FaultOK
    <2>. QED BY <1>1, <1>3, <1>5, <1>7, <1>8, <2>1 DEF IInv, Types
<1>11. OwnLocks(p)
    <2>1. mapLock = p
        BY <1>1, Own DEF MapPcs
    <2>. QED BY <1>1, <1>2, <1>3, <1>7, <1>8, <2>1 DEF OwnLocks, MapPcs
<1>12. /\ ProcOK(r, highest) /\ PurgeOK(p, r, fileLock', files', map', nextUid', noticed')
       /\ Saves(r) => Saves(proc[p])
       /\ ~Creates(r, highest) \/ Creates(proc[p], highest)
       /\ r.op # "purge"
    BY <1>1, <1>3, <1>6, LaterOK
<1>13. OwnOK(p)
    <2>1. RefsOK(p, r, boxLock', requests', map')
        BY <1>3 DEF RefsOK
    <2>2. WriterOK(p, r, fileLock', highest', noticed', files')
        BY <1>3, <1>4 DEF WriterOK, Moved, Copying, NoFile
    <2>3. CreatorOK(p, proc', fileLock', map')
        BY <1>2, <1>3 DEF CreatorOK, Creator
    <2>. QED BY <1>1, <1>2, <1>3, <1>12, <2>1, <2>2, <2>3 DEF OwnOK
<1>14. PurgeFound(p)
    BY <1>2, <1>12 DEF PurgeFound
<1>15. BoundsOK'
    BY <1>1, <1>2, <1>3, <1>9, <1>12, CountsOK
<1>. QED BY <1>1, <1>5, <1>9, <1>10, <1>11, <1>13, <1>14, <1>15, StepOK

-----------------------------------------------------------------------------
(* Steps that change which records there are and what file they name.      *)

\* n mails in f can be recorded; fs are the files after that.
Recordable(f, mails, n) ==
    mails \subseteq Uids /\ n \in Nat /\ (f \in DOMAIN files => files[f].unrecorded >= n)
OnlyIn(f, fs) ==
    /\ DOMAIN fs = DOMAIN files /\ fs \in [DOMAIN fs -> FileRec]
    /\ \A g \in DOMAIN files : files[g].unrecorded \in Nat /\ (g # f => fs[g] = files[g])

LEMMA RecordedOK ==
    ASSUME IInv, NEW f, NEW mails, NEW n, Recordable(f, mails, n)
    PROVE  OnlyIn(f, Recorded(f, mails, n))
<1>. DEFINE fs == Recorded(f, mails, n)
<1>0. /\ mails \subseteq Uids /\ n \in Nat /\ (f \in DOMAIN files => files[f].unrecorded >= n)
    BY DEF Recordable
<1>1. files \in [DOMAIN files -> FileRec] /\ \A g \in DOMAIN files : files[g].unrecorded \in Nat
    BY DEF IInv, Types, FileRec
<1>2. CASE f \notin DOMAIN files
    BY <1>1, <1>2 DEF Recorded, OnlyIn
<1>3. CASE f \in DOMAIN files
    <2>1. PICK r0, k, m, r : /\ r0 = files[f] /\ k = r0.unrecorded - n /\ m = r0.mails \union mails
                             /\ r = [mails |-> m, unrecorded |-> k]
        OBVIOUS
    <2>2. k \in Nat /\ m \subseteq Uids
        BY <1>0, <1>1, <1>3, <2>1 DEF FileRec
    <2>3. r \in FileRec
        BY <2>1, <2>2 DEF FileRec
    <2>4. fs = [files EXCEPT ![f] = r]
        BY <1>1, <1>3, <2>1 DEF Recorded
    <2>. QED BY <1>1, <1>3, <2>3, <2>4 DEF OnlyIn
<1>. QED BY <1>2, <1>3

LEMMA RemoveOK ==
    ASSUME IInv, NEW p \in Procs, Remove(p)
    PROVE  IInv'
<1>1. PICK f, dead : f = proc[p].purged /\ dead = proc[p].dead
    OBVIOUS
<1>2. /\ ~noticed /\ proc[p].pc = "removing" /\ mapLock = NoProc /\ mapLock' = p
      /\ noticed' = dirty /\ dirty' = TRUE
      /\ map' = Restrict(map, DOMAIN map \ dead)
      /\ proc' = [proc EXCEPT ![p].pc = "finish", ![p].success = TRUE]
      /\ UNCHANGED boxes
      /\ UNCHANGED <<nextUid, highest, files, box, requests, boxLock, fileLock, faults>>
    BY <1>1 DEF Remove, At, boxes, history
<1>3. PICK r : r = proc'[p]
    OBVIOUS
<1>4. /\ r \in ProcRec /\ r.pc = "finish" /\ Moved(r, proc[p]) /\ proc' \in [Procs -> ProcRec]
      /\ \A q \in Others(p) : proc'[q] = proc[q]
    BY <1>2, <1>3, GoWellStep DEF Pcs
<1>5. /\ DOMAIN map' = DOMAIN map \ dead /\ map' \in [DOMAIN map' -> MapRec]
      /\ \A u \in DOMAIN map' : u \in DOMAIN map /\ map'[u] = map[u]
    <2>1. map \in [DOMAIN map -> MapRec]
        BY DEF IInv, Types
    <2>. QED BY <1>2, <2>1 DEF Restrict
<1>6. ProcOK(proc[p], highest) /\ proc[p].op = "purge"
    BY <1>1, <1>2, Own DEF ProcOK, PurgePcs
<1>7. highest \in Nat /\ proc[p].file \in Int /\ ~(proc[p].file > highest)
    BY <1>2, Own DEF ProcOK
<1>8. Types'
    <2>1. DOMAIN map' \subseteq Uids /\ noticed' \in BOOLEAN
        BY <1>2, <1>5 DEF IInv, Types
    <2>. QED BY <1>2, <1>4, <1>5, <2>1 DEF IInv, Types
<1>9. BoxesOK' /\ RequestsStay(p) /\ LocksStay(p) /\ MapOK' /\ MapStays(p)
    <2>1. MapOK'
        BY <1>2, <1>5 DEF IInv, MapOK
    <2>2. MapStays(p)
        BY <1>2 DEF IInv, MapStays, Types
    <2>3. LocksStay(p)
        BY <1>2, NoProcAssumption DEF LocksStay, Others
    <2>. QED BY <1>2, <2>1, <2>2, <2>3, SameBoxes
<1>10. PurgesStay(p)
    <2>1. \A q \in Others(p) : PurgeOK(q, proc[q], fileLock, files, map, nextUid, noticed)
        BY DEF IInv, PartsOK, Others
    <2>2. ASSUME NEW g PROVE In(map', g) = In(map, g) \intersect DOMAIN map'
        BY <1>5 DEF In
    <2>3. ASSUME NEW q \in Others(p), proc[q].pc \in Copying
          PROVE  /\ proc[q].purged \in DOMAIN files'
                 /\ In(map', proc[q].purged) =
                       (proc[q].live \union proc[q].dead) \intersect DOMAIN map'
        <3>1. PICK g, mails : g = proc[q].purged /\ mails = proc[q].live \union proc[q].dead
            OBVIOUS
        <3>2. g \in DOMAIN files /\ In(map, g) = mails \intersect DOMAIN map
            BY <2>1, <2>3, <3>1 DEF PurgeOK
        <3>3. In(map', g) = mails \intersect DOMAIN map'
            BY <1>5, <2>2, <3>2
        <3>. QED BY <1>2, <3>1, <3>2, <3>3
    <2>. QED BY <1>2, <2>3 DEF PurgesStay
<1>11. WritesStay(p)
    <2>1. \A g \in DOMAIN files : files[g].unrecorded \in Nat
        BY DEF IInv, Types, FileRec
    <2>. QED BY <1>2, <2>1 DEF WritesStay
<1>12. OwnLocks(p)
    <2>1. \A c \in Boxes : boxLock[c] # p
        BY <1>2, Own DEF BoxPcs
    <2>. QED BY <1>2, <1>3, <1>4, <2>1 DEF OwnLocks, MapPcs, IInv, LocksOK
<1>13. OwnOK(p)
    <2>1. ProcOK(r, highest)
        BY <1>4, <1>6, <1>7 DEF ProcOK, Moved, PurgePcs, Copying
    <2>2. RefsOK(p, r, boxLock', requests', map')
        BY <1>4 DEF RefsOK
    <2>3. WriterOK(p, r, fileLock', highest', noticed', files')
        BY <1>4, <1>6 DEF WriterOK, Moved, Copying
    <2>4. PurgeOK(p, r, fileLock', files', map', nextUid', noticed')
        BY <1>4 DEF PurgeOK, Copying
    <2>5. CreatorOK(p, proc', fileLock', map')
        BY <1>3, <1>4 DEF CreatorOK, Creator
    <2>. QED BY <1>2, <1>3, <1>4, <2>1, <2>2, <2>3, <2>4, <2>5 DEF OwnOK
<1>14. PurgeFound(p)
    BY <1>3, <1>4, <1>6 DEF PurgeFound, Moved
<1>15. BoundsOK'
    <2>1. ~Saves(r) /\ (Creates(r, highest) => Creates(proc[p], highest))
        BY <1>4, <1>6 DEF Saves, Creates, Moved
    <2>. QED BY <1>2, <1>3, <1>4, <1>9, <2>1, CountsOK
<1>. QED BY <1>2, <1>8, <1>9, <1>10, <1>11, <1>12, <1>13, <1>14, <1>15, StepOK

LEMMA NewFileOK ==
    ASSUME IInv, NEW p \in Procs, Creates(proc[p], highest)
    PROVE  highest + 1 \in 1..MaxFiles
<1>1. p \in NewFiles
    BY DEF NewFiles, Creates
<1>2. IsFiniteSet(NewFiles)
    BY FiniteAssumption, FS_Subset DEF NewFiles
<1>3. PICK S : S = NewFiles
    OBVIOUS
<1>4. Cardinality({}) <= Cardinality(S) - 1 /\ Cardinality(S) \in Nat
    BY <1>1, <1>2, <1>3, Fewer
<1>5. Cardinality({}) = 0
    BY FS_EmptySet
<1>6. highest + Cardinality(S) <= MaxFiles
    BY <1>3 DEF IInv, BoundsOK
<1>. QED BY <1>4, <1>5, <1>6, HighestOK

\* The UIDs that a purge gives to mails whose records are gone are new.
LEMMA AgainOK ==
    ASSUME IInv, NEW p \in Procs, Savable(Cardinality(Gone(p)))
    PROVE  /\ Cardinality(Gone(p)) \in Nat
           /\ Again(p) \subseteq Uids
           /\ \A u \in Again(p) : /\ u \in Nat /\ nextUid <= u /\ u < nextUid + Cardinality(Gone(p))
                                   /\ u \notin DOMAIN map
<1>1. PICK k, S, c : k = Cardinality(Gone(p)) /\ S = Saving /\ c = Cardinality(S)
    OBVIOUS
<1>2. k \in Nat /\ c \in Nat
    <2>1. Gone(p) \subseteq Uids /\ IsFiniteSet(Uids)
        <3>1. proc[p].live \subseteq Uids
            BY Own DEF ProcRec
        <3>2. IsFiniteSet(Uids)
            BY BoundsAssumption, FS_Interval DEF Uids
        <3>. QED BY <3>1, <3>2 DEF Gone
    <2>2. IsFiniteSet(S)
        BY <1>1, FiniteAssumption, FS_Subset DEF Saving
    <2>. QED BY <1>1, <2>1, <2>2, FS_Subset, FS_CardinalityType
<1>3. nextUid \in Nat /\ nextUid >= 1 /\ MaxMails \in Nat /\ nextUid + c + k <= MaxMails + 1
    BY <1>1, BoundsAssumption DEF IInv, Types, Savable
<1>4. Again(p) = nextUid .. nextUid + k - 1
    BY <1>1 DEF Again
<1>5. ASSUME NEW u \in Again(p)
      PROVE  u \in Uids /\ u \in Nat /\ nextUid <= u /\ u < nextUid + k
    BY <1>2, <1>3, <1>4 DEF Uids
<1>6. \A u \in DOMAIN map : u \in Nat /\ u < nextUid
    BY DEF IInv, Types, Uids, MapOK
<1>7. ASSUME NEW u \in Again(p) PROVE u \notin DOMAIN map
    BY <1>3, <1>5, <1>6
<1>. QED BY <1>1, <1>2, <1>5, <1>7

LEMMA PurgeMoveOK ==
    ASSUME IInv, NEW p \in Procs, PurgeMove(p)
    PROVE  IInv'
<1>1. PICK t, live, dead, f, n : /\ t = proc[p].file /\ live = proc[p].live /\ dead = proc[p].dead
                                 /\ f = proc[p].purged /\ n = Cardinality(live)
    OBVIOUS
<1>k. PICK A, k, mails : A = Again(p) /\ k = Cardinality(Gone(p)) /\ mails = (live \intersect DOMAIN map) \union A
    OBVIOUS
<1>2. /\ ~noticed /\ proc[p].pc = "checked" /\ live # {} /\ Savable(k)
      /\ map' = [u \in (DOMAIN map \ dead) \union A |->
                    IF u \in A THEN [file |-> t, ref |-> 0]
                    ELSE IF u \in live THEN [map[u] EXCEPT !.file = t] ELSE map[u]]
      /\ highest' = Highest(t) /\ files' = Recorded(t, mails, n) /\ dirty' = FALSE
      /\ nextUid' = nextUid + k
      /\ mapLock' = NoProc /\ fileLock' = [fileLock EXCEPT ![t] = NoProc] /\ Go(p, "purged")
      /\ UNCHANGED boxes
      /\ UNCHANGED <<box, requests, boxLock, noticed, faults>>
    BY <1>1, <1>k DEF PurgeMove, At, boxes
<1>a. /\ k \in Nat /\ nextUid \in Nat /\ A \subseteq Uids
      /\ \A u \in A : u \in Nat /\ nextUid <= u /\ u < nextUid + k /\ u \notin DOMAIN map
    BY <1>2, <1>k, AgainOK DEF IInv, Types
<1>3. PICK r : r = proc'[p]
    OBVIOUS
<1>4. /\ r \in ProcRec /\ r.pc = "purged" /\ Moved(r, proc[p]) /\ proc' \in [Procs -> ProcRec]
      /\ \A q \in Others(p) : proc'[q] = proc[q]
    BY <1>2, <1>3, GoStep DEF Pcs
<1>5. /\ ProcOK(proc[p], highest) /\ proc[p].op = "purge" /\ f \in 1..highest /\ f # t
      /\ t \in Int /\ t > 0 /\ highest \in Nat /\ mapLock = p /\ live \subseteq Uids
    <2>1. /\ ProcOK(proc[p], highest) /\ proc[p].op = "purge" /\ f \in 1..highest /\ f # t
          /\ t # NoFile /\ t # NewFile /\ t >= NewFile
        BY <1>1, <1>2, Own DEF ProcOK, PurgePcs, Copying
    <2>2. t \in Int /\ highest \in Nat /\ mapLock = p /\ live \subseteq Uids
        BY <1>1, <1>2, Own DEF MapPcs, ProcRec
    <2>. QED BY <2>1, <2>2 DEF NoFile, NewFile
<1>6. /\ (t <= highest /\ fileLock[t] = p) \/ t = highest + 1
      /\ t \in DOMAIN files => files[t].unrecorded >= n
      /\ n \in Nat
    <2>1. Wrote(p, proc[p], n, fileLock, highest, noticed, files)
        BY <1>1, <1>2, <1>5, Own DEF WriterOK, Copying
    <2>2. n \in Nat
        BY <1>1, LiveOK
    <2>. QED BY <1>1, <1>2, <2>1, <2>2 DEF Wrote
<1>7. /\ f \in DOMAIN files /\ fileLock[f] = p
      /\ In(map, f) = (live \union dead) \intersect DOMAIN map
    BY <1>1, <1>2, Own DEF PurgeOK, Copying
<1>8. /\ highest' = IF t > highest THEN highest + 1 ELSE highest
      /\ t \in 1..highest' /\ highest' \in Nat /\ highest <= highest'
    BY <1>2, <1>5, <1>6 DEF Highest
<1>9. /\ DOMAIN map' = (DOMAIN map \ dead) \union A
      /\ \A u \in A : map'[u] \in MapRec /\ map'[u].file = t /\ map'[u].ref = 0
      /\ \A u \in DOMAIN map' \ A : /\ u \in DOMAIN map /\ map'[u] \in MapRec
                                    /\ map'[u].ref = map[u].ref
                                    /\ map'[u].file = IF u \in live THEN t ELSE map[u].file
      /\ map' \in [DOMAIN map' -> MapRec]
    <2>1. DOMAIN map' = (DOMAIN map \ dead) \union A
        BY <1>2
    <2>t. t \in Nat
        BY <1>5
    <2>2. ASSUME NEW u \in DOMAIN map' \ A
          PROVE  /\ u \in DOMAIN map /\ map'[u] \in MapRec /\ map'[u].ref = map[u].ref
                 /\ map'[u].file = IF u \in live THEN t ELSE map[u].file
        <3>1. u \in DOMAIN map /\ map[u] \in MapRec
            BY <2>1 DEF IInv, Types
        <3>2. PICK m : m = map[u]
            OBVIOUS
        <3>3. map'[u] = IF u \in live THEN [m EXCEPT !.file = t] ELSE m
            BY <1>2, <2>1, <3>2
        <3>. QED BY <2>t, <3>1, <3>2, <3>3 DEF MapRec
    <2>3. ASSUME NEW u \in A PROVE map'[u] \in MapRec /\ map'[u].file = t /\ map'[u].ref = 0
        <3>1. map'[u] = [file |-> t, ref |-> 0]
            BY <1>2, <2>1
        <3>. QED BY <2>t, <3>1 DEF MapRec
    <2>4. map' \in [DOMAIN map' -> MapRec]
        BY <1>2, <2>1, <2>2, <2>3
    <2>. QED BY <2>1, <2>2, <2>3, <2>4
<1>10. /\ DOMAIN files' = DOMAIN files /\ files' \in [DOMAIN files' -> FileRec]
       /\ \A g \in DOMAIN files : files[g].unrecorded \in Nat /\ (g # t => files'[g] = files[g])
    <2>1. Recordable(t, mails, n)
        BY <1>a, <1>k, <1>5, <1>6 DEF Recordable
    <2>2. OnlyIn(t, Recorded(t, mails, n))
        BY <2>1, RecordedOK
    <2>. QED BY <1>2, <2>2 DEF OnlyIn
<1>11. fileLock[t] \in {p, NoProc} \/ t \notin 1..MaxFiles
    <2>1. t = highest + 1 /\ t \in 1..MaxFiles => fileLock[t] = NoProc
        BY <1>5 DEF IInv, LocksOK
    <2>. QED BY <1>6, <2>1
<1>12. /\ fileLock' \in [1..MaxFiles -> Procs \union {NoProc}]
       /\ \A g \in 1..MaxFiles : fileLock'[g] # NoProc => g <= highest
       /\ \A q \in Others(p), g \in 1..MaxFiles : fileLock'[g] = q <=> fileLock[g] = q
       /\ fileLock'[f] = p
    <2>1. fileLock \in [1..MaxFiles -> Procs \union {NoProc}] /\ f \in 1..MaxFiles
        BY <1>7 DEF IInv, Types
    <2>2. fileLock' \in [1..MaxFiles -> Procs \union {NoProc}]
        BY <1>2, <2>1
    <2>3. \A g \in 1..MaxFiles : fileLock'[g] = IF g = t THEN NoProc ELSE fileLock[g]
        BY <1>2, <2>1
    <2>4. \A g \in 1..MaxFiles : fileLock[g] # NoProc => g <= highest
        BY DEF IInv, LocksOK
    <2>5. \A q \in Others(p), g \in 1..MaxFiles : fileLock'[g] = q <=> fileLock[g] = q
        BY <1>11, <2>3, NoProcAssumption DEF Others
    <2>. QED BY <1>5, <1>7, <2>1, <2>2, <2>3, <2>4, <2>5
<1>13. Types'
    <2>1. DOMAIN map' \subseteq Uids
        BY <1>a, <1>9 DEF IInv, Types
    <2>2. nextUid' \in Nat \ {0}
        BY <1>a, <1>2 DEF IInv, Types
    <2>. QED BY <1>2, <1>4, <1>8, <1>9, <1>10, <1>12, <2>1, <2>2 DEF IInv, Types
<1>14. MapOK'
    <2>1. ASSUME NEW u \in DOMAIN map'
          PROVE  u < nextUid' /\ map'[u].file \in 1..highest' /\ map'[u].ref < RefLimit
        <3>1. CASE u \in A
            BY <1>a, <1>2, <1>8, <1>9, <3>1, BoundsAssumption
        <3>2. CASE u \notin A
            <4>1. u < nextUid /\ map[u].file \in 1..highest /\ map[u].ref < RefLimit /\ u \in Nat
                BY <1>9, <3>2 DEF IInv, MapOK, Types, Uids
            <4>2. u < nextUid'
                BY <1>a, <1>2, <4>1
            <4>. QED BY <1>5, <1>8, <1>9, <3>2, <4>1, <4>2
        <3>. QED BY <3>1, <3>2
    <2>. QED BY <2>1 DEF MapOK
<1>15. BoxesOK' /\ RequestsStay(p) /\ LocksStay(p) /\ MapStays(p)
    <2>1. MapStays(p)
        BY <1>a, <1>2, <1>5, <1>8 DEF MapStays
    <2>2. LocksStay(p)
        BY <1>2, <1>5, <1>12, NoProcAssumption DEF LocksStay, Others
    <2>. QED BY <1>2, <2>1, <2>2, SameBoxes
<1>16. PurgesStay(p)
    <2>1. \A q \in Others(p) : /\ PurgeOK(q, proc[q], fileLock, files, map, nextUid, noticed)
                               /\ ProcOK(proc[q], highest)
        BY DEF IInv, PartsOK, Others
    <2>2. ASSUME NEW q \in Others(p), proc[q].pc \in Copying
          PROVE  /\ proc[q].purged \in DOMAIN files'
                 /\ In(map', proc[q].purged) =
                       (proc[q].live \union proc[q].dead) \intersect DOMAIN map'
        <3>1. PICK g, B : g = proc[q].purged /\ B = proc[q].live \union proc[q].dead
            OBVIOUS
        <3>2. /\ g \in DOMAIN files /\ fileLock[g] = q /\ g \in 1..highest
              /\ In(map, g) = B \intersect DOMAIN map /\ \A u \in B : u < nextUid
            BY <2>1, <2>2, <3>1 DEF PurgeOK, ProcOK, Copying, PurgePcs
        <3>3. g # f /\ g # t
            BY <1>5, <1>6, <1>7, <3>2 DEF Others
        <3>b. B \subseteq Uids
            BY <3>1 DEF IInv, Types, ProcRec, Others
        <3>4. A \intersect B = {}
            BY <1>a, <3>2, <3>b DEF Uids
        <3>5. ASSUME NEW u \in DOMAIN map' PROVE map'[u].file = g <=> u \in B
            <4>1. CASE u \in A
                BY <1>9, <3>3, <3>4, <4>1
            <4>2. CASE u \notin A
                <5>1. u \in DOMAIN map /\ map'[u].file = IF u \in live THEN t ELSE map[u].file
                    BY <1>9, <4>2
                <5>2. map[u].file = g <=> u \in B
                    BY <3>2, <5>1 DEF In
                <5>3. u \in live => map[u].file = f
                    BY <1>7, <5>1 DEF In
                <5>. QED BY <3>3, <5>1, <5>2, <5>3
            <4>. QED BY <4>1, <4>2
        <3>6. In(map', g) = B \intersect DOMAIN map'
            BY <3>5 DEF In
        <3>. QED BY <1>10, <3>1, <3>2, <3>6
    <2>. QED BY <1>10, <2>2 DEF PurgesStay
<1>17. WritesStay(p)
    <2>1. ASSUME NEW q \in Others(p), NEW g \in DOMAIN files',
                 fileLock[g] = q \/ (g = highest + 1 /\ mapLock = q)
          PROVE  g \in DOMAIN files /\ files'[g].unrecorded >= files[g].unrecorded
        <3>1. fileLock[g] = q /\ q # p /\ q # NoProc /\ g \in DOMAIN files /\ g \in 1..MaxFiles
            BY <1>5, <1>10, <2>1, NoProcAssumption, SameFiles DEF Others
        <3>2. g # t
            BY <1>11, <3>1
        <3>. QED BY <1>10, <3>1, <3>2
    <2>. QED BY <2>1 DEF WritesStay
<1>18. OwnLocks(p)
    <2>1. \A c \in Boxes : boxLock[c] # p
        BY <1>2, Own DEF BoxPcs
    <2>2. \A g \in 1..MaxFiles : fileLock'[g] # NoProc => g <= highest'
        BY <1>5, <1>8, <1>12
    <2>. QED BY <1>2, <1>3, <1>4, <2>1, <2>2, NoProcAssumption DEF OwnLocks, MapPcs
<1>19. OwnOK(p)
    <2>1. ProcOK(r, highest')
        BY <1>1, <1>4, <1>5, <1>8 DEF ProcOK, Moved, PurgePcs, Copying, NewFile
    <2>2. RefsOK(p, r, boxLock', requests', map')
        BY <1>4 DEF RefsOK
    <2>3. WriterOK(p, r, fileLock', highest', noticed', files')
        BY <1>4, <1>5 DEF WriterOK, Moved, Copying
    <2>4. PurgeOK(p, r, fileLock', files', map', nextUid', noticed')
        BY <1>1, <1>4, <1>12 DEF PurgeOK, Moved, Copying
    <2>5. CreatorOK(p, proc', fileLock', map')
        BY <1>3, <1>4 DEF CreatorOK, Creator
    <2>. QED BY <1>3, <1>4, <2>1, <2>2, <2>3, <2>4, <2>5 DEF OwnOK
<1>20. PurgeFound(p)
    BY <1>3, <1>4, <1>5 DEF PurgeFound, Moved
<1>21. BoundsOK'
    <2>1. ~Saves(r) /\ ~Creates(r, highest')
        BY <1>1, <1>4, <1>5, <1>8 DEF Saves, Creates, Moved, NewFile
    <2>2. t > highest => Creates(proc[p], highest)
        BY <1>1 DEF Creates
    <2>3. \/ highest' = highest /\ (Creates(proc'[p], highest) => Creates(proc[p], highest) \/ Creatable)
          \/ highest' = highest + 1 /\ Creates(proc[p], highest) /\ ~Creates(proc'[p], highest')
        BY <1>3, <1>8, <2>1, <2>2
    <2>4. \E i \in Nat : nextUid' = nextUid + i /\ Savable(i) /\ ~Saves(proc'[p])
        BY <1>a, <1>2, <1>3, <2>1
    <2>. QED BY <1>3, <1>4, <1>15, <2>3, <2>4, CountsOK
<1>. QED BY <1>2, <1>13, <1>14, <1>15, <1>16, <1>17, <1>18, <1>19, <1>20, <1>21, StepOK

LEMMA AssignOK ==
    ASSUME IInv, NEW p \in Procs, Assign(p)
    PROVE  IInv'
<1>. DEFINE new == proc[p].file = NewFile
<1>1. PICK f, u0 : f = FileId(proc[p].file) /\ u0 = nextUid
    OBVIOUS
<1>2. /\ ~noticed /\ proc[p].pc = "synced" /\ proc[p].op = "deliver" /\ proc[p].file # NoFile
      /\ proc[p].mail = NoMail
      /\ noticed' = (new /\ f \in DOMAIN files)
      /\ map' = Added(map, u0, [file |-> f, ref |-> 1])
      /\ nextUid' = u0 + 1 /\ highest' = Highest(f) /\ dirty' = TRUE
      /\ files' = IF new THEN Created(f, {u0}, 0) ELSE Recorded(f, {u0}, 1)
      /\ proc' = [proc EXCEPT ![p].mail = u0, ![p].file = f]
      /\ UNCHANGED boxes
      /\ UNCHANGED <<box, requests, mapLock, boxLock, fileLock, faults>>
    BY <1>1 DEF Assign, At, boxes, locks
<1>3. /\ ProcOK(proc[p], highest) /\ proc[p] \in ProcRec /\ highest \in Nat /\ proc[p].file \in Int
      /\ mapLock = p /\ ~(proc[p].file > highest) /\ proc[p].file >= NewFile
      /\ MaxMails \in Nat /\ MaxFiles \in Nat /\ RefLimit \in Nat /\ RefLimit > 1
    <2>1. ProcOK(proc[p], highest) /\ ~(proc[p].file > highest) /\ proc[p].file >= NewFile
        BY <1>2, Own DEF ProcOK
    <2>2. MaxMails \in Nat /\ MaxFiles \in Nat /\ RefLimit \in Nat /\ RefLimit > 1
        BY BoundsAssumption
    <2>3. proc[p] \in ProcRec /\ highest \in Nat /\ proc[p].file \in Int /\ mapLock = p
        BY <1>2, Own DEF MapPcs
    <2>. QED BY <2>1, <2>2, <2>3
<1>4. u0 \in Uids /\ u0 \in Nat /\ u0 # 0 /\ u0 \notin DOMAIN map
    <2>1. p \in Saving
        BY <1>2 DEF Saving
    <2>2. IsFiniteSet(Saving)
        BY FiniteAssumption, FS_Subset DEF Saving
    <2>3. PICK S : S = Saving
        OBVIOUS
    <2>4. Cardinality({}) <= Cardinality(S) - 1 /\ Cardinality(S) \in Nat
        BY <2>1, <2>2, <2>3, Fewer
    <2>5. Cardinality({}) = 0
        BY FS_EmptySet
    <2>6. u0 + Cardinality(S) <= MaxMails + 1 /\ u0 \in Nat \ {0}
        BY <1>1, <2>3 DEF IInv, BoundsOK, Types
    <2>7. u0 \in Uids
        BY <1>3, <2>4, <2>5, <2>6 DEF Uids
    <2>8. u0 \notin DOMAIN map
        <3>1. SUFFICES ASSUME u0 \in DOMAIN map PROVE FALSE
            OBVIOUS
        <3>2. u0 < nextUid
            BY <3>1 DEF IInv, MapOK
        <3>. QED BY <1>1, <2>6, <3>2
    <2>. QED BY <2>6, <2>7, <2>8
<1>5. new => f = highest + 1 /\ f \in 1..MaxFiles
    <2>1. ASSUME new PROVE highest + 1 \in 1..MaxFiles
        <3>1. Creates(proc[p], highest)
            BY <2>1 DEF Creates
        <3>. QED BY <3>1, NewFileOK
    <2>. QED BY <1>1, <2>1 DEF FileId
<1>6. ~new => /\ f = proc[p].file /\ f \in 1..highest /\ fileLock[f] = p
              /\ f \in DOMAIN files => files[f].unrecorded >= 1
    <2>1. ASSUME ~new
          PROVE  /\ f = proc[p].file /\ f \in 1..highest /\ fileLock[f] = p
                 /\ f \in DOMAIN files => files[f].unrecorded >= 1
        <3>1. f = proc[p].file /\ f > 0 /\ f \in Int
            BY <1>1, <1>2, <1>3, <2>1 DEF FileId, NewFile, NoFile
        <3>2. Wrote(p, proc[p], 1, fileLock, highest, noticed, files)
            BY <1>2, <3>1, Own DEF WriterOK
        <3>. QED BY <1>2, <1>3, <3>1, <3>2 DEF Wrote
    <2>. QED BY <2>1
<1>7. /\ f \in Nat /\ f > 0 /\ highest' \in Nat /\ highest <= highest' /\ f \in 1..highest'
      /\ highest' = IF new THEN highest + 1 ELSE highest
    BY <1>2, <1>3, <1>5, <1>6 DEF Highest
<1>8. PICK r0, r : r0 = proc[p] /\ r = [r0 EXCEPT !.mail = u0, !.file = f]
    OBVIOUS
<1>9. r \in ProcRec /\ r.pc = "synced" /\ r.op = "deliver" /\ r.file = f /\ r.mail = u0
    <2>1. u0 \in Int /\ f \in Int
        BY <1>4, <1>7
    <2>. QED BY <1>2, <1>3, <1>8, <2>1 DEF ProcRec, Pcs
<1>10. /\ proc' \in [Procs -> ProcRec] /\ proc'[p] = r
       /\ \A q \in Others(p) : proc'[q] = proc[q]
    <2>1. proc' = [proc EXCEPT ![p] = r]
        BY <1>2, <1>8 DEF IInv, Types
    <2>. QED BY <1>9, <2>1, ProcStep
<1>11. /\ DOMAIN map' = DOMAIN map \union {u0} /\ map' \in [DOMAIN map' -> MapRec]
       /\ map'[u0].file = f /\ map'[u0].ref = 1
       /\ \A u \in DOMAIN map : map'[u] = map[u] /\ u # u0
    <2>1. PICK m : m = [file |-> f, ref |-> 1]
        OBVIOUS
    <2>2. m \in MapRec /\ m.file = f /\ m.ref = 1
        BY <1>7, <2>1 DEF MapRec
    <2>3. map' = [y \in DOMAIN map \union {u0} |-> IF y \in DOMAIN map THEN map[y] ELSE m]
        BY <1>2, <2>1 DEF Added
    <2>4. map \in [DOMAIN map -> MapRec]
        BY DEF IInv, Types
    <2>. QED BY <1>4, <2>2, <2>3, <2>4
<1>12. /\ DOMAIN files \subseteq DOMAIN files' /\ files' \in [DOMAIN files' -> FileRec]
       /\ \A g \in DOMAIN files' : g \in DOMAIN files \/ (new /\ g = f)
       /\ \A g \in DOMAIN files : files[g].unrecorded \in Nat /\ (g # f => files'[g] = files[g])
       /\ DOMAIN files' \subseteq 1..MaxFiles
    <2>2. CASE new
        <3>1. Creation(f, {u0}, 0)
            BY <1>4, <1>5, <2>2 DEF Creation
        <3>2. OnlyNew(f, 0, Created(f, {u0}, 0))
            BY <3>1, CreatedOK
        <3>3. OnlyNew(f, 0, files')
            BY <1>2, <2>2, <3>2
        <3>. QED BY <1>5, <2>2, <3>3, SameFiles DEF OnlyNew
    <2>3. CASE ~new
        <3>1. files' = Recorded(f, {u0}, 1)
            BY <1>2, <2>3
        <3>2. Recordable(f, {u0}, 1)
            BY <1>4, <1>6, <2>3 DEF Recordable
        <3>3. OnlyIn(f, Recorded(f, {u0}, 1))
            BY <3>2, RecordedOK
        <3>4. /\ DOMAIN files' = DOMAIN files /\ files' \in [DOMAIN files' -> FileRec]
              /\ \A g \in DOMAIN files : files[g].unrecorded \in Nat /\ (g # f => files'[g] = files[g])
            BY <3>1, <3>3 DEF OnlyIn
        <3>. QED BY <3>4, SameFiles
    <2>. QED BY <2>2, <2>3
<1>13. Types'
    <2>1. noticed' \in BOOLEAN /\ dirty' \in BOOLEAN
        BY <1>2
    <2>2. DOMAIN map' \subseteq Uids /\ nextUid' \in Nat \ {0}
        BY <1>2, <1>4, <1>11 DEF IInv, Types
    <2>. QED BY <1>2, <1>7, <1>10, <1>11, <1>12, <2>1, <2>2 DEF IInv, Types
<1>14. MapOK'
    <2>1. ASSUME NEW u \in DOMAIN map'
          PROVE  u < nextUid' /\ map'[u].file \in 1..highest' /\ map'[u].ref < RefLimit
        <3>1. CASE u = u0
            BY <1>2, <1>3, <1>4, <1>7, <1>11, <3>1
        <3>2. CASE u \in DOMAIN map
            <4>1. /\ u < nextUid /\ map[u].file \in 1..highest /\ map[u].ref < RefLimit
                  /\ u \in Nat
                BY <3>2 DEF IInv, MapOK, Types, Uids
            <4>. QED BY <1>1, <1>2, <1>3, <1>4, <1>7, <1>11, <3>2, <4>1
        <3>. QED BY <1>11, <3>1, <3>2
    <2>. QED BY <2>1 DEF MapOK
<1>15. BoxesOK' /\ RequestsStay(p) /\ LocksStay(p) /\ MapStays(p)
    <2>1. MapStays(p)
        BY <1>1, <1>2, <1>3, <1>4, <1>7 DEF MapStays
    <2>2. LocksStay(p)
        BY <1>2 DEF LocksStay
    <2>. QED BY <1>2, <2>1, <2>2, SameBoxes
<1>16. \A g \in 1..MaxFiles : fileLock[g] \notin {p, NoProc} => g # f /\ g <= highest
    <2>1. \A g \in 1..MaxFiles : fileLock[g] # NoProc => g <= highest
        BY DEF IInv, LocksOK
    <2>. QED BY <1>3, <1>5, <1>6, <2>1
<1>17. PurgesStay(p)
    <2>1. \A q \in Others(p) : PurgeOK(q, proc[q], fileLock, files, map, nextUid, noticed)
        BY DEF IInv, PartsOK, Others
    <2>2. ASSUME NEW q \in Others(p), proc[q].pc \in Copying
          PROVE  /\ proc[q].purged \in DOMAIN files'
                 /\ In(map', proc[q].purged) =
                       (proc[q].live \union proc[q].dead) \intersect DOMAIN map'
        <3>1. PICK g, B : g = proc[q].purged /\ B = proc[q].live \union proc[q].dead
            OBVIOUS
        <3>2. /\ g \in DOMAIN files /\ fileLock[g] = q /\ In(map, g) = B \intersect DOMAIN map
              /\ \A u \in B : u < nextUid
            BY <2>1, <2>2, <3>1 DEF PurgeOK
        <3>3. g # f
            BY <1>16, <3>2, NoProcAssumption, SameFiles DEF Others
        <3>4. u0 \notin B
            BY <1>1, <1>4, <3>2
        <3>5. In(map', g) = In(map, g)
            BY <1>11, <3>3 DEF In
        <3>6. B \intersect DOMAIN map' = B \intersect DOMAIN map
            BY <1>11, <3>4
        <3>. QED BY <1>12, <3>1, <3>2, <3>5, <3>6
    <2>4. \A g \in 1..highest : g \in DOMAIN files' => g \in DOMAIN files
        BY <1>3, <1>5, <1>12
    <2>. QED BY <2>2, <2>4 DEF PurgesStay
<1>18. WritesStay(p)
    <2>1. ASSUME NEW q \in Others(p), NEW g \in DOMAIN files',
                 fileLock[g] = q \/ (g = highest + 1 /\ mapLock = q)
          PROVE  g \in DOMAIN files /\ files'[g].unrecorded >= files[g].unrecorded
        <3>1. fileLock[g] = q /\ q # p /\ q # NoProc /\ g \in 1..MaxFiles
            BY <1>3, <1>12, <2>1, NoProcAssumption DEF Others
        <3>2. g # f
            BY <1>16, <3>1
        <3>. QED BY <1>12, <3>2
    <2>. QED BY <2>1 DEF WritesStay
<1>19. OwnLocks(p)
    <2>1. \A c \in Boxes : boxLock[c] = p => proc[p].pc \in BoxPcs
        BY Own
    <2>2. \A g \in 1..MaxFiles : fileLock[g] # NoProc => g <= highest'
        <3>1. \A g \in 1..MaxFiles : fileLock[g] # NoProc => g <= highest
            BY DEF IInv, LocksOK
        <3>. QED BY <1>3, <1>7, <3>1
    <2>. QED BY <1>2, <1>3, <1>9, <1>10, <2>1, <2>2 DEF OwnLocks, MapPcs
<1>20. OwnOK(p)
    <2>1. ProcOK(r, highest')
        BY <1>4, <1>7, <1>9 DEF ProcOK, PurgePcs, Copying, NewFile, NoMail
    <2>2. RefsOK(p, r, boxLock', requests', map')
        BY <1>9 DEF RefsOK
    <2>3. WriterOK(p, r, fileLock', highest', noticed', files')
        BY <1>4, <1>9 DEF WriterOK, Copying, NoMail
    <2>4. PurgeOK(p, r, fileLock', files', map', nextUid', noticed')
        BY <1>9 DEF PurgeOK, Copying
    <2>5. CreatorOK(p, proc', fileLock', map')
        <3>1. SUFFICES ASSUME fileLock[f] # p
                       PROVE  /\ \A u \in In(map', f) : map'[u].ref > 0
                              /\ \A q \in Procs : proc'[q].op = "purge" => proc'[q].purged # f
            BY <1>2, <1>9, <1>10 DEF CreatorOK, Creator
        <3>2. f = highest + 1
            BY <1>5, <1>6, <3>1
        <3>3. \A u \in DOMAIN map : map[u].file # f
            BY <1>3, <3>2 DEF IInv, MapOK
        <3>4. \A u \in In(map', f) : map'[u].ref > 0
            BY <1>11, <3>3 DEF In
        <3>5. \A q \in Others(p) : proc[q].op = "purge" => proc[q].purged \in 1..highest
            BY DEF IInv, PartsOK, ProcOK, Others
        <3>6. \A q \in Others(p) : proc[q].op = "purge" => proc[q].purged # f
            BY <1>3, <3>2, <3>5
        <3>. QED BY <1>9, <1>10, <3>4, <3>6 DEF Others
    <2>. QED BY <1>10, <2>1, <2>2, <2>3, <2>4, <2>5 DEF OwnOK
<1>21. PurgeFound(p)
    BY <1>9, <1>10 DEF PurgeFound
<1>22. BoundsOK'
    <2>1. ~Saves(r) /\ ~Creates(r, highest') /\ Saves(proc[p])
        BY <1>2, <1>4, <1>7, <1>9 DEF Saves, Creates, NewFile, NoMail
    <2>2. new => Creates(proc[p], highest)
        BY DEF Creates
    <2>3. \/ highest' = highest /\ (Creates(proc'[p], highest) => Creates(proc[p], highest) \/ Creatable)
          \/ highest' = highest + 1 /\ Creates(proc[p], highest) /\ ~Creates(proc'[p], highest')
        BY <1>7, <1>10, <2>1, <2>2
    <2>. QED BY <1>1, <1>2, <1>10, <1>15, <2>1, <2>3, CountsOK
<1>. QED BY <1>2, <1>13, <1>14, <1>15, <1>17, <1>18, <1>19, <1>20, <1>21, <1>22, StepOK

-----------------------------------------------------------------------------
(* A request, no step at all, and the beginning.                           *)

LEMMA RequestOK ==
    ASSUME IInv, NEW b \in Boxes, NEW u \in Uids, Request(b, u)
    PROVE  IInv'
<1>1. /\ requests[b][u] < box[b][u]
      /\ requests' = [requests EXCEPT ![b][u] = @ + 1]
      /\ UNCHANGED <<map, nextUid, highest, dirty, files, box, mapLock, boxLock, fileLock, proc,
                     noticed, faults>>
    BY DEF Request, mapvars, locks, history
<1>2. requests \in [Boxes -> [Uids -> Nat]] /\ box \in [Boxes -> [Uids -> Nat]]
    BY DEF IInv, Types
<1>3. PICK R : R = [requests[b] EXCEPT ![u] = @ + 1]
    OBVIOUS
<1>4. R \in [Uids -> Nat] /\ requests' = [requests EXCEPT ![b] = R]
    BY <1>1, <1>2, <1>3
<1>5. /\ requests' \in [Boxes -> [Uids -> Nat]]
      /\ \A c \in Boxes, v \in Uids : /\ requests[c][v] <= requests'[c][v]
                                      /\ requests'[c][v] <= box[c][v]
    <2>1. requests' \in [Boxes -> [Uids -> Nat]]
        BY <1>2, <1>4
    <2>2. ASSUME NEW c \in Boxes, NEW v \in Uids
          PROVE  requests[c][v] <= requests'[c][v] /\ requests'[c][v] <= box[c][v]
        <3>1. /\ requests[c][v] \in Nat /\ box[c][v] \in Nat /\ requests[c][v] <= box[c][v]
            BY <1>2 DEF IInv, BoxesOK
        <3>2. requests'[c][v] = IF c = b /\ v = u THEN requests[c][v] + 1 ELSE requests[c][v]
            BY <1>2, <1>3, <1>4
        <3>. QED BY <1>1, <3>1, <3>2
    <2>. QED BY <2>1, <2>2
<1>6. Types' /\ MapOK' /\ BoxesOK' /\ LocksOK' /\ BoundsOK'
    <2>1. Types' /\ MapOK'
        BY <1>1, <1>5 DEF IInv, Types, MapOK
    <2>2. BoxesOK' /\ LocksOK'
        BY <1>1, <1>5 DEF IInv, BoxesOK, LocksOK
    <2>3. BoundsOK'
        BY <1>1 DEF IInv, BoundsOK, Saving, NewFiles
    <2>. QED BY <2>1, <2>2, <2>3
<1>7. ASSUME NEW p \in Procs
      PROVE  PartsOK(p, proc', boxLock', fileLock', highest', noticed', requests', files', map', nextUid')
    <2>1. RefsOK(p, proc[p], boxLock, requests', map)
        <3>1. RefsOK(p, proc[p], boxLock, requests, map) /\ proc[p].box \in Boxes /\ proc[p] \in ProcRec
            BY Own
        <3>2. ASSUME proc[p].pc = "refs", NEW v \in Uids
              PROVE  proc[p].todo[v] <= requests'[proc[p].box][v]
            <4>1. proc[p].todo[v] <= requests[proc[p].box][v]
                BY <3>1, <3>2 DEF RefsOK
            <4>2. requests[proc[p].box][v] <= requests'[proc[p].box][v]
                BY <1>5, <3>1
            <4>3. /\ proc[p].todo[v] \in Nat /\ requests[proc[p].box][v] \in Nat
                  /\ requests'[proc[p].box][v] \in Nat
                BY <1>2, <1>5, <3>1 DEF ProcRec
            <4>. QED BY <4>1, <4>2, <4>3
        <3>. QED BY <3>1, <3>2 DEF RefsOK
    <2>. QED BY <1>1, <2>1, Own DEF PartsOK
<1>. QED BY <1>6, <1>7 DEF IInv

LEMMA StutterOK ==
    ASSUME IInv, UNCHANGED vars
    PROVE  IInv'
<1>1. UNCHANGED <<map, nextUid, highest, dirty, files, box, requests, mapLock, boxLock,
                  fileLock, proc, noticed, faults, exposed>>
    BY DEF vars
<1>2. Types' /\ MapOK' /\ BoxesOK' /\ LocksOK' /\ BoundsOK'
    <2>1. Types' /\ MapOK'
        BY <1>1 DEF IInv, Types, MapOK
    <2>2. BoxesOK' /\ LocksOK'
        BY <1>1 DEF IInv, BoxesOK, LocksOK
    <2>3. BoundsOK'
        BY <1>1 DEF IInv, BoundsOK, Saving, NewFiles
    <2>. QED BY <2>1, <2>2, <2>3
<1>. QED BY <1>1, <1>2 DEF IInv

LEMMA InitOK ==
    ASSUME Init
    PROVE  IInv
<1>1. /\ DOMAIN map = {} /\ map \in [DOMAIN map -> MapRec]
      /\ DOMAIN files = {} /\ files \in [DOMAIN files -> FileRec]
    <2>1. PICK e : e = <<>>
        OBVIOUS
    <2>2. DOMAIN e = {} /\ e = [x \in {} |-> 0]
        BY <2>1
    <2>3. map = e /\ files = e
        BY <2>1 DEF Init
    <2>. QED BY <2>2, <2>3
<1>2. proc \in [Procs -> ProcRec] /\ \A p \in Procs : proc[p] = Idle
    BY IdleRec DEF Init
<1>3. NoRequests \in [Uids -> Nat] /\ \A u \in Uids : NoRequests[u] = 0
    BY DEF NoRequests
<1>4. Types
    <2>1. /\ nextUid = 1 /\ highest = 0 /\ dirty = FALSE /\ noticed = FALSE /\ faults = 0
          /\ mapLock = NoProc
        BY DEF Init
    <2>2. box \in [Boxes -> [Uids -> Nat]] /\ requests \in [Boxes -> [Uids -> Nat]]
        BY <1>3 DEF Init
    <2>3. /\ boxLock \in [Boxes -> Procs \union {NoProc}]
          /\ fileLock \in [1..MaxFiles -> Procs \union {NoProc}]
        BY DEF Init
    <2>4. /\ map \in [DOMAIN map -> MapRec] /\ files \in [DOMAIN files -> FileRec]
          /\ DOMAIN map \subseteq Uids /\ DOMAIN files \subseteq 1..MaxFiles
        BY <1>1
    <2>5. nextUid \in Nat \ {0} /\ highest \in Nat /\ mapLock \in Procs \union {NoProc} /\ faults \in Nat
        BY <2>1
    <2>6. dirty \in BOOLEAN /\ noticed \in BOOLEAN
        BY <2>1
    <2>. QED BY <1>2, <2>2, <2>3, <2>4, <2>5, <2>6 DEF Types
<1>5. MapOK
    BY <1>1 DEF MapOK
<1>6. BoxesOK
    BY <1>3 DEF Init, BoxesOK
<1>7. LocksOK
    BY <1>2, IdleRec, NoProcAssumption DEF Init, LocksOK, MapPcs
<1>8. BoundsOK
    <2>1. Saving = {} /\ NewFiles = {}
        BY <1>2, IdleRec DEF Init, Saving, NewFiles, NewFile
    <2>2. Cardinality({}) = 0
        BY FS_EmptySet
    <2>3. MaxMails \in Nat /\ MaxFiles \in Nat
        BY BoundsAssumption
    <2>. QED BY <2>1, <2>2, <2>3 DEF Init, BoundsOK
<1>9. ASSUME NEW p \in Procs
      PROVE  PartsOK(p, proc, boxLock, fileLock, highest, noticed, requests, files, map, nextUid)
    <2>1. highest \in Nat /\ proc[p] = Idle
        BY <1>2 DEF Init
    <2>. QED BY <2>1, IdleOK DEF PartsOK
<1>. QED BY <1>4, <1>5, <1>6, <1>7, <1>8, <1>9 DEF IInv

-----------------------------------------------------------------------------
LEMMA NextOK ==
    ASSUME IInv, [Next]_vars
    PROVE  IInv'
<1>1. ASSUME NEW p \in Procs, NEW b \in Boxes, Write(p, b) \/ SyncTry(p, b) PROVE IInv'
    BY <1>1, WriteOK, SyncTryOK
<1>2. ASSUME NEW p \in Procs,
             \/ LockMap(p) \/ SyncMap(p) \/ SyncBox(p) \/ SyncRelease(p)
             \/ SyncFinish(p) \/ Finish(p)
      PROVE  IInv'
    BY <1>2, LockMapOK, SyncMapOK, SyncBoxOK, SyncReleaseOK, SyncFinishOK, FinishOK
<1>3. ASSUME NEW p \in Procs,
             Assign(p) \/ Append(p) \/ Rollback(p) \/ Commit(p) \/ CommitFails(p)
      PROVE  IInv'
    BY <1>3, AssignOK, AppendOK, RollbackOK, CommitOK, CommitFailsOK
<1>4. ASSUME NEW p \in Procs,
             \/ PurgeScan(p) \/ PurgeMissing(p) \/ PurgeUnopened(p) \/ PurgeBusy(p)
             \/ PurgeFile(p) \/ PurgeCheck(p) \/ PurgeCancel(p) \/ PurgeMove(p) \/ PurgeAll(p)
      PROVE  IInv'
    BY <1>4, PurgeScanOK, PurgeMissingOK, PurgeBusyOK, PurgeFileOK, PurgeCheckOK, PurgeCancelOK,
       PurgeMoveOK, PurgeAllOK
<1>5. ASSUME NEW p \in Procs, PurgeUnlink(p) \/ RemoveScan(p) \/ Remove(p) \/ Crash(p)
      PROVE  IInv'
    BY <1>5, PurgeUnlinkOK, RemoveScanOK, RemoveOK, CrashOK
<1>6. ASSUME NEW b \in Boxes, NEW u \in Uids, Request(b, u) PROVE IInv'
    BY <1>6, RequestOK
<1>7. ASSUME Over \/ UNCHANGED vars PROVE IInv'
    BY <1>7, StutterOK DEF Over
<1>. QED BY <1>1, <1>2, <1>3, <1>4, <1>5, <1>6, <1>7 DEF Next

\* The inductive invariant holds in every state of every behaviour.
THEOREM Invariance == Spec => []IInv
<1>1. Init => IInv
    BY InitOK
<1>2. IInv /\ [Next]_vars => IInv'
    BY NextOK
<1>. QED BY <1>1, <1>2, PTL DEF Spec

\* The map, the files and the mailboxes stay well formed, and however many
\* processes copy a mail at once, its reference count stays below the limit
\* that mdbox_map_update_refcount() sets.
THEOREM TypesHold == Spec => []TypeOK
<1>1. IInv => TypeOK
    <2>. SUFFICES ASSUME IInv PROVE TypeOK
        OBVIOUS
    <2>2. /\ highest \in Nat /\ highest <= MaxFiles /\ MaxFiles \in Nat /\ RefLimit \in Nat
          /\ MaxMails \in Nat
        BY HighestOK, BoundsAssumption
    <2>3. ASSUME NEW u \in DOMAIN map
          PROVE  map[u].file \in 1..MaxFiles /\ map[u].ref \in 0..RefLimit - 1
        <3>1. map[u].file \in 1..highest /\ map[u].ref < RefLimit /\ map[u].ref \in Nat
            BY DEF IInv, MapOK, Types, MapRec
        <3>. QED BY <2>2, <3>1
    <2>4. nextUid \in 1..MaxMails + 1
        <3>1. IsFiniteSet(Saving)
            BY FiniteAssumption, FS_Subset DEF Saving
        <3>2. Cardinality(Saving) \in Nat
            BY <3>1, FS_CardinalityType
        <3>. QED BY <2>2, <3>2 DEF IInv, Types, BoundsOK
    <2>5. highest \in 0..MaxFiles
        BY <2>2
    <2>6. DOMAIN map \subseteq Uids /\ DOMAIN files \subseteq 1..MaxFiles /\ mapLock \in Procs \union {NoProc}
        BY DEF IInv, Types
    <2>7. \A f \in DOMAIN files : files[f].mails \subseteq Uids /\ files[f].unrecorded \in Nat
        BY DEF IInv, Types, FileRec
    <2>8. \A b \in Boxes, u \in Uids : requests[b][u] \in Nat /\ requests[b][u] <= box[b][u]
        BY DEF IInv, Types, BoxesOK
    <2>9. {dirty, noticed} \subseteq BOOLEAN
        BY DEF IInv, Types
    <2>. QED BY <2>3, <2>4, <2>5, <2>6, <2>7, <2>8, <2>9 DEF TypeOK
<1>. QED BY <1>1, Invariance, PTL

\* What mdbox_file_purge() has read from the unlocked map about the file that
\* it purges is still right when it has locked the map, but for records that
\* have vanished: the lock of the file is enough to keep other mails out of the
\* file and its own from being moved, whatever the others save, copy, expunge,
\* purge or roll back.  Once the map is locked no record that it is going to
\* expunge is missing, unless the storage is marked corrupted.
THEOREM PurgeAlwaysSeesFile == Spec => []PurgeSeesFile
<1>1. IInv => PurgeSeesFile
    <2>1. SUFFICES ASSUME IInv, ~noticed, NEW p \in Procs, proc[p].pc \in {"copied", "checked"}
                   PROVE  /\ RecordsIn(proc[p].purged) =
                                (proc[p].live \union proc[p].dead) \intersect DOMAIN map
                          /\ proc[p].pc = "checked" => proc[p].dead \subseteq DOMAIN map
        BY DEF PurgeSeesFile
    <2>2. PurgeOK(p, proc[p], fileLock, files, map, nextUid, noticed)
        BY <2>1, Own
    <2>. QED BY <2>1, <2>2 DEF PurgeOK, In, RecordsIn, Copying
<1>. QED BY <1>1, Invariance, PTL

\* No process that has the map waits for a mailbox whose holder waits for the
\* map: mdbox_sync_try_begin() lets go of the mailbox first.
THEOREM NeverWaitsInCycle == Spec => []NoWaitCycle
<1>1. IInv => NoWaitCycle
    <2>1. SUFFICES ASSUME IInv, NEW p \in Procs, NEW q \in Procs,
                          boxLock[proc[p].box] = q, proc[q].pc = "lock"
                   PROVE  FALSE
        BY DEF NoWaitCycle
    <2>2. proc[p].box \in Boxes
        BY <2>1, Own
    <2>3. proc[q].pc \in BoxPcs
        BY <2>1, <2>2 DEF IInv, LocksOK
    <2>. QED BY <2>1, <2>3 DEF BoxPcs
<1>. QED BY <1>1, Invariance, PTL

-----------------------------------------------------------------------------
(* Mails are kept and references counted: a second invariant, on the first. *)

\* Nothing refers to u, and its record says so.
Unused(u) ==
    /\ \A b \in Boxes : box[b][u] = 0
    /\ u \in DOMAIN map => map[u].ref = 0

\* Where a purge has found that nothing refers to the mails it removes.
Past == {"checked", "purged", "remove", "removing"}
Fated(u) ==
    \/ \E q \in Procs : proc[q].pc \in Past /\ u \in proc[q].dead
    \/ u \in DOMAIN map /\ map[u].file \notin DOMAIN files

\* Only mails that have been saved are referred to, and each by finitely many.
Numbered ==
    /\ \A u \in Uids : IsFiniteSet(Messages(u))
    /\ \A b \in Boxes, u \in Uids : box[b][u] > 0 => u < nextUid

\* A recorded mail is in its file, or the file is gone and nothing refers to it.
Traced ==
    \A u \in DOMAIN map \ exposed :
        Kept(u) \/ (Unused(u) /\ map[u].file \notin DOMAIN files)

\* What a process that has the map locked has still to add to the count of u,
\* or has added already.
Owed(r, u) ==
    IF r.pc = "refs" THEN r.todo[u]
    ELSE IF r.pc = "appended" /\ r.copy = u THEN 1 ELSE 0
Given(r, u) == IF r.pc = "synced" /\ r.mail = u THEN 1 ELSE 0
Exact ==
    \A u \in DOMAIN map \ exposed :
        /\ mapLock = NoProc /\ ~dirty => map[u].ref = References(u)
        /\ \A p \in Procs : mapLock = p =>
              map[u].ref + Owed(proc[p], u) = References(u) + Given(proc[p], u)

\* What a process knows at its place; r is its record.
CopyOK(r) ==
    /\ r.copy < nextUid
    /\ r.mail # NoMail => r.copy < r.mail /\ r.op = "deliver"
SavedOK(r) ==
    /\ r.pc = "refs" => dirty
    /\ r.pc = "synced" /\ r.mail # NoMail =>
          dirty /\ r.mail \in DOMAIN map /\ map[r.mail].ref > 0
    /\ r.pc = "appended" /\ r.copy # NoMail => box[r.box][r.copy] > 0
DeadOK(r) ==
    /\ \A u \in r.dead : u < nextUid
    /\ r.pc = "scanned" => r.dead = {}
    /\ r.pc \in Past => \A u \in r.dead \ exposed : Unused(u)
    /\ r.pc = "purged" => In(map, r.purged) \subseteq r.dead
PlaceOK(r) == CopyOK(r) /\ SavedOK(r) /\ DeadOK(r)

KInv ==
    /\ Numbered
    /\ KeptUnlessExposed
    /\ ~noticed => Traced /\ Exact /\ \A p \in Procs : PlaceOK(proc[p])

-----------------------------------------------------------------------------
(* Counting messages.                                                      *)

\* The messages that name u when the mailboxes are B.
Named(B, u) == UNION {{b} \X (1..B[b][u]) : b \in Boxes}

LEMMA NamedIn ==
    ASSUME NEW B, NEW u, NEW b \in Boxes, NEW n
    PROVE  <<b, n>> \in Named(B, u) <=> n \in 1..B[b][u]
<1>1. ASSUME n \in 1..B[b][u] PROVE <<b, n>> \in Named(B, u)
    <2>1. <<b, n>> \in {b} \X (1..B[b][u])
        BY <1>1
    <2>. QED BY <2>1 DEF Named
<1>2. ASSUME <<b, n>> \in Named(B, u) PROVE n \in 1..B[b][u]
    <2>1. PICK c \in Boxes : <<b, n>> \in {c} \X (1..B[c][u])
        BY <1>2 DEF Named
    <2>. QED BY <2>1
<1>. QED BY <1>1, <1>2

LEMMA NamedPair ==
    ASSUME NEW B, NEW u, NEW x \in Named(B, u)
    PROVE  \E b \in Boxes : \E n \in 1..B[b][u] : x = <<b, n>>
BY DEF Named

LEMMA NamedSame ==
    ASSUME NEW B, NEW C, NEW u, \A b \in Boxes : C[b][u] = B[b][u]
    PROVE  Named(C, u) = Named(B, u)
<1>1. ASSUME NEW x PROVE x \in Named(C, u) => x \in Named(B, u)
    BY NamedIn, NamedPair
<1>2. ASSUME NEW x PROVE x \in Named(B, u) => x \in Named(C, u)
    BY NamedIn, NamedPair
<1>. QED BY <1>1, <1>2

\* One more message in mailbox b.
OneMore(B, C, u, b) ==
    /\ B[b][u] \in Nat /\ C[b][u] = B[b][u] + 1
    /\ \A c \in Boxes \ {b} : C[c][u] = B[c][u]

LEMMA NamedMore ==
    ASSUME NEW B, NEW C, NEW u, NEW b \in Boxes, OneMore(B, C, u, b), IsFiniteSet(Named(B, u))
    PROVE  IsFiniteSet(Named(C, u)) /\ Cardinality(Named(C, u)) = Cardinality(Named(B, u)) + 1
<1>0. PICK i : i = B[b][u] + 1
    OBVIOUS
<1>1. PICK y, S : y = <<b, i>> /\ S = Named(B, u)
    OBVIOUS
<1>2. y \notin S
    <2>1. i \notin 1..B[b][u]
        BY <1>0 DEF OneMore
    <2>. QED BY <1>1, <2>1, NamedIn
<1>3. ASSUME NEW x \in Named(C, u) PROVE x \in S \union {y}
    <2>1. PICK c \in Boxes : \E n \in 1..C[c][u] : x = <<c, n>>
        BY NamedPair
    <2>2. PICK n \in 1..C[c][u] : x = <<c, n>>
        BY <2>1
    <2>3. CASE c = b
        <3>1. n \in 1..B[b][u] \/ n = i
            BY <1>0, <2>2, <2>3 DEF OneMore
        <3>. QED BY <1>1, <2>2, <2>3, <3>1, NamedIn
    <2>4. CASE c # b
        <3>1. n \in 1..B[c][u]
            BY <2>2, <2>4 DEF OneMore
        <3>. QED BY <1>1, <2>2, <3>1, NamedIn
    <2>. QED BY <2>3, <2>4
<1>4. ASSUME NEW x \in S PROVE x \in Named(C, u)
    <2>1. PICK c \in Boxes : \E n \in 1..B[c][u] : x = <<c, n>>
        BY <1>1, NamedPair
    <2>2. PICK n \in 1..B[c][u] : x = <<c, n>>
        BY <2>1
    <2>3. n \in 1..C[c][u]
        BY <2>2 DEF OneMore
    <2>. QED BY <2>2, <2>3, NamedIn
<1>5. y \in Named(C, u)
    <2>1. i \in 1..C[b][u]
        BY <1>0 DEF OneMore
    <2>. QED BY <1>1, <2>1, NamedIn
<1>6. Named(C, u) = S \union {y}
    BY <1>3, <1>4, <1>5
<1>7. /\ IsFiniteSet(S \union {y})
      /\ Cardinality(S \union {y}) = IF y \in S THEN Cardinality(S) ELSE Cardinality(S) + 1
    <2>1. IsFiniteSet(S)
        BY <1>1
    <2>. QED BY <2>1, FS_AddElement
<1>. QED BY <1>1, <1>2, <1>6, <1>7

\* n messages less.
SomeLess(B, C, u, b, n) ==
    /\ B[b][u] \in Nat /\ n \in 0..B[b][u] /\ C[b][u] = B[b][u] - n
    /\ \A c \in Boxes \ {b} : C[c][u] = B[c][u]

LEMMA NamedLess ==
    ASSUME NEW B, NEW C, NEW u, NEW b \in Boxes, NEW n, SomeLess(B, C, u, b, n),
           IsFiniteSet(Named(B, u))
    PROVE  IsFiniteSet(Named(C, u)) /\ Cardinality(Named(C, u)) = Cardinality(Named(B, u)) - n
<1>1. PICK S, I : S = Named(B, u) /\ I = (B[b][u] - n + 1) .. B[b][u]
    OBVIOUS
<1>2. n \in Nat /\ B[b][u] - n + 1 \in Int /\ B[b][u] \in Int
    BY DEF SomeLess
<1>3. IsFiniteSet(I) /\ Cardinality(I) = n
    <2>1. /\ IsFiniteSet(I)
          /\ Cardinality(I) = IF B[b][u] - n + 1 > B[b][u] THEN 0
                              ELSE B[b][u] - (B[b][u] - n + 1) + 1
        BY <1>1, <1>2, FS_Interval
    <2>. QED BY <1>2, <2>1
<1>4. PICK T : T = {b} \X I
    OBVIOUS
<1>5. IsFiniteSet(T) /\ Cardinality(T) = n
    <2>1. IsFiniteSet({b}) /\ Cardinality({b}) = 1
        BY FS_Singleton
    <2>2. IsFiniteSet(T) /\ Cardinality(T) = 1 * Cardinality(I)
        BY <1>3, <1>4, <2>1, FS_Product
    <2>. QED BY <1>2, <1>3, <2>2
<1>6. T \subseteq S
    <2>1. ASSUME NEW i \in I PROVE <<b, i>> \in S
        <3>1. i \in 1..B[b][u]
            BY <1>1 DEF SomeLess
        <3>. QED BY <1>1, <3>1, NamedIn
    <2>. QED BY <1>4, <2>1
<1>7. ASSUME NEW x \in Named(C, u) PROVE x \in S \ T
    <2>1. PICK c \in Boxes : \E i \in 1..C[c][u] : x = <<c, i>>
        BY NamedPair
    <2>2. PICK i \in 1..C[c][u] : x = <<c, i>>
        BY <2>1
    <2>3. i \in 1..B[c][u]
        BY <2>2 DEF SomeLess
    <2>4. x \in S
        BY <1>1, <2>2, <2>3, NamedIn
    <2>5. ASSUME x \in T PROVE FALSE
        <3>1. c = b /\ i \in I
            BY <1>4, <2>2, <2>5
        <3>. QED BY <1>1, <2>2, <3>1 DEF SomeLess
    <2>. QED BY <2>4, <2>5
<1>8. ASSUME NEW x \in S \ T PROVE x \in Named(C, u)
    <2>1. PICK c \in Boxes : \E i \in 1..B[c][u] : x = <<c, i>>
        BY <1>1, NamedPair
    <2>2. PICK i \in 1..B[c][u] : x = <<c, i>>
        BY <2>1
    <2>3. i \in 1..C[c][u]
        <3>1. CASE c = b
            <4>1. i \notin I
                BY <1>4, <1>8, <2>2, <3>1
            <4>. QED BY <1>1, <2>2, <3>1, <4>1 DEF SomeLess
        <3>2. CASE c # b
            BY <2>2, <3>2 DEF SomeLess
        <3>. QED BY <3>1, <3>2
    <2>. QED BY <2>2, <2>3, NamedIn
<1>9. Named(C, u) = S \ T
    BY <1>7, <1>8
<1>10. S \cap T = T
    BY <1>6
<1>. QED BY <1>1, <1>5, <1>9, <1>10, FS_Difference

(* No message names a mail whose references are none.                      *)
LEMMA NamedNone ==
    ASSUME NEW B, NEW u, IsFiniteSet(Named(B, u)), \A b \in Boxes : B[b][u] \in Nat
    PROVE  Cardinality(Named(B, u)) = 0 <=> \A b \in Boxes : B[b][u] = 0
<1>1. ASSUME Cardinality(Named(B, u)) = 0, NEW b \in Boxes PROVE B[b][u] = 0
    <2>1. Named(B, u) = {}
        BY <1>1, FS_EmptySet
    <2>2. 1 \notin 1..B[b][u]
        BY <2>1, NamedIn
    <2>. QED BY <2>2
<1>2. ASSUME \A b \in Boxes : B[b][u] = 0 PROVE Cardinality(Named(B, u)) = 0
    <2>1. Named(B, u) = {}
        BY <1>2, NamedPair
    <2>. QED BY <2>1, FS_EmptySet
<1>. QED BY <1>1, <1>2

-----------------------------------------------------------------------------
(* A step of p, seen by the others.                                        *)

LEMMA RefsNat ==
    ASSUME KInv, NEW u \in Uids
    PROVE  References(u) \in Nat /\ IsFiniteSet(Messages(u)) /\ Messages(u) = Named(box, u)
<1>1. IsFiniteSet(Messages(u))
    BY DEF KInv, Numbered
<1>. QED BY <1>1, FS_CardinalityType DEF References, Messages, Named

KStays(p) ==
    /\ \A q \in Others(p) : proc'[q] = proc[q]
    /\ nextUid' \in Nat /\ nextUid <= nextUid' /\ exposed \subseteq exposed'
    /\ mapLock \notin {p, NoProc} => map' = map /\ box' = box /\ dirty' = dirty
    /\ \A q \in Others(p) : proc[q].pc = "purged" =>
          In(map', proc[q].purged) \subseteq In(map, proc[q].purged)
    /\ \A u \in 1..nextUid - 1 :
          Fated(u) /\ u \notin exposed' /\ Unused(u) => Unused(u)'

LEMMA OthersPlaces ==
    ASSUME IInv, KInv, ~noticed, NEW p \in Procs, KStays(p)
    PROVE  \A q \in Others(p) : PlaceOK(proc[q])'
<1>1. ASSUME NEW q \in Others(p) PROVE PlaceOK(proc[q])'
    <2>1. PICK r : r = proc[q]
        OBVIOUS
    <2>2. /\ proc'[q] = r /\ r \in ProcRec /\ q \in Procs /\ q # p /\ r.copy \in Int /\ r.dead \subseteq Uids
          /\ nextUid \in Nat /\ nextUid' \in Nat /\ nextUid <= nextUid' /\ exposed \subseteq exposed'
        BY <2>1 DEF IInv, Types, Others, ProcRec, KStays
    <2>3. CopyOK(r) /\ SavedOK(r) /\ DeadOK(r)
        BY <2>1, <2>2 DEF KInv, PlaceOK
    <2>4. r.pc \in MapPcs => map' = map /\ box' = box /\ dirty' = dirty
        <3>1. r.pc \in MapPcs => mapLock = q
            BY <2>1, <2>2 DEF IInv, LocksOK
        <3>. QED BY <2>2, <3>1, NoProcAssumption DEF KStays
    <2>5. CopyOK(proc[q])'
        BY <2>2, <2>3 DEF CopyOK
    <2>6. SavedOK(proc[q])'
        BY <2>2, <2>3, <2>4 DEF SavedOK, MapPcs
    <2>7. DeadOK(proc[q])'
        <3>1. \A u \in r.dead : u \in Nat /\ u > 0 /\ u < nextUid
            BY <2>2, <2>3 DEF DeadOK, Uids
        <3>2. ASSUME r.pc \in Past, NEW u \in r.dead \ exposed' PROVE Unused(u)'
            <4>1. Unused(u)
                BY <2>2, <2>3, <3>2 DEF DeadOK
            <4>2. Fated(u)
                BY <2>1, <2>2, <3>2 DEF Fated
            <4>. QED BY <2>2, <3>1, <4>1, <4>2 DEF KStays
        <3>3. r.pc = "purged" => In(map', r.purged) \subseteq r.dead
            BY <2>1, <2>2, <2>3 DEF DeadOK, KStays
        <3>4. \A u \in r.dead : u < nextUid'
            BY <2>2, <3>1
        <3>. QED BY <2>2, <2>3, <3>2, <3>3, <3>4 DEF DeadOK
    <2>. QED BY <2>5, <2>6, <2>7 DEF PlaceOK
<1>. QED BY <1>1

LEMMA KStep ==
    ASSUME IInv, KInv, ~noticed, NEW p \in Procs, KStays(p), Numbered', KeptUnlessExposed',
           ~noticed' => Traced' /\ Exact' /\ PlaceOK(proc[p])'
    PROVE  KInv'
<1>1. \A q \in Others(p) : PlaceOK(proc[q])'
    BY OthersPlaces
<1>2. ~noticed' => \A q \in Procs : PlaceOK(proc[q])'
    BY <1>1 DEF Others
<1>. QED BY <1>2 DEF KInv

(* Steps that leave the map and the mailboxes alone.                       *)
Quiet(p) ==
    /\ UNCHANGED <<map, nextUid, box>>
    /\ exposed \subseteq exposed'
    /\ \A q \in Others(p) : proc'[q] = proc[q]
    /\ mapLock \notin {p, NoProc} => dirty' = dirty

LEMMA QuietKept ==
    ASSUME IInv, KInv, NEW p \in Procs, Quiet(p)
    PROVE  KStays(p) /\ Numbered' /\ (\A u : Unused(u)' <=> Unused(u))
<1>1. \A u : Unused(u)' <=> Unused(u)
    BY DEF Unused, Quiet
<1>2. Numbered'
    BY DEF KInv, Numbered, Quiet, Messages
<1>3. nextUid \in Nat
    BY DEF IInv, Types
<1>4. KStays(p)
    BY <1>1, <1>3 DEF KStays, Quiet
<1>. QED BY <1>1, <1>2, <1>4

\* Mails stay in their files.
FilesKeep ==
    /\ \A f \in DOMAIN files : f \in DOMAIN files' /\ files[f].mails \subseteq files'[f].mails
    /\ \A f \in 1..highest : f \in DOMAIN files' => f \in DOMAIN files

LEMMA MailsStay ==
    ASSUME IInv, KInv, ~noticed, NEW p \in Procs, Quiet(p), FilesKeep
    PROVE  KeptUnlessExposed' /\ Traced'
<1>1. \A u : Kept(u) => Kept(u)'
    BY DEF Kept, Quiet, FilesKeep
<1>2. KeptUnlessExposed'
    BY <1>1 DEF KInv, KeptUnlessExposed, Quiet
<1>3. \A u \in DOMAIN map : map[u].file \in 1..highest
    BY DEF IInv, MapOK
<1>4. \A u : Unused(u) => Unused(u)'
    BY DEF Unused, Quiet
<1>5. ASSUME NEW u \in DOMAIN map \ exposed'
      PROVE  Kept(u)' \/ (Unused(u)' /\ map[u].file \notin DOMAIN files')
    <2>1. Kept(u) \/ (Unused(u) /\ map[u].file \notin DOMAIN files)
        BY DEF KInv, Traced, Quiet
    <2>. QED BY <1>1, <1>3, <1>4, <2>1 DEF FilesKeep
<1>6. Traced'
    BY <1>5 DEF Traced, Quiet
<1>. QED BY <1>2, <1>6

(* References that nobody changes.                                         *)
LEMMA ExactHeld ==
    ASSUME IInv, KInv, ~noticed, NEW p \in Procs, Quiet(p), mapLock' = mapLock, dirty' = dirty,
           mapLock = p => \A u \in DOMAIN map \ exposed' :
               Owed(proc'[p], u) = Owed(proc[p], u) /\ Given(proc'[p], u) = Given(proc[p], u)
    PROVE  Exact'
<1>1. \A u : References(u)' = References(u)
    BY DEF References, Messages, Quiet
<1>2. ASSUME NEW u \in DOMAIN map \ exposed', NEW q \in Procs, mapLock = q
      PROVE  map[u].ref + Owed(proc'[q], u) = References(u) + Given(proc'[q], u)
    <2>1. map[u].ref + Owed(proc[q], u) = References(u) + Given(proc[q], u)
        BY <1>2 DEF KInv, Exact, Quiet
    <2>2. Owed(proc'[q], u) = Owed(proc[q], u) /\ Given(proc'[q], u) = Given(proc[q], u)
        BY <1>2 DEF Quiet, Others
    <2>. QED BY <2>1, <2>2
<1>3. mapLock = NoProc /\ ~dirty => \A u \in DOMAIN map \ exposed' : map[u].ref = References(u)
    BY DEF KInv, Exact, Quiet
<1>4. \A u \in DOMAIN map' \ exposed' :
         /\ mapLock' = NoProc /\ ~dirty' => map'[u].ref = References(u)'
         /\ \A q \in Procs : mapLock' = q =>
               map'[u].ref + Owed(proc'[q], u) = References(u)' + Given(proc'[q], u)
    BY <1>1, <1>2, <1>3 DEF Quiet
<1>. QED BY <1>4 DEF Exact, Owed, Given

LEMMA ExactTaken ==
    ASSUME IInv, KInv, ~noticed, NEW p \in Procs, Quiet(p), mapLock = NoProc, ~dirty, mapLock' = p,
           proc'[p].pc \notin {"refs", "synced", "appended"}
    PROVE  Exact'
<1>1. \A u : References(u)' = References(u)
    BY DEF References, Messages, Quiet
<1>2. \A u : Owed(proc'[p], u) = 0 /\ Given(proc'[p], u) = 0
    BY DEF Owed, Given
<1>3. \A u \in DOMAIN map \ exposed' : map[u].ref = References(u) /\ map[u].ref \in Nat
    BY DEF KInv, Exact, Quiet, IInv, Types, MapRec
<1>4. \A u \in DOMAIN map' \ exposed' : \A q \in Procs : mapLock' = q =>
         map'[u].ref + Owed(proc'[q], u) = References(u)' + Given(proc'[q], u)
    BY <1>1, <1>2, <1>3 DEF Quiet
<1>. QED BY <1>4, NoProcAssumption DEF Exact, Owed, Given

LEMMA ExactFreed ==
    ASSUME IInv, KInv, ~noticed, NEW p \in Procs, Quiet(p), mapLock = p, mapLock' = NoProc,
           ~dirty' => \A u \in DOMAIN map \ exposed' :
                         Owed(proc[p], u) = 0 /\ Given(proc[p], u) = 0
    PROVE  Exact'
<1>1. \A u : References(u)' = References(u)
    BY DEF References, Messages, Quiet
<1>2. ASSUME ~dirty', NEW u \in DOMAIN map \ exposed' PROVE map[u].ref = References(u)
    <2>1. map[u].ref + 0 = References(u) + 0
        BY <1>2 DEF KInv, Exact, Quiet
    <2>2. map[u].ref \in Nat /\ u \in Uids
        BY DEF IInv, Types, MapRec
    <2>. QED BY <2>1, <2>2, RefsNat
<1>. QED BY <1>1, <1>2, NoProcAssumption DEF Exact, Quiet

-----------------------------------------------------------------------------
(* Actions that leave the map and the mailboxes alone.                     *)

LEMMA IdlePlace ==
    ASSUME IInv', NEW p \in Procs, proc'[p] = Idle
    PROVE  PlaceOK(proc[p])'
<1>1. nextUid' \in Nat \ {0}
    BY DEF IInv, Types
<1>. QED BY <1>1, IdleRec DEF PlaceOK, CopyOK, SavedOK, DeadOK, Past, NoMail

LEMMA GoPlace ==
    ASSUME IInv, KInv, ~noticed, NEW p \in Procs, Moved(proc'[p], proc[p]), nextUid' = nextUid,
           proc'[p].pc \in {"lock", "mapped", "finish"}
    PROVE  PlaceOK(proc[p])'
<1>1. CopyOK(proc[p]) /\ DeadOK(proc[p])
    BY DEF KInv, PlaceOK
<1>2. CopyOK(proc[p])'
    BY <1>1 DEF CopyOK, Moved
<1>3. SavedOK(proc[p])'
    BY DEF SavedOK
<1>4. DeadOK(proc[p])'
    BY <1>1 DEF DeadOK, Past, Moved
<1>. QED BY <1>2, <1>3, <1>4 DEF PlaceOK

LEMMA FilesSame ==
    ASSUME files' = files
    PROVE  FilesKeep
BY DEF FilesKeep

LEMMA FilesWritten ==
    ASSUME IInv, NEW f, NEW n, files' = Written(f, n)
    PROVE  FilesKeep
<1>1. files \in [DOMAIN files -> FileRec]
    BY DEF IInv, Types
<1>2. CASE f \notin DOMAIN files
    BY <1>2 DEF Written, FilesKeep
<1>3. CASE f \in DOMAIN files
    <2>1. PICK r0, k, r : r0 = files[f] /\ k = r0.unrecorded + n /\ r = [r0 EXCEPT !.unrecorded = k]
        OBVIOUS
    <2>2. r0 \in FileRec
        BY <1>1, <1>3, <2>1
    <2>3. r.mails = r0.mails
        BY <2>1, <2>2 DEF FileRec
    <2>4. files' = [files EXCEPT ![f] = r]
        BY <1>1, <1>3, <2>1 DEF Written
    <2>. QED BY <1>1, <1>3, <2>1, <2>3, <2>4 DEF FilesKeep
<1>. QED BY <1>2, <1>3

LEMMA FilesCreated ==
    ASSUME IInv, NEW f, f \notin 1..highest, NEW mails, NEW n, files' = Created(f, mails, n)
    PROVE  FilesKeep
BY DEF FilesKeep, Created, Added

(* Without a change of the map's lock: what p does to the files aside.     *)
LEMMA MildStep ==
    ASSUME IInv, IInv', KInv, ~noticed, NEW p \in Procs, Quiet(p), FilesKeep,
           ~noticed' => Exact' /\ PlaceOK(proc[p])'
    PROVE  KInv'
BY QuietKept, MailsStay, KStep

LEMMA StopKept ==
    ASSUME IInv, IInv', KInv, NEW p \in Procs, Finish(p) \/ PurgeBusy(p) \/ PurgeCancel(p)
    PROVE  KInv'
<1>1. /\ ~noticed /\ Stop(p)
      /\ UNCHANGED <<map, nextUid, box, exposed>>
    BY DEF Finish, PurgeBusy, PurgeCancel, At, mapvars, boxes, history
<1>2. proc'[p] = Idle /\ \A q \in Others(p) : proc'[q] = proc[q]
    BY <1>1 DEF Stop, IInv, Types, Others
<1>3. PlaceOK(proc[p])'
    BY <1>2, IdlePlace
<1>4. CASE Finish(p)
    <2>1. proc[p].pc = "finish" /\ mapLock' = NoProc /\ files' = files
        BY <1>4 DEF Finish, At
    <2>2. mapLock = p
        BY <2>1, Own DEF MapPcs
    <2>3. Quiet(p)
        BY <1>1, <1>2, <2>2 DEF Quiet
    <2>4. \A u : Owed(proc[p], u) = 0 /\ Given(proc[p], u) = 0
        BY <2>1 DEF Owed, Given
    <2>5. Exact'
        BY <1>1, <2>1, <2>2, <2>3, <2>4, ExactFreed
    <2>. QED BY <1>1, <1>3, <2>1, <2>3, <2>5, FilesSame, MildStep
<1>5. CASE PurgeBusy(p) \/ PurgeCancel(p)
    <2>1. proc[p].pc \in {"scanned", "copied"} /\ mapLock' = mapLock /\ dirty' = dirty
        BY <1>5 DEF PurgeBusy, PurgeCancel, At, mapvars, locks
    <2>2. mapLock # p
        BY <2>1, Own DEF MapPcs
    <2>3. Quiet(p)
        BY <1>1, <1>2, <2>1 DEF Quiet
    <2>4. FilesKeep
        <3>1. CASE PurgeBusy(p)
            BY <3>1, FilesSame DEF PurgeBusy
        <3>2. CASE PurgeCancel(p)
            <4>1. files' = Written(proc[p].file, -Cardinality(proc[p].live))
                BY <3>2 DEF PurgeCancel, Truncated
            <4>. QED BY <4>1, FilesWritten
        <3>. QED BY <1>5, <3>1, <3>2
    <2>5. Exact'
        BY <1>1, <2>1, <2>2, <2>3, ExactHeld
    <2>. QED BY <1>1, <1>3, <2>3, <2>4, <2>5, MildStep
<1>. QED BY <1>4, <1>5

LEMMA LockMapKept ==
    ASSUME IInv, IInv', KInv, NEW p \in Procs, LockMap(p)
    PROVE  KInv'
<1>1. /\ ~noticed /\ proc[p].pc = "lock" /\ Go(p, "mapped") /\ mapLock = NoProc /\ mapLock' = p
      /\ noticed' = dirty /\ UNCHANGED <<map, nextUid, box, exposed, files, dirty>>
    BY DEF LockMap, At, mapvars, boxes, history
<1>2. proc'[p].pc = "mapped" /\ Moved(proc'[p], proc[p]) /\ \A q \in Others(p) : proc'[q] = proc[q]
    BY <1>1, GoStep DEF Pcs
<1>3. Quiet(p)
    BY <1>1, <1>2 DEF Quiet
<1>4. PlaceOK(proc[p])'
    BY <1>1, <1>2, GoPlace
<1>5. ~noticed' => Exact'
    BY <1>1, <1>2, <1>3, ExactTaken
<1>. QED BY <1>1, <1>3, <1>4, <1>5, FilesSame, MildStep

LEMMA SyncReleaseKept ==
    ASSUME IInv, IInv', KInv, NEW p \in Procs, SyncRelease(p)
    PROVE  KInv'
<1>1. /\ ~noticed /\ proc[p].pc = "tried" /\ Go(p, "lock")
      /\ UNCHANGED <<map, nextUid, box, exposed, files, dirty, mapLock>>
    BY DEF SyncRelease, At, mapvars, boxes, history
<1>2. proc'[p].pc = "lock" /\ Moved(proc'[p], proc[p]) /\ \A q \in Others(p) : proc'[q] = proc[q]
    BY <1>1, GoStep DEF Pcs
<1>3. Quiet(p) /\ mapLock # p
    BY <1>1, <1>2, Own DEF Quiet, MapPcs
<1>4. PlaceOK(proc[p])'
    BY <1>1, <1>2, GoPlace
<1>5. Exact'
    BY <1>1, <1>3, ExactHeld
<1>. QED BY <1>1, <1>3, <1>4, <1>5, FilesSame, MildStep

LEMMA SyncFinishKept ==
    ASSUME IInv, IInv', KInv, NEW p \in Procs, SyncFinish(p)
    PROVE  KInv'
<1>1. /\ ~noticed /\ proc[p].pc = "synced" /\ proc[p].op = "sync"
      /\ proc' = [proc EXCEPT ![p].pc = "finish", ![p].success = TRUE]
      /\ UNCHANGED <<map, nextUid, box, exposed, files, dirty, mapLock>>
    BY DEF SyncFinish, At, mapvars, boxes, history
<1>2. proc'[p].pc = "finish" /\ Moved(proc'[p], proc[p]) /\ \A q \in Others(p) : proc'[q] = proc[q]
    BY <1>1, GoWellStep DEF Pcs
<1>3. Quiet(p)
    BY <1>1, <1>2 DEF Quiet
<1>4. PlaceOK(proc[p])'
    BY <1>1, <1>2, GoPlace
<1>5. proc[p].mail = 0
    BY <1>1 DEF KInv, PlaceOK, CopyOK, NoMail
<1>6. \A u \in DOMAIN map : u # 0
    BY DEF IInv, Types, Uids
<1>7. \A u \in DOMAIN map : /\ Owed(proc'[p], u) = Owed(proc[p], u)
                            /\ Given(proc'[p], u) = Given(proc[p], u)
    BY <1>1, <1>2, <1>5, <1>6 DEF Owed, Given
<1>8. Exact'
    BY <1>1, <1>3, <1>7, ExactHeld
<1>. QED BY <1>1, <1>3, <1>4, <1>8, FilesSame, MildStep

(* What a session sees has been saved.                                     *)
LEMMA SeenSaved ==
    ASSUME IInv, KInv, NEW u \in Seen
    PROVE  u \in Uids /\ u < nextUid
<1>1. u \in Uids /\ References(u) > 0
    BY DEF Seen
<1>2. References(u) = Cardinality(Named(box, u)) /\ IsFiniteSet(Named(box, u))
    BY <1>1, RefsNat DEF References
<1>3. \A b \in Boxes : box[b][u] \in Nat
    BY <1>1 DEF IInv, Types
<1>4. \E b \in Boxes : box[b][u] # 0
    BY <1>1, <1>2, <1>3, NamedNone
<1>5. \E b \in Boxes : box[b][u] > 0
    BY <1>3, <1>4
<1>. QED BY <1>1, <1>5 DEF KInv, Numbered

(* A process begins something: r is its record. *)
LEMMA BegunKept ==
    ASSUME IInv, IInv', KInv, ~noticed, NEW p \in Procs, proc[p].pc = "idle",
           NEW r, proc' = [proc EXCEPT ![p] = r], CopyOK(r), r.dead = {},
           r.pc \in {"lock", "tried", "scanned"}, FilesKeep,
           UNCHANGED <<map, nextUid, box, exposed, dirty, mapLock>>
    PROVE  KInv'
<1>1. proc'[p] = r /\ \A q \in Others(p) : proc'[q] = proc[q]
    BY DEF IInv, Types, Others
<1>2. Quiet(p) /\ mapLock # p
    BY <1>1, Own DEF Quiet, MapPcs
<1>3. CopyOK(proc[p])' /\ SavedOK(proc[p])' /\ DeadOK(proc[p])'
    BY <1>1 DEF CopyOK, SavedOK, DeadOK, Past
<1>4. Exact'
    BY <1>2, ExactHeld
<1>. QED BY <1>2, <1>3, <1>4, MildStep DEF PlaceOK

LEMMA WriteKept ==
    ASSUME IInv, IInv', KInv, NEW p \in Procs, NEW b \in Boxes, Write(p, b)
    PROVE  KInv'
<1>1. /\ ~noticed /\ proc[p].pc = "idle"
      /\ UNCHANGED <<map, nextUid, box, exposed, dirty, mapLock>>
    BY DEF Write, At, mapvars, boxes, history
<1>2. PICK f, c :
        /\ c \in Seen \union {NoMail} /\ f \in Targets \union {NoFile}
        /\ files' = Written(f, 1)
        /\ proc' = [proc EXCEPT ![p] = [Idle EXCEPT
                        !.op = "deliver", !.pc = "lock", !.box = b,
                        !.file = f, !.copy = c]]
    BY DEF Write
<1>3. c \in Int /\ c < nextUid /\ f \in Int
    <2>1. nextUid \in Nat \ {0}
        BY DEF IInv, Types
    <2>2. c \in Int /\ c < nextUid
        BY <1>2, <2>1, SeenSaved DEF NoMail, Uids
    <2>3. f \in Int
        BY <1>2 DEF Targets, Appendable, NewFile, NoFile, IInv, Types
    <2>. QED BY <2>2, <2>3
<1>4. PICK r : r = [Idle EXCEPT !.op = "deliver", !.pc = "lock", !.box = b, !.file = f, !.copy = c]
    OBVIOUS
<1>5. r.pc = "lock" /\ r.copy = c /\ r.mail = 0 /\ r.dead = {}
    BY <1>3, <1>4, IdleRec DEF ProcRec, Pcs
<1>6. CopyOK(r)
    BY <1>3, <1>5 DEF CopyOK, NoMail
<1>7. FilesKeep
    BY <1>2, FilesWritten
<1>. QED BY <1>1, <1>2, <1>4, <1>5, <1>6, <1>7, BegunKept

LEMMA SyncTryKept ==
    ASSUME IInv, IInv', KInv, NEW p \in Procs, NEW b \in Boxes, SyncTry(p, b)
    PROVE  KInv'
<1>1. /\ ~noticed /\ proc[p].pc = "idle"
      /\ UNCHANGED <<map, nextUid, box, exposed, dirty, mapLock, files>>
    BY DEF SyncTry, At, mapvars, boxes, history
<1>2. PICK r : r = [Idle EXCEPT !.op = "sync", !.pc = "tried", !.box = b]
    OBVIOUS
<1>3. r.pc = "tried" /\ r.copy = 0 /\ r.mail = 0 /\ r.dead = {}
    BY <1>2, IdleRec DEF ProcRec, Pcs
<1>4. CopyOK(r)
    BY <1>3 DEF CopyOK, NoMail, IInv, Types
<1>5. proc' = [proc EXCEPT ![p] = r]
    BY <1>2 DEF SyncTry
<1>. QED BY <1>1, <1>3, <1>4, <1>5, FilesSame, BegunKept

LEMMA PurgeScanKept ==
    ASSUME IInv, IInv', KInv, NEW p \in Procs, PurgeScan(p)
    PROVE  KInv'
<1>1. /\ ~noticed /\ proc[p].pc = "idle"
      /\ UNCHANGED <<map, nextUid, box, exposed, dirty, mapLock, files>>
    BY DEF PurgeScan, At, mapvars, boxes, locks, history
<1>2. PICK u \in Dying :
          proc' = [proc EXCEPT ![p] = [Idle EXCEPT !.op = "purge", !.pc = "scanned",
                                                   !.purged = map[u].file]]
    BY DEF PurgeScan
<1>3. map[u].file \in Int
    BY DEF IInv, Types, MapRec, Dying
<1>4. PICK f, r : f = map[u].file /\ r = [Idle EXCEPT !.op = "purge", !.pc = "scanned", !.purged = f]
    OBVIOUS
<1>5. r.pc = "scanned" /\ r.copy = 0 /\ r.mail = 0 /\ r.dead = {}
    BY <1>3, <1>4, IdleRec DEF ProcRec, Pcs
<1>6. CopyOK(r)
    BY <1>5 DEF CopyOK, NoMail, IInv, Types
<1>7. proc' = [proc EXCEPT ![p] = r]
    BY <1>2, <1>4
<1>. QED BY <1>1, <1>5, <1>6, <1>7, FilesSame, BegunKept

LEMMA PurgeMissingKept ==
    ASSUME IInv, IInv', KInv, NEW p \in Procs, PurgeMissing(p) \/ PurgeUnopened(p)
    PROVE  KInv'
<1>1. /\ ~noticed /\ proc[p].pc = "scanned" /\ Go(p, "remove")
      /\ UNCHANGED <<map, nextUid, box, exposed, dirty, mapLock, files>>
    BY DEF PurgeMissing, PurgeUnopened, At, mapvars, boxes, locks, history
<1>2. proc'[p].pc = "remove" /\ Moved(proc'[p], proc[p]) /\ \A q \in Others(p) : proc'[q] = proc[q]
    BY <1>1, GoStep DEF Pcs
<1>3. Quiet(p) /\ mapLock # p
    BY <1>1, <1>2, Own DEF Quiet, MapPcs
<1>4. CopyOK(proc[p]) /\ proc[p].dead = {}
    BY <1>1 DEF KInv, PlaceOK, DeadOK
<1>5. CopyOK(proc[p])' /\ SavedOK(proc[p])' /\ DeadOK(proc[p])'
    BY <1>1, <1>2, <1>4 DEF CopyOK, SavedOK, DeadOK, Moved
<1>6. Exact'
    BY <1>1, <1>3, ExactHeld
<1>. QED BY <1>1, <1>3, <1>5, <1>6, FilesSame, MildStep DEF PlaceOK

LEMMA PurgeFileKept ==
    ASSUME IInv, IInv', KInv, NEW p \in Procs, PurgeFile(p)
    PROVE  KInv'
<1>1. PICK f, mails, dead, live : /\ f = proc[p].purged /\ mails = RecordsIn(f)
                                  /\ dead = mails \intersect Dying /\ live = mails \ dead
    OBVIOUS
<1>2. /\ ~noticed /\ proc[p].pc = "scanned"
      /\ UNCHANGED <<map, nextUid, box, exposed, dirty, mapLock>>
    BY DEF PurgeFile, At, mapvars, boxes, history
<1>3. PICK t \in IF live = {} THEN {NoFile} ELSE Targets \ {f} :
        /\ files' = Written(t, Cardinality(live))
        /\ proc' = [proc EXCEPT ![p].pc = "copied", ![p].file = t,
                                ![p].live = live, ![p].dead = dead]
    BY <1>1 DEF PurgeFile
<1>4. t \in Int /\ live \subseteq Uids /\ dead \subseteq Uids /\ dead \subseteq DOMAIN map
    <2>1. live \subseteq Uids /\ dead \subseteq Uids /\ dead \subseteq DOMAIN map
        BY <1>1 DEF RecordsIn, IInv, Types
    <2>2. t \in Int
        BY <1>3 DEF Targets, Appendable, NewFile, NoFile, IInv, Types
    <2>. QED BY <2>1, <2>2
<1>5. PICK r0, r : /\ r0 = proc[p]
                   /\ r = [r0 EXCEPT !.pc = "copied", !.file = t, !.live = live, !.dead = dead]
    OBVIOUS
<1>6. r0 \in ProcRec /\ CopyOK(r0)
    BY <1>2, <1>5, Own DEF KInv, PlaceOK
<1>7. r.pc = "copied" /\ r.copy = r0.copy /\ r.mail = r0.mail /\ r.op = r0.op /\ r.dead = dead
    BY <1>4, <1>5, <1>6 DEF ProcRec, Pcs
<1>8. proc' = [proc EXCEPT ![p] = r]
    BY <1>3, <1>5 DEF IInv, Types
<1>9. proc'[p] = r /\ \A q \in Others(p) : proc'[q] = proc[q]
    BY <1>8 DEF IInv, Types, Others
<1>10. Quiet(p) /\ mapLock # p
    BY <1>2, <1>9, Own DEF Quiet, MapPcs
<1>11. CopyOK(proc[p])' /\ SavedOK(proc[p])'
    BY <1>2, <1>6, <1>7, <1>9 DEF CopyOK, SavedOK
<1>12. DeadOK(proc[p])'
    <2>1. \A u \in dead : u < nextUid
        BY <1>4 DEF IInv, MapOK
    <2>. QED BY <1>2, <1>7, <1>9, <2>1 DEF DeadOK, Past
<1>13. Exact'
    BY <1>2, <1>10, ExactHeld
<1>14. FilesKeep
    BY <1>3, FilesWritten
<1>. QED BY <1>2, <1>10, <1>11, <1>12, <1>13, <1>14, MildStep DEF PlaceOK

(* A mail whose count is none when the counts are exact.                   *)
LEMMA CountNone ==
    ASSUME IInv, KInv, ~noticed, mapLock = NoProc, ~dirty,
           NEW u \in DOMAIN map \ exposed, map[u].ref = 0
    PROVE  Unused(u)
<1>1. u \in Uids /\ References(u) = 0
    BY DEF IInv, Types, KInv, Exact
<1>2. Cardinality(Named(box, u)) = 0 /\ IsFiniteSet(Named(box, u))
    BY <1>1, RefsNat DEF References
<1>3. \A b \in Boxes : box[b][u] \in Nat
    BY <1>1 DEF IInv, Types
<1>4. \A b \in Boxes : box[b][u] = 0
    BY <1>2, <1>3, NamedNone
<1>. QED BY <1>4 DEF Unused

LEMMA PurgeCheckKept ==
    ASSUME IInv, IInv', KInv, NEW p \in Procs, PurgeCheck(p)
    PROVE  KInv'
<1>. DEFINE new == proc[p].file = NewFile
<1>1. PICK t, n : t = FileId(proc[p].file) /\ n = Cardinality(proc[p].live)
    OBVIOUS
<1>2. /\ ~noticed /\ proc[p].pc = "copied" /\ mapLock = NoProc /\ mapLock' = p
      /\ StillDead(proc[p].dead)
      /\ noticed' = (\/ dirty
                     \/ ~(proc[p].dead \subseteq DOMAIN map)
                     \/ new /\ t \in DOMAIN files)
      /\ files' = IF new THEN Created(t, {}, n) ELSE files
      /\ proc' = [proc EXCEPT ![p].pc = "checked", ![p].file = t]
      /\ UNCHANGED <<map, nextUid, dirty, box, exposed>>
    BY <1>1 DEF PurgeCheck, At, mapvars, boxes, history
<1>3. PICK r0, r : r0 = proc[p] /\ r = [r0 EXCEPT !.pc = "checked", !.file = t]
    OBVIOUS
<1>4. t \in Int /\ r0 \in ProcRec /\ CopyOK(r0) /\ DeadOK(r0)
    BY <1>1, <1>2, <1>3, Own DEF FileId, KInv, PlaceOK
<1>5. /\ r.pc = "checked" /\ r.copy = r0.copy /\ r.mail = r0.mail /\ r.op = r0.op
      /\ r.dead = r0.dead
    BY <1>3, <1>4 DEF ProcRec, Pcs
<1>6. proc' = [proc EXCEPT ![p] = r]
    BY <1>2, <1>3 DEF IInv, Types
<1>7. proc'[p] = r /\ \A q \in Others(p) : proc'[q] = proc[q]
    BY <1>6 DEF IInv, Types, Others
<1>8. Quiet(p)
    BY <1>2, <1>7 DEF Quiet
<1>9. FilesKeep
    <2>1. CASE new
        <3>1. t \notin 1..highest
            BY <1>1, <2>1, Own DEF FileId
        <3>2. files' = Created(t, {}, n)
            BY <1>2, <2>1
        <3>. QED BY <3>1, <3>2, FilesCreated
    <2>2. CASE ~new
        BY <1>2, <2>2, FilesSame
    <2>. QED BY <2>1, <2>2
<1>10. CopyOK(proc[p])' /\ SavedOK(proc[p])'
    BY <1>2, <1>4, <1>5, <1>7 DEF CopyOK, SavedOK
<1>11. ASSUME ~noticed' PROVE Exact' /\ DeadOK(proc[p])'
    <2>1. ~dirty /\ r0.dead \subseteq DOMAIN map
        BY <1>2, <1>3, <1>11
    <2>2. Exact'
        BY <1>2, <1>5, <1>7, <1>8, <2>1, ExactTaken
    <2>3. ASSUME NEW u \in r0.dead \ exposed PROVE Unused(u)
        <3>1. u \in DOMAIN map /\ map[u].ref = 0
            BY <1>2, <1>3, <2>1 DEF StillDead
        <3>. QED BY <1>2, <2>1, <3>1, CountNone
    <2>4. \A u : Unused(u)' <=> Unused(u)
        BY <1>8, QuietKept
    <2>5. DeadOK(proc[p])'
        BY <1>2, <1>4, <1>5, <1>7, <2>3, <2>4 DEF DeadOK
    <2>. QED BY <2>2, <2>5
<1>. QED BY <1>2, <1>8, <1>9, <1>10, <1>11, MildStep DEF PlaceOK

LEMMA PurgeAllKept ==
    ASSUME IInv, IInv', KInv, NEW p \in Procs, PurgeAll(p)
    PROVE  KInv'
<1>1. /\ ~noticed /\ proc[p].pc = "checked" /\ proc[p].live = {} /\ mapLock' = NoProc
      /\ Go(p, "purged") /\ UNCHANGED <<map, nextUid, dirty, box, exposed, files>>
    BY DEF PurgeAll, At, mapvars, boxes, history
<1>2. proc'[p].pc = "purged" /\ Moved(proc'[p], proc[p]) /\ \A q \in Others(p) : proc'[q] = proc[q]
    BY <1>1, GoStep DEF Pcs
<1>3. Quiet(p) /\ mapLock = p
    BY <1>1, <1>2, Own DEF Quiet, MapPcs
<1>4. CopyOK(proc[p]) /\ DeadOK(proc[p])
    BY <1>1 DEF KInv, PlaceOK
<1>5. CopyOK(proc[p])' /\ SavedOK(proc[p])'
    BY <1>1, <1>2, <1>4 DEF CopyOK, SavedOK, Moved
<1>6. DeadOK(proc[p])'
    <2>1. In(map, proc[p].purged) = proc[p].dead
        BY <1>1, Own DEF PurgeOK, Copying
    <2>2. \A u : Unused(u)' <=> Unused(u)
        BY <1>3, QuietKept
    <2>. QED BY <1>1, <1>2, <1>4, <2>1, <2>2 DEF DeadOK, Past, Moved
<1>7. \A u : Owed(proc[p], u) = 0 /\ Given(proc[p], u) = 0
    BY <1>1 DEF Owed, Given
<1>8. Exact'
    BY <1>1, <1>3, <1>7, ExactFreed
<1>. QED BY <1>1, <1>3, <1>5, <1>6, <1>8, FilesSame, MildStep DEF PlaceOK

(* A step that takes mails out of files.                                   *)
LEMMA MailsLost ==
    ASSUME IInv, KInv, ~noticed, NEW p \in Procs, Quiet(p), DOMAIN files' \subseteq DOMAIN files,
           \A u \in DOMAIN map \ exposed' :
               Kept(u) => Kept(u)' \/ (Unused(u) /\ map[u].file \notin DOMAIN files')
    PROVE  KeptUnlessExposed' /\ Traced'
<1>1. \A u : Unused(u) => Unused(u)'
    BY DEF Unused, Quiet
<1>2. ASSUME NEW b \in Boxes, NEW u \in Uids, box[b][u] > 0, u \notin exposed' PROVE Kept(u)'
    <2>1. Kept(u) /\ u \in DOMAIN map
        BY <1>2 DEF KInv, KeptUnlessExposed, Quiet, Kept
    <2>2. ~Unused(u)
        BY <1>2 DEF Unused
    <2>. QED BY <1>2, <2>1, <2>2
<1>3. KeptUnlessExposed'
    BY <1>2 DEF KeptUnlessExposed, Quiet
<1>4. ASSUME NEW u \in DOMAIN map \ exposed'
      PROVE  Kept(u)' \/ (Unused(u)' /\ map[u].file \notin DOMAIN files')
    <2>1. Kept(u) \/ (Unused(u) /\ map[u].file \notin DOMAIN files)
        BY DEF KInv, Traced, Quiet
    <2>. QED BY <1>1, <2>1
<1>5. Traced'
    BY <1>4 DEF Traced, Quiet
<1>. QED BY <1>3, <1>5

LEMMA FileGone ==
    ASSUME IInv, KInv, ~noticed, NEW p \in Procs, Quiet(p), NEW f,
           files' = Restrict(files, DOMAIN files \ {f}),
           \A u \in DOMAIN map \ exposed' : map[u].file = f /\ Kept(u) => Unused(u)
    PROVE  KeptUnlessExposed' /\ Traced'
<1>1. DOMAIN files' = DOMAIN files \ {f} /\ \A g \in DOMAIN files' : files'[g] = files[g]
    BY FewerFiles
<1>2. map' = map
    BY DEF Quiet
<1>3. ASSUME NEW u \in DOMAIN map \ exposed', Kept(u)
      PROVE  Kept(u)' \/ (Unused(u) /\ map[u].file \notin DOMAIN files')
    <2>1. CASE map[u].file = f
        BY <1>1, <1>3, <2>1
    <2>2. CASE map[u].file # f
        BY <1>1, <1>2, <1>3, <2>2 DEF Kept
    <2>. QED BY <2>1, <2>2
<1>. QED BY <1>1, <1>3, MailsLost

LEMMA PurgeUnlinkKept ==
    ASSUME IInv, IInv', KInv, NEW p \in Procs, PurgeUnlink(p)
    PROVE  KInv'
<1>1. /\ ~noticed /\ proc[p].pc = "purged" /\ Go(p, "remove")
      /\ files' = Restrict(files, DOMAIN files \ {proc[p].purged})
      /\ UNCHANGED <<map, nextUid, dirty, box, exposed, mapLock>>
    BY DEF PurgeUnlink, At, mapvars, boxes, history
<1>2. proc'[p].pc = "remove" /\ Moved(proc'[p], proc[p]) /\ \A q \in Others(p) : proc'[q] = proc[q]
    BY <1>1, GoStep DEF Pcs
<1>3. Quiet(p) /\ mapLock # p
    BY <1>1, <1>2, Own DEF Quiet, MapPcs
<1>4. CopyOK(proc[p]) /\ DeadOK(proc[p])
    BY <1>1 DEF KInv, PlaceOK
<1>5. KStays(p) /\ Numbered' /\ \A u : Unused(u)' <=> Unused(u)
    BY <1>3, QuietKept
<1>6. PlaceOK(proc[p])'
    <2>1. CopyOK(proc[p])' /\ SavedOK(proc[p])'
        BY <1>1, <1>2, <1>4 DEF CopyOK, SavedOK, Moved
    <2>2. DeadOK(proc[p])'
        BY <1>1, <1>2, <1>4, <1>5 DEF DeadOK, Past, Moved
    <2>. QED BY <2>1, <2>2 DEF PlaceOK
<1>7. \A u \in DOMAIN map \ exposed : map[u].file = proc[p].purged => Unused(u)
    BY <1>1, <1>4 DEF DeadOK, Past, In
<1>8. KeptUnlessExposed' /\ Traced'
    BY <1>1, <1>3, <1>7, FileGone
<1>9. Exact'
    BY <1>1, <1>3, ExactHeld
<1>. QED BY <1>1, <1>5, <1>6, <1>8, <1>9, KStep

LEMMA RemoveScanKept ==
    ASSUME IInv, IInv', KInv, NEW p \in Procs, RemoveScan(p)
    PROVE  KInv'
<1>1. PICK mails : mails = RecordsIn(proc[p].purged)
    OBVIOUS
<1>2. /\ ~noticed /\ proc[p].pc = "remove"
      /\ UNCHANGED <<map, nextUid, dirty, box, mapLock, files>>
      /\ exposed' = IF proc[p].purged \in DOMAIN files THEN exposed \union mails ELSE exposed
      /\ proc' = [proc EXCEPT ![p] =
                    IF mails = {} THEN Idle ELSE [@ EXCEPT !.pc = "removing", !.dead = mails]]
    BY <1>1 DEF RemoveScan, At, mapvars, boxes, locks
<1>3. PICK r0, r : /\ r0 = proc[p]
                   /\ r = IF mails = {} THEN Idle ELSE [r0 EXCEPT !.pc = "removing", !.dead = mails]
    OBVIOUS
<1>4. proc' = [proc EXCEPT ![p] = r]
    BY <1>2, <1>3 DEF IInv, Types
<1>5. proc'[p] = r /\ \A q \in Others(p) : proc'[q] = proc[q]
    BY <1>4 DEF IInv, Types, Others
<1>6. Quiet(p) /\ mapLock # p
    BY <1>2, <1>5, Own DEF Quiet, MapPcs
<1>7. Exact'
    BY <1>2, <1>6, ExactHeld
<1>8. PlaceOK(proc[p])'
    <2>1. CASE mails = {}
        BY <1>3, <1>5, <2>1, IdlePlace
    <2>2. CASE mails # {}
        <3>1. r0 \in ProcRec /\ CopyOK(r0) /\ mails \subseteq Uids /\ mails \subseteq DOMAIN map
            BY <1>1, <1>2, <1>3, Own DEF KInv, PlaceOK, RecordsIn, IInv, Types
        <3>2. /\ r.pc = "removing" /\ r.copy = r0.copy /\ r.mail = r0.mail /\ r.op = r0.op
              /\ r.dead = mails
            BY <1>3, <2>2, <3>1 DEF ProcRec, Pcs
        <3>3. CopyOK(proc[p])' /\ SavedOK(proc[p])'
            BY <1>2, <1>5, <3>1, <3>2 DEF CopyOK, SavedOK
        <3>4. ASSUME NEW u \in mails \ exposed' PROVE Unused(u)
            <4>1. map[u].file = proc[p].purged /\ proc[p].purged \notin DOMAIN files /\ u \notin exposed
                BY <1>1, <1>2 DEF RecordsIn
            <4>2. ~Kept(u)
                BY <4>1 DEF Kept
            <4>. QED BY <1>2, <3>1, <4>1, <4>2 DEF KInv, Traced
        <3>5. \A u \in mails : u < nextUid
            BY <3>1 DEF IInv, MapOK
        <3>6. \A u : Unused(u)' <=> Unused(u)
            BY <1>6, QuietKept
        <3>7. DeadOK(proc[p])'
            BY <1>2, <1>5, <3>2, <3>4, <3>5, <3>6 DEF DeadOK
        <3>. QED BY <3>3, <3>7 DEF PlaceOK
    <2>. QED BY <2>1, <2>2
<1>. QED BY <1>2, <1>6, <1>7, <1>8, FilesSame, MildStep

LEMMA CrashKept ==
    ASSUME IInv, IInv', KInv, NEW p \in Procs, Crash(p)
    PROVE  KInv'
<1>1. /\ ~noticed /\ Stop(p) /\ UNCHANGED <<map, nextUid, dirty, box, files>>
      /\ mapLock' = IF mapLock = p THEN NoProc ELSE mapLock
      /\ exposed' = IF proc[p].pc = "appended"
                    THEN exposed \union ({proc[p].copy} \ {NoMail}) ELSE exposed
    BY DEF Crash, mapvars, boxes
<1>2. proc'[p] = Idle /\ \A q \in Others(p) : proc'[q] = proc[q]
    BY <1>1 DEF Stop, IInv, Types, Others
<1>3. PlaceOK(proc[p])'
    BY <1>2, IdlePlace
<1>4. Quiet(p)
    BY <1>1, <1>2 DEF Quiet
<1>5. CASE mapLock = p
    <2>1. ASSUME ~dirty, NEW u \in DOMAIN map \ exposed'
          PROVE  Owed(proc[p], u) = 0 /\ Given(proc[p], u) = 0
        <3>1. u # NoMail
            BY DEF IInv, Types, Uids, NoMail
        <3>2. SavedOK(proc[p])
            BY <1>1 DEF KInv, PlaceOK
        <3>3. proc[p].pc = "appended" => proc[p].copy # u
            BY <1>1, <2>1, <3>1
        <3>. QED BY <2>1, <3>1, <3>2, <3>3 DEF Owed, Given, SavedOK
    <2>2. Exact'
        BY <1>1, <1>4, <1>5, <2>1, ExactFreed
    <2>. QED BY <1>1, <1>3, <1>4, <2>2, FilesSame, MildStep
<1>6. CASE mapLock # p
    <2>1. Exact'
        BY <1>1, <1>4, <1>6, ExactHeld
    <2>. QED BY <1>1, <1>3, <1>4, <2>1, FilesSame, MildStep
<1>. QED BY <1>5, <1>6

(* What is cut off is no longer counted on.                                *)
LEMMA CutOffKept ==
    ASSUME IInv, KInv, ~noticed, NEW p \in Procs, NEW mails, CutOff(p, mails),
           proc[p].mail \in mails, Quiet(p)
    PROVE  KeptUnlessExposed' /\ Traced'
<1>1. PICK f : f = proc[p].file
    OBVIOUS
<1>2. exposed' = exposed \union (mails \ {NoMail})
                 \union (IF CreatedBy(p) /\ f \in DOMAIN files THEN files[f].mails ELSE {})
    BY <1>1 DEF CutOff
<1>3. CASE CreatedBy(p)
    <2>1. files' = Restrict(files, DOMAIN files \ {f})
        BY <1>1, <1>3 DEF CutOff
    <2>2. \A u \in DOMAIN map \ exposed' : map[u].file = f /\ Kept(u) => Unused(u)
        BY <1>2, <1>3 DEF Kept
    <2>. QED BY <2>1, <2>2, FileGone
<1>4. CASE ~CreatedBy(p)
    <2>1. files \in [DOMAIN files -> FileRec] /\ map' = map
        BY DEF IInv, Types, Quiet
    <2>2. /\ DOMAIN files' = DOMAIN files
          /\ \A g \in DOMAIN files : files[g].mails \ {proc[p].mail} \subseteq files'[g].mails
        <3>1. CASE f \in DOMAIN files
            <4>1. PICK r0, m, r : /\ r0 = files[f] /\ m = r0.mails \ {proc[p].mail}
                                  /\ r = [r0 EXCEPT !.mails = m]
                OBVIOUS
            <4>2. r0 \in FileRec /\ m \in SUBSET Uids
                BY <2>1, <3>1, <4>1 DEF FileRec
            <4>3. r.mails = m
                BY <4>1, <4>2 DEF FileRec
            <4>4. files' = [files EXCEPT ![f] = r]
                BY <1>1, <1>4, <2>1, <3>1, <4>1 DEF CutOff
            <4>. QED BY <2>1, <3>1, <4>1, <4>3, <4>4
        <3>2. CASE f \notin DOMAIN files
            BY <1>1, <1>4, <3>2 DEF CutOff
        <3>. QED BY <3>1, <3>2
    <2>3. \A u \in DOMAIN map \ exposed' : u # proc[p].mail
        BY <1>2 DEF IInv, Types, Uids, NoMail
    <2>4. ASSUME NEW u \in DOMAIN map \ exposed', Kept(u) PROVE Kept(u)'
        BY <2>1, <2>2, <2>3, <2>4 DEF Kept
    <2>. QED BY <2>2, <2>4, MailsLost
<1>. QED BY <1>3, <1>4

LEMMA RollbackKept ==
    ASSUME IInv, IInv', KInv, NEW p \in Procs, Rollback(p)
    PROVE  KInv'
<1>1. /\ ~noticed /\ proc[p].pc = "synced" /\ CutOff(p, {proc[p].mail}) /\ mapLock' = NoProc
      /\ Stop(p) /\ UNCHANGED <<map, nextUid, box>>
    BY DEF Rollback, Prepared, At, boxes
<1>2. proc'[p] = Idle /\ \A q \in Others(p) : proc'[q] = proc[q]
    BY <1>1 DEF Stop, IInv, Types, Others
<1>3. PlaceOK(proc[p])'
    BY <1>2, IdlePlace
<1>4. mapLock = p
    BY <1>1, Own DEF MapPcs
<1>5. exposed \subseteq exposed' /\ {proc[p].mail} \ {NoMail} \subseteq exposed'
    BY <1>1 DEF CutOff
<1>6. Quiet(p)
    BY <1>1, <1>2, <1>4, <1>5 DEF Quiet
<1>7. KeptUnlessExposed' /\ Traced'
    BY <1>1, <1>6, CutOffKept
<1>8. \A u \in DOMAIN map \ exposed' : Owed(proc[p], u) = 0 /\ Given(proc[p], u) = 0
    <2>1. \A u \in DOMAIN map \ exposed' : u # proc[p].mail
        BY <1>5 DEF IInv, Types, Uids, NoMail
    <2>. QED BY <1>1, <2>1 DEF Owed, Given
<1>9. Exact'
    BY <1>1, <1>4, <1>6, <1>8, ExactFreed
<1>. QED BY <1>1, <1>3, <1>6, <1>7, <1>9, QuietKept, KStep

LEMMA CommitFailsKept ==
    ASSUME IInv, IInv', KInv, NEW p \in Procs, CommitFails(p)
    PROVE  KInv'
<1>1. /\ ~noticed /\ proc[p].pc = "appended" /\ CutOff(p, {proc[p].mail, proc[p].copy})
      /\ Go(p, "finish") /\ UNCHANGED <<map, nextUid, dirty, box, mapLock>>
    BY DEF CommitFails, At, mapvars, boxes
<1>2. proc'[p].pc = "finish" /\ Moved(proc'[p], proc[p]) /\ \A q \in Others(p) : proc'[q] = proc[q]
    BY <1>1, GoStep DEF Pcs
<1>3. PlaceOK(proc[p])'
    BY <1>1, <1>2, GoPlace
<1>4. exposed \subseteq exposed' /\ {proc[p].copy} \ {NoMail} \subseteq exposed'
    BY <1>1 DEF CutOff
<1>5. Quiet(p)
    BY <1>1, <1>2, <1>4 DEF Quiet
<1>6. KeptUnlessExposed' /\ Traced'
    BY <1>1, <1>5, CutOffKept
<1>7. \A u \in DOMAIN map \ exposed' : /\ Owed(proc'[p], u) = Owed(proc[p], u)
                                       /\ Given(proc'[p], u) = Given(proc[p], u)
    <2>1. \A u \in DOMAIN map \ exposed' : u # proc[p].copy
        BY <1>4 DEF IInv, Types, Uids, NoMail
    <2>. QED BY <1>1, <1>2, <2>1 DEF Owed, Given
<1>8. Exact'
    BY <1>1, <1>5, <1>7, ExactHeld
<1>. QED BY <1>1, <1>3, <1>5, <1>6, <1>8, QuietKept, KStep

(* Requests, and nothing at all.                                           *)
LEMMA SameKept ==
    ASSUME KInv, UNCHANGED <<map, nextUid, box, files, exposed, noticed, proc, mapLock, dirty>>
    PROVE  KInv'
<1>1. \A u : (Unused(u)' <=> Unused(u)) /\ (Kept(u)' <=> Kept(u)) /\ References(u)' = References(u)
    BY DEF Unused, Kept, References, Messages
<1>2. Numbered' /\ KeptUnlessExposed'
    BY <1>1 DEF KInv, Numbered, KeptUnlessExposed, Messages
<1>3. ASSUME ~noticed PROVE Traced' /\ Exact'
    <2>1. Traced'
        BY <1>1, <1>3 DEF KInv, Traced
    <2>2. Exact'
        BY <1>1, <1>3 DEF KInv, Exact, Owed, Given
    <2>. QED BY <2>1, <2>2
<1>4. ASSUME ~noticed, NEW p \in Procs PROVE PlaceOK(proc[p])'
    <2>1. CopyOK(proc[p]) /\ SavedOK(proc[p]) /\ DeadOK(proc[p])
        BY <1>4 DEF KInv, PlaceOK
    <2>2. CopyOK(proc[p])' /\ SavedOK(proc[p])'
        BY <2>1 DEF CopyOK, SavedOK
    <2>3. DeadOK(proc[p])'
        BY <1>1, <2>1 DEF DeadOK
    <2>. QED BY <2>2, <2>3 DEF PlaceOK
<1>. QED BY <1>2, <1>3, <1>4 DEF KInv

-----------------------------------------------------------------------------
(* Actions that change counts or mailboxes, and no file.                   *)

LEMMA FilesAlone ==
    ASSUME KInv, ~noticed, files' = files, DOMAIN map' = DOMAIN map, exposed \subseteq exposed',
           \A u \in DOMAIN map : map'[u].file = map[u].file,
           \A b \in Boxes, u \in Uids : box'[b][u] > 0 /\ u \notin exposed' => Kept(u),
           \A u \in DOMAIN map \ exposed' :
               Unused(u) /\ map[u].file \notin DOMAIN files => Unused(u)'
    PROVE  KeptUnlessExposed' /\ Traced'
<1>1. \A u : Kept(u) => Kept(u)'
    BY DEF Kept
<1>2. KeptUnlessExposed'
    BY <1>1 DEF KeptUnlessExposed
<1>3. ASSUME NEW u \in DOMAIN map \ exposed'
      PROVE  Kept(u)' \/ (Unused(u)' /\ map'[u].file \notin DOMAIN files')
    <2>1. Kept(u) \/ (Unused(u) /\ map[u].file \notin DOMAIN files)
        BY DEF KInv, Traced
    <2>. QED BY <1>1, <2>1
<1>4. Traced'
    BY <1>3 DEF Traced
<1>. QED BY <1>2, <1>4

(* The counts, as the process sees them that has the map.                  *)
LEMMA ExactMine ==
    ASSUME NEW p \in Procs, mapLock' = p,
           \A u \in DOMAIN map' \ exposed' :
               map'[u].ref + Owed(proc'[p], u) = References(u)' + Given(proc'[p], u)
    PROVE  Exact'
<1>1. \A u \in DOMAIN map' \ exposed' : \A q \in Procs : mapLock' = q =>
         map'[u].ref + Owed(proc'[q], u) = References(u)' + Given(proc'[q], u)
    OBVIOUS
<1>. QED BY <1>1, NoProcAssumption DEF Exact, Owed, Given

LEMMA SyncMapKept ==
    ASSUME IInv, IInv', KInv, NEW p \in Procs, SyncMap(p)
    PROVE  KInv'
<1>0. PICK b \in Boxes : b = proc[p].box
    BY Own
<1>1. PICK todo : b = proc[p].box /\ todo = requests[b]
    BY <1>0
<1>2. /\ ~noticed /\ proc[p].pc = "mapped" /\ UNCHANGED <<nextUid, files, mapLock, box, exposed>>
    BY <1>1 DEF SyncMap, At, boxes, history
<1>3. /\ mapLock = p /\ proc[p].mail = NoMail /\ proc[p] \in ProcRec
      /\ proc \in [Procs -> ProcRec] /\ todo \in [Uids -> Nat]
    <2>1. mapLock = p /\ proc[p].mail = NoMail /\ proc[p] \in ProcRec
        BY <1>2, Own DEF MapPcs, ProcOK
    <2>. QED BY <1>1, <2>1 DEF IInv, Types
<1>4. CopyOK(proc[p]) /\ DeadOK(proc[p])
    BY <1>2 DEF KInv, PlaceOK
<1>5. \A u \in DOMAIN map : u \in Uids /\ u # NoMail
    BY DEF IInv, Types, Uids, NoMail
<1>6. CASE todo = NoRequests
    <2>1. Go(p, "synced") /\ UNCHANGED <<map, dirty, noticed>>
        BY <1>1, <1>6 DEF SyncMap
    <2>2. /\ proc'[p].pc = "synced" /\ Moved(proc'[p], proc[p])
          /\ \A q \in Others(p) : proc'[q] = proc[q]
        BY <2>1, GoStep DEF Pcs
    <2>3. Quiet(p)
        BY <1>2, <2>1, <2>2 DEF Quiet
    <2>4. \A u \in DOMAIN map : /\ Owed(proc'[p], u) = Owed(proc[p], u)
                                /\ Given(proc'[p], u) = Given(proc[p], u)
        BY <1>2, <1>3, <1>5, <2>2 DEF Owed, Given, Moved
    <2>5. Exact'
        BY <1>2, <2>1, <2>3, <2>4, ExactHeld
    <2>6. CopyOK(proc[p])' /\ SavedOK(proc[p])' /\ DeadOK(proc[p])'
        BY <1>2, <1>3, <1>4, <2>2 DEF CopyOK, SavedOK, DeadOK, Moved, Past
    <2>. QED BY <1>2, <2>3, <2>5, <2>6, FilesSame, MildStep DEF PlaceOK
<1>7. CASE todo # NoRequests
    <2>1. /\ noticed' = ~Counted(todo) /\ dirty' = TRUE
          /\ map' = IF Counted(todo)
                    THEN [u \in DOMAIN map |-> [map[u] EXCEPT !.ref = @ - todo[u]]] ELSE map
          /\ proc' = [proc EXCEPT ![p].pc = "refs", ![p].todo = todo, ![p].success = TRUE]
        BY <1>1, <1>7 DEF SyncMap
    <2>2. PICK r0, r : r0 = proc[p] /\ r = [r0 EXCEPT !.pc = "refs", !.todo = todo, !.success = TRUE]
        OBVIOUS
    <2>3. /\ r.pc = "refs" /\ r.mail = r0.mail /\ r.copy = r0.copy /\ r.op = r0.op
          /\ r.dead = r0.dead /\ r.todo = todo
        BY <1>3, <2>2 DEF ProcRec, Pcs
    <2>4. proc' = [proc EXCEPT ![p] = r]
        BY <1>3, <2>1, <2>2
    <2>5. proc'[p] = r /\ \A q \in Others(p) : proc'[q] = proc[q]
        BY <1>3, <2>4 DEF Others
    <2>6. \A u \in DOMAIN map : map[u].ref \in Nat /\ todo[u] \in Nat
        BY <1>3, <1>5 DEF IInv, Types, MapRec
    <2>7. /\ DOMAIN map' = DOMAIN map
          /\ \A u \in DOMAIN map : /\ map'[u].file = map[u].file
                                   /\ Counted(todo) => map'[u].ref = map[u].ref - todo[u]
                                   /\ ~Counted(todo) => map' = map
        <3>1. CASE Counted(todo)
            <4>1. PICK R : R = [u \in DOMAIN map |-> map[u].ref - todo[u]]
                OBVIOUS
            <4>2. ASSUME NEW u \in DOMAIN map PROVE R[u] \in Nat /\ R[u] < RefLimit
                <5>1. map[u].ref < RefLimit /\ RefLimit \in Nat
                    BY BoundsAssumption DEF IInv, MapOK
                <5>2. todo[u] > 0 => map[u].ref >= todo[u]
                    BY <1>5, <3>1 DEF Counted
                <5>3. R[u] = map[u].ref - todo[u]
                    BY <4>1
                <5>. QED BY <2>6, <5>1, <5>2, <5>3
            <4>3. R \in [DOMAIN map -> Nat]
                BY <4>1, <4>2
            <4>4. map' = [u \in DOMAIN map |-> [map[u] EXCEPT !.ref = R[u]]]
                BY <2>1, <3>1, <4>1
            <4>5. UNCHANGED <<nextUid, highest>>
                BY DEF SyncMap
            <4>6. /\ DOMAIN map' = DOMAIN map
                  /\ \A u \in DOMAIN map : map'[u].file = map[u].file /\ map'[u].ref = R[u]
                BY <4>2, <4>3, <4>4, <4>5, Recounted
            <4>. QED BY <3>1, <4>1, <4>6
        <3>2. CASE ~Counted(todo)
            BY <2>1, <3>2
        <3>. QED BY <3>1, <3>2
    <2>8. ASSUME NEW u, Unused(u) PROVE Unused(u)'
        <3>1. ASSUME u \in DOMAIN map PROVE map'[u].ref = 0
            <4>1. map[u].ref = 0
                BY <2>8, <3>1 DEF Unused
            <4>2. Counted(todo) => todo[u] = 0
                BY <1>5, <2>6, <3>1, <4>1 DEF Counted
            <4>. QED BY <2>7, <3>1, <4>1, <4>2
        <3>. QED BY <1>2, <2>7, <2>8, <3>1 DEF Unused
    <2>9. KStays(p)
        <3>1. nextUid \in Nat
            BY DEF IInv, Types
        <3>2. \A q \in Others(p) : In(map', proc[q].purged) \subseteq In(map, proc[q].purged)
            BY <2>7 DEF In
        <3>. QED BY <1>2, <1>3, <2>5, <2>8, <3>1, <3>2 DEF KStays
    <2>10. Numbered'
        BY <1>2 DEF KInv, Numbered, Messages
    <2>11. KeptUnlessExposed' /\ Traced'
        <3>1. \A c \in Boxes, u \in Uids : box'[c][u] > 0 /\ u \notin exposed' => Kept(u)
            BY <1>2 DEF KInv, KeptUnlessExposed
        <3>. QED BY <1>2, <2>7, <2>8, <3>1, FilesAlone
    <2>12. CopyOK(proc[p])' /\ SavedOK(proc[p])' /\ DeadOK(proc[p])'
        BY <1>2, <1>4, <2>1, <2>2, <2>3, <2>5 DEF CopyOK, SavedOK, DeadOK, Past
    <2>13. ASSUME ~noticed' PROVE Exact'
        <3>1. ASSUME NEW u \in DOMAIN map' \ exposed'
              PROVE  map'[u].ref + Owed(proc'[p], u) = References(u)' + Given(proc'[p], u)
            <4>1. u \in DOMAIN map \ exposed /\ u \in Uids
                BY <1>2, <1>5, <2>7
            <4>2. map[u].ref + Owed(proc[p], u) = References(u) + Given(proc[p], u)
                BY <1>2, <1>3, <4>1 DEF KInv, Exact
            <4>3. Owed(proc[p], u) = 0 /\ Given(proc[p], u) = 0
                BY <1>2 DEF Owed, Given
            <4>4. Owed(proc'[p], u) = todo[u] /\ Given(proc'[p], u) = 0
                BY <2>3, <2>5 DEF Owed, Given
            <4>5. map'[u].ref = map[u].ref - todo[u]
                BY <2>1, <2>7, <2>13, <4>1
            <4>6. References(u)' = References(u) /\ References(u) \in Nat
                BY <1>2, <4>1, RefsNat DEF References, Messages
            <4>7. map[u].ref \in Nat /\ todo[u] \in Nat
                BY <2>6, <4>1
            <4>. QED BY <4>2, <4>3, <4>4, <4>5, <4>6, <4>7
        <3>. QED BY <1>2, <1>3, <3>1, ExactMine
    <2>. QED BY <1>2, <2>9, <2>10, <2>11, <2>12, <2>13, KStep DEF PlaceOK
<1>. QED BY <1>6, <1>7

LEMMA SavedUids ==
    ASSUME IInv
    PROVE  \A u \in 1..nextUid - 1 : u \in Uids
<1>1. IsFiniteSet(Saving)
    BY FiniteAssumption, FS_Subset DEF Saving
<1>2. Cardinality(Saving) \in Nat
    BY <1>1, FS_CardinalityType
<1>3. nextUid <= MaxMails + 1 /\ MaxMails \in Nat /\ nextUid \in Nat
    BY <1>2, BoundsAssumption DEF IInv, BoundsOK, Types
<1>. QED BY <1>3 DEF Uids

LEMMA SyncBoxKept ==
    ASSUME IInv, IInv', KInv, NEW p \in Procs, SyncBox(p)
    PROVE  KInv'
<1>1. /\ ~noticed /\ proc[p].pc = "refs"
      /\ proc' = [proc EXCEPT ![p].pc = "synced", ![p].todo = NoRequests]
      /\ UNCHANGED <<map, nextUid, dirty, files, mapLock, noticed, exposed>>
    BY DEF SyncBox, At, mapvars, locks, history
<1>2. PICK r0, t, r : r0 = proc[p] /\ t = NoRequests /\ r = [r0 EXCEPT !.pc = "synced", !.todo = t]
    OBVIOUS
<1>3. /\ r0 \in ProcRec /\ t \in [Uids -> Nat] /\ r0.mail = NoMail /\ mapLock = p
      /\ CopyOK(r0) /\ DeadOK(r0)
    BY <1>1, <1>2, Own DEF NoRequests, ProcOK, MapPcs, KInv, PlaceOK
<1>4. r.pc = "synced" /\ r.op = r0.op /\ r.mail = r0.mail /\ r.copy = r0.copy /\ r.dead = r0.dead
    BY <1>2, <1>3 DEF ProcRec, Pcs
<1>5. proc'[p] = r /\ \A q \in Others(p) : proc'[q] = proc[q]
    <2>1. proc' = [proc EXCEPT ![p] = r]
        BY <1>1, <1>2 DEF IInv, Types
    <2>. QED BY <2>1 DEF IInv, Types, Others
<1>6. PICK b0 \in Boxes : b0 = proc[p].box
    BY Own
<1>7. ASSUME NEW u \in Uids PROVE SomeLess(box, box', u, b0, r0.todo[u])
    <2>1. r0.todo[u] <= requests[b0][u]
        BY <1>1, <1>2, <1>6, Own DEF RefsOK
    <2>2. requests[b0][u] \in Nat /\ box[b0][u] \in Nat /\ requests[b0][u] <= box[b0][u]
        BY DEF IInv, Types, BoxesOK
    <2>3. r0.todo[u] \in Nat
        BY <1>3 DEF ProcRec
    <2>4. PICK B : B = [v \in Uids |-> box[b0][v] - r0.todo[v]]
        OBVIOUS
    <2>5. box' = [box EXCEPT ![b0] = B]
        BY <1>2, <1>6, <2>4 DEF SyncBox, IInv, Types
    <2>6. box'[b0][u] = box[b0][u] - r0.todo[u] /\ \A c \in Boxes \ {b0} : box'[c][u] = box[c][u]
        BY <2>4, <2>5 DEF IInv, Types
    <2>. QED BY <2>1, <2>2, <2>3, <2>6 DEF SomeLess
<1>8. ASSUME NEW u \in Uids
      PROVE  /\ IsFiniteSet(Named(box', u)) /\ References(u)' = References(u) - r0.todo[u]
             /\ References(u) \in Nat
    <2>1. IsFiniteSet(Named(box, u)) /\ References(u) = Cardinality(Named(box, u)) /\ References(u) \in Nat
        BY RefsNat DEF References
    <2>2. PICK n : n = r0.todo[u]
        OBVIOUS
    <2>3. SomeLess(box, box', u, b0, n)
        BY <1>7, <2>2
    <2>4. IsFiniteSet(Named(box', u)) /\ Cardinality(Named(box', u)) = Cardinality(Named(box, u)) - n
        BY <2>1, <2>3, NamedLess
    <2>. QED BY <2>1, <2>2, <2>4 DEF References, Messages, Named
<1>9. ASSUME NEW c \in Boxes, NEW u \in Uids
      PROVE  (box'[c][u] > 0 => box[c][u] > 0) /\ (box[c][u] = 0 => box'[c][u] = 0)
    <2>1. SomeLess(box, box', u, b0, r0.todo[u])
        BY <1>7
    <2>2. r0.todo[u] \in Nat /\ box[c][u] \in Nat /\ box'[c][u] \in Nat
        BY <1>3 DEF IInv, Types, ProcRec
    <2>. QED BY <2>1, <2>2 DEF SomeLess
<1>10. ASSUME NEW u \in Uids, Unused(u) PROVE Unused(u)'
    BY <1>1, <1>9, <1>10 DEF Unused
<1>11. Numbered'
    <2>1. \A u \in Uids : IsFiniteSet(Messages(u))'
        BY <1>8 DEF Messages, Named
    <2>. QED BY <1>1, <1>9, <2>1 DEF KInv, Numbered
<1>12. nextUid \in Nat /\ \A u \in DOMAIN map : u \in Uids /\ u # NoMail
    BY DEF IInv, Types, Uids, NoMail
<1>13. KStays(p)
    <2>1. \A u \in 1..nextUid - 1 : u \in Uids
        BY SavedUids
    <2>2. \A u \in 1..nextUid - 1 : Unused(u) => Unused(u)'
        BY <1>10, <2>1
    <2>3. nextUid' \in Nat /\ nextUid <= nextUid' /\ exposed \subseteq exposed' /\ mapLock \in {p, NoProc}
        BY <1>1, <1>3, <1>12
    <2>4. map' = map
        BY <1>1
    <2>. QED BY <1>5, <2>2, <2>3, <2>4 DEF KStays
<1>14. KeptUnlessExposed' /\ Traced'
    <2>1. \A c \in Boxes, u \in Uids : box'[c][u] > 0 /\ u \notin exposed' => Kept(u)
        BY <1>1, <1>9 DEF KInv, KeptUnlessExposed
    <2>. QED BY <1>1, <1>10, <1>12, <2>1, FilesAlone
<1>15. CopyOK(proc[p])' /\ SavedOK(proc[p])' /\ DeadOK(proc[p])'
    BY <1>1, <1>3, <1>4, <1>5 DEF CopyOK, SavedOK, DeadOK, Past
<1>16. Exact'
    <2>1. ASSUME NEW u \in DOMAIN map' \ exposed'
          PROVE  map'[u].ref + Owed(proc'[p], u) = References(u)' + Given(proc'[p], u)
        <3>1. u \in DOMAIN map \ exposed /\ u \in Uids /\ u # NoMail
            BY <1>1, <1>12
        <3>2. map[u].ref + Owed(proc[p], u) = References(u) + Given(proc[p], u)
            BY <1>1, <1>3, <3>1 DEF KInv, Exact
        <3>3. Owed(proc[p], u) = r0.todo[u] /\ Given(proc[p], u) = 0
            BY <1>1, <1>2 DEF Owed, Given
        <3>4. Owed(proc'[p], u) = 0 /\ Given(proc'[p], u) = 0
            BY <1>3, <1>4, <1>5, <3>1 DEF Owed, Given
        <3>5. References(u)' = References(u) - r0.todo[u] /\ References(u) \in Nat
            BY <1>8, <3>1
        <3>6. map[u].ref \in Nat /\ r0.todo[u] \in Nat /\ map' = map
            BY <1>1, <1>3, <3>1 DEF IInv, Types, MapRec, ProcRec
        <3>. QED BY <3>2, <3>3, <3>4, <3>5, <3>6
    <2>. QED BY <1>1, <1>3, <2>1, ExactMine
<1>. QED BY <1>1, <1>11, <1>13, <1>14, <1>15, <1>16, KStep DEF PlaceOK

LEMMA CommitKept ==
    ASSUME IInv, IInv', KInv, NEW p \in Procs, Commit(p)
    PROVE  KInv'
<1>1. PICK c : c = proc[p].copy
    OBVIOUS
<1>2. /\ ~noticed /\ proc[p].pc = "appended"
      /\ map' = IF c = NoMail THEN map ELSE [map EXCEPT ![c].ref = @ + 1]
      /\ proc' = [proc EXCEPT ![p].pc = "finish", ![p].success = TRUE]
      /\ UNCHANGED <<nextUid, files, mapLock, noticed, box, exposed>>
    BY <1>1 DEF Commit, At, boxes, history
<1>3. proc'[p].pc = "finish" /\ Moved(proc'[p], proc[p]) /\ \A q \in Others(p) : proc'[q] = proc[q]
    BY <1>2, GoWellStep DEF Pcs
<1>4. PlaceOK(proc[p])'
    BY <1>2, <1>3, GoPlace
<1>5. /\ mapLock = p /\ nextUid \in Nat
      /\ \A u \in DOMAIN map : u \in Uids /\ u # NoMail /\ map[u].ref \in Nat
      /\ c # NoMail => c \in DOMAIN map
    <2>1. mapLock = p /\ (c # NoMail => c \in DOMAIN map)
        BY <1>1, <1>2, Own DEF MapPcs, RefsOK
    <2>2. nextUid \in Nat /\ \A u \in DOMAIN map : u \in Uids /\ u # NoMail /\ map[u].ref \in Nat
        BY DEF IInv, Types, Uids, NoMail, MapRec
    <2>. QED BY <2>1, <2>2
<1>6. /\ DOMAIN map' = DOMAIN map
      /\ \A u \in DOMAIN map : /\ map'[u].file = map[u].file
                               /\ map'[u].ref = IF u = c THEN map[u].ref + 1 ELSE map[u].ref
    <2>1. CASE c = NoMail
        BY <1>2, <1>5, <2>1
    <2>2. CASE c # NoMail
        <3>1. PICK m0, n, m : m0 = map[c] /\ n = m0.ref + 1 /\ m = [m0 EXCEPT !.ref = n]
            OBVIOUS
        <3>2. m0 \in MapRec /\ n \in Nat
            BY <1>5, <2>2, <3>1 DEF IInv, Types, MapRec
        <3>3. m.file = m0.file /\ m.ref = n
            BY <3>1, <3>2 DEF MapRec
        <3>4. map' = [map EXCEPT ![c] = m]
            BY <1>2, <2>2, <3>1 DEF IInv, Types
        <3>. QED BY <1>5, <2>2, <3>1, <3>3, <3>4 DEF IInv, Types
    <2>. QED BY <2>1, <2>2
<1>7. ASSUME NEW u, Unused(u) PROVE Unused(u)'
    <2>1. c # NoMail => box[proc[p].box][c] > 0 /\ proc[p].box \in Boxes
        BY <1>1, <1>2, Own DEF KInv, PlaceOK, SavedOK
    <2>2. u \in DOMAIN map => u # c
        BY <1>5, <1>7, <2>1 DEF Unused
    <2>. QED BY <1>2, <1>6, <1>7, <2>2 DEF Unused
<1>8. KStays(p)
    <2>1. \A q \in Others(p) : In(map', proc[q].purged) \subseteq In(map, proc[q].purged)
        BY <1>6 DEF In
    <2>2. nextUid' \in Nat /\ nextUid <= nextUid' /\ exposed \subseteq exposed' /\ mapLock \in {p, NoProc}
        BY <1>2, <1>5
    <2>. QED BY <1>3, <1>7, <2>1, <2>2 DEF KStays
<1>9. Numbered'
    BY <1>2 DEF KInv, Numbered, Messages
<1>10. KeptUnlessExposed' /\ Traced'
    <2>1. \A b \in Boxes, u \in Uids : box'[b][u] > 0 /\ u \notin exposed' => Kept(u)
        BY <1>2 DEF KInv, KeptUnlessExposed
    <2>. QED BY <1>2, <1>6, <1>7, <2>1, FilesAlone
<1>11. Exact'
    <2>1. ASSUME NEW u \in DOMAIN map' \ exposed'
          PROVE  map'[u].ref + Owed(proc'[p], u) = References(u)' + Given(proc'[p], u)
        <3>1. u \in DOMAIN map \ exposed /\ u \in Uids
            BY <1>2, <1>5, <1>6
        <3>2. map[u].ref + Owed(proc[p], u) = References(u) + Given(proc[p], u)
            BY <1>2, <1>5, <3>1 DEF KInv, Exact
        <3>3. Owed(proc[p], u) = (IF u = c THEN 1 ELSE 0) /\ Given(proc[p], u) = 0
            BY <1>1, <1>2 DEF Owed, Given
        <3>4. Owed(proc'[p], u) = 0 /\ Given(proc'[p], u) = 0
            BY <1>3 DEF Owed, Given
        <3>5. References(u)' = References(u) /\ References(u) \in Nat
            BY <1>2, <3>1, RefsNat DEF References, Messages
        <3>6. map[u].ref \in Nat /\ map'[u].ref = IF u = c THEN map[u].ref + 1 ELSE map[u].ref
            BY <1>5, <1>6, <3>1
        <3>. QED BY <3>2, <3>3, <3>4, <3>5, <3>6
    <2>. QED BY <1>2, <1>5, <2>1, ExactMine
<1>. QED BY <1>2, <1>4, <1>8, <1>9, <1>10, <1>11, KStep

(* A transaction adds one message for the mail it saved, one for the copy. *)
LEMMA AppendBox ==
    ASSUME IInv, KInv, NEW p \in Procs, Append(p), NEW u \in Uids
    PROVE  /\ u \in {proc[p].mail, proc[p].copy} => OneMore(box, box', u, proc[p].box)
           /\ u \notin {proc[p].mail, proc[p].copy} => \A c \in Boxes : box'[c][u] = box[c][u]
<1>1. PICK m, c, b : m = proc[p].mail /\ c = proc[p].copy /\ b = proc[p].box
    OBVIOUS
<1>2. /\ m \in Int /\ c \in Int /\ b \in Boxes /\ u # NoMail
      /\ m # NoMail => c < m
    <2>1. m \in Int /\ c \in Int /\ b \in Boxes
        BY <1>1, Own DEF ProcRec
    <2>2. ~noticed
        BY DEF Append, Prepared, At
    <2>3. m # NoMail => c < m
        BY <1>1, <2>2 DEF KInv, PlaceOK, CopyOK
    <2>. QED BY <2>1, <2>3 DEF Uids, NoMail
<1>3. PICK S : S = {n \in {"mail", "copy"} : proc[p][n] = u}
    OBVIOUS
<1>4. ("mail" \in S <=> m = u) /\ ("copy" \in S <=> c = u) /\ S \subseteq {"mail", "copy"}
    BY <1>1, <1>3
<1>5. Cardinality(S) = IF u \in {m, c} THEN 1 ELSE 0
    <2>1. CASE u = m
        <3>0. c # u
            BY <1>2, <2>1
        <3>1. S = {"mail"}
            BY <1>4, <2>1, <3>0
        <3>. QED BY <2>1, <3>1, FS_Singleton
    <2>2. CASE u # m /\ u = c
        <3>1. S = {"copy"}
            BY <1>4, <2>2
        <3>. QED BY <2>2, <3>1, FS_Singleton
    <2>3. CASE u # m /\ u # c
        <3>1. S = {}
            BY <1>4, <2>3
        <3>. QED BY <2>3, <3>1, FS_EmptySet
    <2>. QED BY <2>1, <2>2, <2>3
<1>6. PICK N : N = [v \in Uids |-> Cardinality({n \in {"mail", "copy"} : proc[p][n] = v})]
    OBVIOUS
<1>7. N[u] = Cardinality(S)
    BY <1>3, <1>6
<1>8. box' = [box EXCEPT ![b] = [v \in Uids |-> @[v] + N[v]]]
    BY <1>1, <1>6 DEF Append
<1>9. box'[b][u] = box[b][u] + N[u] /\ \A d \in Boxes \ {b} : box'[d] = box[d]
    BY <1>2, <1>8 DEF IInv, Types
<1>10. box[b][u] \in Nat
    BY <1>2 DEF IInv, Types
<1>11. u \in {m, c} => OneMore(box, box', u, b)
    BY <1>5, <1>7, <1>9, <1>10 DEF OneMore
<1>12. u \notin {m, c} => \A d \in Boxes : box'[d][u] = box[d][u]
    BY <1>5, <1>7, <1>9, <1>10
<1>. QED BY <1>1, <1>11, <1>12

LEMMA AppendKept ==
    ASSUME IInv, IInv', KInv, NEW p \in Procs, Append(p)
    PROVE  KInv'
<1>1. PICK m, c, b : m = proc[p].mail /\ c = proc[p].copy /\ b = proc[p].box
    OBVIOUS
<1>2. /\ ~noticed /\ proc[p].pc = "synced" /\ Copyable(c) /\ Go(p, "appended")
      /\ exposed' = exposed \union ({c} \intersect Doomed)
      /\ UNCHANGED <<map, nextUid, dirty, files, mapLock, noticed>>
    BY <1>1 DEF Append, Prepared, At, mapvars, locks
<1>3. /\ proc'[p].pc = "appended" /\ Moved(proc'[p], proc[p])
      /\ \A q \in Others(p) : proc'[q] = proc[q]
    BY <1>2, GoStep DEF Pcs
<1>4. /\ mapLock = p /\ b \in Boxes /\ nextUid \in Nat /\ c \in Int /\ m \in Int
      /\ CopyOK(proc[p]) /\ SavedOK(proc[p]) /\ DeadOK(proc[p])
      /\ \A u \in DOMAIN map : u \in Uids /\ u # NoMail /\ map[u].ref \in Nat /\ u < nextUid
    <2>1. mapLock = p /\ b \in Boxes /\ c \in Int /\ m \in Int
        BY <1>1, <1>2, Own DEF MapPcs, ProcRec
    <2>2. CopyOK(proc[p]) /\ SavedOK(proc[p]) /\ DeadOK(proc[p])
        BY <1>2 DEF KInv, PlaceOK
    <2>3. \A u \in DOMAIN map : u \in Uids /\ u # NoMail /\ map[u].ref \in Nat /\ u < nextUid
        BY DEF IInv, Types, Uids, NoMail, MapRec, MapOK
    <2>. QED BY <2>1, <2>2, <2>3 DEF IInv, Types
<1>5. m # NoMail => m \in DOMAIN map /\ map[m].ref > 0
    BY <1>1, <1>2, <1>4 DEF SavedOK
<1>6. c # NoMail => c \in DOMAIN map /\ c < nextUid
    BY <1>2, <1>4 DEF Copyable
<1>7. ASSUME NEW u, Fated(u), u \notin exposed', Unused(u) PROVE (u # m /\ u # c) \/ u = NoMail
    <2>1. u = m => m = NoMail
        BY <1>5, <1>7 DEF Unused
    <2>2. ASSUME u = c, c # NoMail PROVE FALSE
        <3>1. u \in DOMAIN map /\ map[u].ref = 0
            BY <1>6, <1>7, <2>2 DEF Unused
        <3>2. u \notin Doomed
            BY <1>2, <1>7, <2>2
        <3>3. map[u].file \in DOMAIN files
            BY <3>1, <3>2 DEF Doomed
        <3>4. PICK q \in Procs : proc[q].pc \in Past /\ u \in proc[q].dead
            BY <1>7, <3>3 DEF Fated
        <3>5. proc[q].pc # "checked"
            <4>1. SUFFICES ASSUME proc[q].pc = "checked" PROVE FALSE
                OBVIOUS
            <4>2. mapLock = q
                BY <4>1, Own DEF MapPcs
            <4>. QED BY <1>2, <1>4, <4>1, <4>2
        <3>. QED BY <1>4, <3>1, <3>2, <3>4, <3>5 DEF Doomed, Past
    <2>. QED BY <2>1, <2>2
<1>8. ASSUME NEW u \in Uids, Fated(u), u \notin exposed', Unused(u) PROVE Unused(u)'
    <2>1. u # m /\ u # c
        BY <1>7, <1>8 DEF Uids, NoMail
    <2>2. \A d \in Boxes : box'[d][u] = box[d][u]
        BY <1>1, <2>1, AppendBox
    <2>. QED BY <1>2, <1>8, <2>2 DEF Unused
<1>9. KStays(p)
    <2>1. \A u \in 1..nextUid - 1 : u \in Uids
        BY SavedUids
    <2>2. nextUid' \in Nat /\ nextUid <= nextUid' /\ exposed \subseteq exposed' /\ mapLock \in {p, NoProc}
        BY <1>2, <1>4
    <2>3. map' = map
        BY <1>2
    <2>4. \A u \in 1..nextUid - 1 : Fated(u) /\ u \notin exposed' /\ Unused(u) => Unused(u)'
        BY <1>8, <2>1
    <2>. QED BY <1>3, <2>2, <2>3, <2>4 DEF KStays
<1>10. ASSUME NEW u \in Uids
       PROVE  /\ IsFiniteSet(Named(box', u)) /\ References(u) \in Nat
              /\ References(u)' = References(u) + IF u \in {m, c} THEN 1 ELSE 0
    <2>1. IsFiniteSet(Named(box, u)) /\ References(u) = Cardinality(Named(box, u)) /\ References(u) \in Nat
        BY RefsNat DEF References
    <2>2. References(u)' = Cardinality(Named(box', u))
        BY DEF References, Messages, Named
    <2>3. CASE u \in {m, c}
        <3>1. OneMore(box, box', u, b)
            BY <1>1, <2>3, AppendBox
        <3>2. /\ IsFiniteSet(Named(box', u))
              /\ Cardinality(Named(box', u)) = Cardinality(Named(box, u)) + 1
            BY <1>4, <2>1, <3>1, NamedMore
        <3>. QED BY <2>1, <2>2, <2>3, <3>2
    <2>4. CASE u \notin {m, c}
        <3>1. \A d \in Boxes : box'[d][u] = box[d][u]
            BY <1>1, <2>4, AppendBox
        <3>2. Named(box', u) = Named(box, u)
            BY <3>1, NamedSame
        <3>. QED BY <2>1, <2>2, <2>4, <3>2
    <2>. QED BY <2>3, <2>4
<1>11. ASSUME NEW d \in Boxes, NEW u \in Uids, box'[d][u] > 0 PROVE box[d][u] > 0 \/ u \in {m, c}
    BY <1>1, <1>11, AppendBox
<1>12. Numbered'
    <2>1. \A u \in Uids : IsFiniteSet(Messages(u))'
        BY <1>10 DEF Messages, Named
    <2>2. ASSUME NEW d \in Boxes, NEW u \in Uids, box'[d][u] > 0 PROVE u < nextUid
        <3>1. u # NoMail
            BY DEF Uids, NoMail
        <3>2. CASE box[d][u] > 0
            BY <3>2 DEF KInv, Numbered
        <3>3. CASE u \in {m, c}
            BY <1>4, <1>5, <1>6, <3>1, <3>3
        <3>. QED BY <1>11, <2>2, <3>2, <3>3
    <2>. QED BY <1>2, <2>1, <2>2 DEF Numbered
<1>13. KeptUnlessExposed' /\ Traced'
    <2>1. ASSUME NEW d \in Boxes, NEW u \in Uids, box'[d][u] > 0, u \notin exposed' PROVE Kept(u)
        <3>1. u # NoMail /\ u \notin exposed
            BY <1>2, <2>1 DEF Uids, NoMail
        <3>2. CASE box[d][u] > 0
            BY <3>1, <3>2 DEF KInv, KeptUnlessExposed
        <3>3. CASE u \in {m, c}
            <4>1. u \in DOMAIN map
                BY <1>5, <1>6, <3>1, <3>3
            <4>2. Kept(u) \/ (Unused(u) /\ map[u].file \notin DOMAIN files)
                BY <1>2, <3>1, <4>1 DEF KInv, Traced
            <4>3. map[u].file \notin DOMAIN files => Fated(u)
                BY <4>1 DEF Fated
            <4>. QED BY <1>7, <2>1, <3>1, <3>3, <4>2, <4>3
        <3>. QED BY <1>11, <2>1, <3>2, <3>3
    <2>2. ASSUME NEW u \in DOMAIN map \ exposed', Unused(u), map[u].file \notin DOMAIN files
          PROVE  Unused(u)'
        <3>1. Fated(u) /\ u \in Uids
            BY <1>4, <2>2 DEF Fated
        <3>. QED BY <1>8, <2>2, <3>1
    <2>3. exposed \subseteq exposed'
        BY <1>2
    <2>. QED BY <1>2, <2>1, <2>2, <2>3, FilesAlone
<1>14. PlaceOK(proc[p])'
    <2>1. CopyOK(proc[p])' /\ DeadOK(proc[p])'
        BY <1>2, <1>3, <1>4 DEF CopyOK, DeadOK, Past, Moved
    <2>2. c # NoMail => box'[b][c] > 0
        <3>1. SUFFICES ASSUME c # NoMail PROVE box'[b][c] > 0
            OBVIOUS
        <3>2. OneMore(box, box', c, b)
            BY <1>1, <1>4, <1>6, <3>1, AppendBox
        <3>. QED BY <3>2 DEF OneMore
    <2>3. SavedOK(proc[p])'
        BY <1>1, <1>3, <2>2 DEF SavedOK, Moved
    <2>. QED BY <2>1, <2>3 DEF PlaceOK
<1>15. Exact'
    <2>1. ASSUME NEW u \in DOMAIN map' \ exposed'
          PROVE  map'[u].ref + Owed(proc'[p], u) = References(u)' + Given(proc'[p], u)
        <3>1. u \in DOMAIN map \ exposed /\ u \in Uids /\ u # NoMail /\ map' = map /\ map[u].ref \in Nat
            BY <1>2, <1>4
        <3>2. map[u].ref + Owed(proc[p], u) = References(u) + Given(proc[p], u)
            BY <1>2, <1>4, <3>1 DEF KInv, Exact
        <3>3. Owed(proc[p], u) = 0 /\ Given(proc[p], u) = IF u = m THEN 1 ELSE 0
            BY <1>1, <1>2 DEF Owed, Given
        <3>4. Owed(proc'[p], u) = (IF u = c THEN 1 ELSE 0) /\ Given(proc'[p], u) = 0
            BY <1>1, <1>3 DEF Owed, Given, Moved
        <3>5. u = m => u # c
            BY <1>1, <1>4, <3>1 DEF CopyOK
        <3>6. References(u) \in Nat /\ References(u)' = References(u) + IF u \in {m, c} THEN 1 ELSE 0
            BY <1>10, <3>1
        <3>. QED BY <3>1, <3>2, <3>3, <3>4, <3>5, <3>6
    <2>. QED BY <1>2, <1>4, <2>1, ExactMine
<1>. QED BY <1>2, <1>9, <1>12, <1>13, <1>14, <1>15, KStep

-----------------------------------------------------------------------------
(* Actions that change which records there are.                            *)

LEMMA RemoveKept ==
    ASSUME IInv, IInv', KInv, NEW p \in Procs, Remove(p)
    PROVE  KInv'
<1>1. PICK dead : dead = proc[p].dead
    OBVIOUS
<1>2. /\ ~noticed /\ proc[p].pc = "removing" /\ mapLock = NoProc /\ mapLock' = p
      /\ noticed' = dirty /\ map' = Restrict(map, DOMAIN map \ dead)
      /\ proc' = [proc EXCEPT ![p].pc = "finish", ![p].success = TRUE]
      /\ UNCHANGED <<nextUid, files, box, exposed>>
    BY <1>1 DEF Remove, At, boxes, history
<1>3. proc'[p].pc = "finish" /\ Moved(proc'[p], proc[p]) /\ \A q \in Others(p) : proc'[q] = proc[q]
    BY <1>2, GoWellStep DEF Pcs
<1>4. PlaceOK(proc[p])'
    BY <1>2, <1>3, GoPlace
<1>5. /\ DOMAIN map' = DOMAIN map \ dead
      /\ \A u \in DOMAIN map' : u \in DOMAIN map /\ u \notin dead /\ map'[u] = map[u]
    <2>1. map \in [DOMAIN map -> MapRec]
        BY DEF IInv, Types
    <2>. QED BY <1>2, <2>1 DEF Restrict
<1>6. \A u : Unused(u) => Unused(u)'
    BY <1>2, <1>5 DEF Unused
<1>7. KStays(p)
    <2>1. \A q \in Others(p) : In(map', proc[q].purged) \subseteq In(map, proc[q].purged)
        BY <1>5 DEF In
    <2>2. nextUid' \in Nat /\ nextUid <= nextUid' /\ exposed \subseteq exposed' /\ mapLock \in {p, NoProc}
        BY <1>2 DEF IInv, Types
    <2>. QED BY <1>3, <1>6, <2>1, <2>2 DEF KStays
<1>8. Numbered'
    BY <1>2 DEF KInv, Numbered, Messages
<1>9. ASSUME NEW u, Kept(u), u \notin dead PROVE Kept(u)'
    <2>1. u \in DOMAIN map' /\ map'[u] = map[u]
        BY <1>5, <1>9 DEF Kept
    <2>. QED BY <1>2, <1>9, <2>1 DEF Kept
<1>10. KeptUnlessExposed'
    <2>1. ASSUME NEW b \in Boxes, NEW u \in Uids, box[b][u] > 0, u \notin exposed PROVE Kept(u)'
        <3>1. Kept(u)
            BY <2>1 DEF KInv, KeptUnlessExposed
        <3>2. u \notin dead
            BY <1>1, <1>2, <2>1 DEF KInv, PlaceOK, DeadOK, Past, Unused
        <3>. QED BY <1>9, <3>1, <3>2
    <2>. QED BY <1>2, <2>1 DEF KeptUnlessExposed
<1>11. Traced'
    <2>1. ASSUME NEW u \in DOMAIN map' \ exposed'
          PROVE  Kept(u)' \/ (Unused(u)' /\ map'[u].file \notin DOMAIN files')
        <3>1. Kept(u) \/ (Unused(u) /\ map[u].file \notin DOMAIN files)
            BY <1>2, <1>5 DEF KInv, Traced
        <3>. QED BY <1>2, <1>5, <1>6, <1>9, <3>1
    <2>. QED BY <2>1 DEF Traced
<1>12. ASSUME ~noticed' PROVE Exact'
    <2>1. ASSUME NEW u \in DOMAIN map' \ exposed'
          PROVE  map'[u].ref + Owed(proc'[p], u) = References(u)' + Given(proc'[p], u)
        <3>1. u \in DOMAIN map \ exposed /\ map'[u] = map[u]
            BY <1>2, <1>5
        <3>2. map[u].ref = References(u)
            BY <1>2, <1>12, <3>1 DEF KInv, Exact
        <3>3. Owed(proc'[p], u) = 0 /\ Given(proc'[p], u) = 0
            BY <1>3 DEF Owed, Given
        <3>4. References(u)' = References(u)
            BY <1>2 DEF References, Messages
        <3>. QED BY <3>1, <3>2, <3>3, <3>4
    <2>. QED BY <1>2, <2>1, ExactMine
<1>. QED BY <1>2, <1>4, <1>7, <1>8, <1>10, <1>11, <1>12, KStep

(* Records are written: what was in files stays there.                     *)
LEMMA RecordedKeeps ==
    ASSUME IInv, NEW f, NEW mails, NEW n
    PROVE  /\ DOMAIN Recorded(f, mails, n) = DOMAIN files
           /\ \A g \in DOMAIN files : files[g].mails \subseteq Recorded(f, mails, n)[g].mails
           /\ f \in DOMAIN files => mails \subseteq Recorded(f, mails, n)[f].mails
<1>1. files \in [DOMAIN files -> FileRec]
    BY DEF IInv, Types
<1>2. CASE f \notin DOMAIN files
    BY <1>2 DEF Recorded
<1>3. CASE f \in DOMAIN files
    <2>1. PICK r0, k, m, r : /\ r0 = files[f] /\ k = r0.unrecorded - n /\ m = r0.mails \union mails
                             /\ r = [mails |-> m, unrecorded |-> k]
        OBVIOUS
    <2>2. r.mails = m
        BY <2>1
    <2>3. Recorded(f, mails, n) = [files EXCEPT ![f] = r]
        BY <1>1, <1>3, <2>1 DEF Recorded
    <2>. QED BY <1>1, <1>3, <2>1, <2>2, <2>3
<1>. QED BY <1>2, <1>3

LEMMA PurgeMoveKept ==
    ASSUME IInv, IInv', KInv, NEW p \in Procs, PurgeMove(p)
    PROVE  KInv'
<1>1. PICK t, live, dead, f, n : /\ t = proc[p].file /\ live = proc[p].live /\ dead = proc[p].dead
                                 /\ f = proc[p].purged /\ n = Cardinality(live)
    OBVIOUS
<1>k. PICK A, k, mails : A = Again(p) /\ k = Cardinality(Gone(p)) /\ mails = (live \intersect DOMAIN map) \union A
    OBVIOUS
<1>2. /\ ~noticed /\ proc[p].pc = "checked" /\ live # {} /\ Savable(k)
      /\ map' = [u \in (DOMAIN map \ dead) \union A |->
                    IF u \in A THEN [file |-> t, ref |-> 0]
                    ELSE IF u \in live THEN [map[u] EXCEPT !.file = t] ELSE map[u]]
      /\ files' = Recorded(t, mails, n) /\ dirty' = FALSE /\ mapLock' = NoProc
      /\ exposed' = IF t \in DOMAIN files THEN exposed ELSE exposed \union live \union A
      /\ nextUid' = nextUid + k
      /\ Go(p, "purged") /\ UNCHANGED <<box, noticed>>
    BY <1>1, <1>k DEF PurgeMove, At, boxes
<1>a. /\ k \in Nat /\ nextUid \in Nat /\ nextUid' \in Nat /\ nextUid <= nextUid' /\ A \subseteq Uids
      /\ \A u \in A : u \in Nat /\ nextUid <= u /\ u \notin DOMAIN map
    <2>1. /\ k \in Nat /\ nextUid \in Nat /\ A \subseteq Uids
          /\ \A u \in A : u \in Nat /\ nextUid <= u /\ u \notin DOMAIN map
        BY <1>2, <1>k, AgainOK DEF IInv, Types
    <2>. QED BY <1>2, <2>1
<1>3. proc'[p].pc = "purged" /\ Moved(proc'[p], proc[p]) /\ \A q \in Others(p) : proc'[q] = proc[q]
    BY <1>2, GoStep DEF Pcs
<1>4. /\ f \in 1..highest /\ f # t /\ t \in Nat /\ t > 0 /\ highest \in Nat /\ mapLock = p
      /\ In(map, f) = (live \union dead) \intersect DOMAIN map
    <2>1. f \in 1..highest /\ f # t /\ t # NoFile /\ t # NewFile /\ t >= NewFile
        BY <1>1, <1>2, Own DEF ProcOK, PurgePcs, Copying
    <2>2. /\ t \in Int /\ highest \in Nat /\ mapLock = p
          /\ In(map, f) = (live \union dead) \intersect DOMAIN map
        BY <1>1, <1>2, Own DEF MapPcs, PurgeOK, Copying
    <2>. QED BY <2>1, <2>2 DEF NoFile, NewFile
<1>5. (t <= highest /\ fileLock[t] = p) \/ t = highest + 1
    <2>1. Wrote(p, proc[p], n, fileLock, highest, noticed, files)
        BY <1>1, <1>2, <1>4, Own DEF WriterOK, Copying
    <2>. QED BY <1>1, <2>1 DEF Wrote
<1>6. /\ DOMAIN map' = (DOMAIN map \ dead) \union A
      /\ \A u \in A : map'[u].file = t /\ map'[u].ref = 0
      /\ \A u \in DOMAIN map' \ A : /\ u \in DOMAIN map /\ u \notin dead /\ map'[u].ref = map[u].ref
                                    /\ map'[u].file = IF u \in live THEN t ELSE map[u].file
    <2>1. DOMAIN map' = (DOMAIN map \ dead) \union A
        BY <1>2
    <2>2. ASSUME NEW u \in DOMAIN map' \ A
          PROVE  /\ u \in DOMAIN map /\ u \notin dead /\ map'[u].ref = map[u].ref
                 /\ map'[u].file = IF u \in live THEN t ELSE map[u].file
        <3>1. PICK m : m = map[u]
            OBVIOUS
        <3>2. u \in DOMAIN map /\ u \notin dead /\ m \in MapRec
            BY <2>1, <3>1 DEF IInv, Types
        <3>3. map'[u] = IF u \in live THEN [m EXCEPT !.file = t] ELSE m
            BY <1>2, <2>1, <3>1
        <3>. QED BY <1>4, <3>1, <3>2, <3>3 DEF MapRec
    <2>3. ASSUME NEW u \in A PROVE map'[u].file = t /\ map'[u].ref = 0
        <3>1. map'[u] = [file |-> t, ref |-> 0]
            BY <1>2, <2>1
        <3>. QED BY <3>1
    <2>. QED BY <2>1, <2>2, <2>3
<1>7. /\ DOMAIN files' = DOMAIN files
      /\ \A g \in DOMAIN files : files[g].mails \subseteq files'[g].mails
      /\ t \in DOMAIN files => mails \subseteq files'[t].mails
    BY <1>2, RecordedKeeps
<1>8. \A u : Unused(u) => Unused(u)'
    BY <1>2, <1>6 DEF Unused
<1>9. CopyOK(proc[p]) /\ DeadOK(proc[p])
    BY <1>2 DEF KInv, PlaceOK
<1>10. KStays(p)
    <2>1. ASSUME NEW q \in Others(p), proc[q].pc = "purged"
          PROVE  In(map', proc[q].purged) \subseteq In(map, proc[q].purged)
        <3>1. /\ fileLock[proc[q].purged] = q /\ q # p
              /\ proc[q].purged \in 1..highest
            <4>1. q \in Procs /\ q # p
                BY DEF Others
            <4>. QED BY <2>1, <4>1, Own DEF PurgeOK, ProcOK, Copying, PurgePcs
        <3>2. proc[q].purged # t
            BY <1>4, <1>5, <3>1
        <3>3. ASSUME NEW u \in DOMAIN map', map'[u].file = proc[q].purged
              PROVE  u \in DOMAIN map /\ map[u].file = proc[q].purged
            <4>1. u \notin A
                BY <1>6, <3>2, <3>3
            <4>. QED BY <1>6, <3>2, <3>3, <4>1
        <3>. QED BY <3>3 DEF In
    <2>2. nextUid' \in Nat /\ nextUid <= nextUid' /\ exposed \subseteq exposed' /\ mapLock \in {p, NoProc}
        BY <1>a, <1>2, <1>4
    <2>. QED BY <1>3, <1>8, <2>1, <2>2 DEF KStays
<1>11. Numbered'
    <2>1. \A u \in Uids : IsFiniteSet(Messages(u))'
        BY <1>2 DEF KInv, Numbered, Messages
    <2>2. ASSUME NEW b \in Boxes, NEW u \in Uids, box[b][u] > 0 PROVE u < nextUid'
        <3>1. u < nextUid /\ u \in Nat
            BY <2>2 DEF KInv, Numbered, Uids
        <3>. QED BY <1>a, <3>1
    <2>. QED BY <1>2, <2>1, <2>2 DEF Numbered
<1>12. ASSUME NEW u, Kept(u), u \notin dead, u \notin exposed' PROVE Kept(u)'
    <2>1. u \in DOMAIN map' \ A /\ u \in DOMAIN map
        BY <1>a, <1>6, <1>12 DEF Kept
    <2>2. CASE u \in live
        <3>1. t \in DOMAIN files /\ u \in mails
            BY <1>k, <1>2, <1>12, <2>1, <2>2
        <3>. QED BY <1>6, <1>7, <2>1, <2>2, <3>1 DEF Kept
    <2>3. CASE u \notin live
        BY <1>6, <1>7, <1>12, <2>1, <2>3 DEF Kept
    <2>. QED BY <2>2, <2>3
<1>13. KeptUnlessExposed'
    <2>1. ASSUME NEW b \in Boxes, NEW u \in Uids, box[b][u] > 0, u \notin exposed' PROVE Kept(u)'
        <3>1. Kept(u) /\ u \notin exposed
            BY <1>2, <2>1 DEF KInv, KeptUnlessExposed
        <3>2. u \notin dead
            BY <1>1, <1>2, <1>9, <2>1, <3>1 DEF DeadOK, Past, Unused
        <3>. QED BY <1>12, <2>1, <3>1, <3>2
    <2>. QED BY <1>2, <2>1 DEF KeptUnlessExposed
<1>14. Traced'
    <2>1. ASSUME NEW u \in DOMAIN map' \ exposed'
          PROVE  Kept(u)' \/ (Unused(u)' /\ map'[u].file \notin DOMAIN files')
        <3>0. CASE u \in A
            <4>1. t \in DOMAIN files /\ u \in mails
                BY <1>k, <1>2, <3>0
            <4>. QED BY <1>6, <1>7, <3>0, <4>1 DEF Kept
        <3>. SUFFICES ASSUME u \notin A
                      PROVE  Kept(u)' \/ (Unused(u)' /\ map'[u].file \notin DOMAIN files')
            BY <3>0
        <3>2. u \in DOMAIN map /\ u \notin dead
            BY <1>6
        <3>1. Kept(u) \/ (Unused(u) /\ map[u].file \notin DOMAIN files)
            BY <1>2, <3>2 DEF KInv, Traced
        <3>3. CASE Kept(u)
            BY <1>12, <3>2, <3>3
        <3>4. CASE ~Kept(u)
            <4>1. u \notin live
                <5>1. SUFFICES ASSUME u \in live PROVE FALSE
                    OBVIOUS
                <5>2. map[u].file = f
                    BY <1>4, <3>2, <5>1 DEF In
                <5>3. f \in DOMAIN files
                    BY <1>1, <1>2, Own DEF PurgeOK, Copying
                <5>. QED BY <3>1, <3>4, <5>2, <5>3
            <4>. QED BY <1>6, <1>7, <1>8, <3>1, <3>4, <4>1
        <3>. QED BY <3>3, <3>4
    <2>. QED BY <2>1 DEF Traced
<1>15. PlaceOK(proc[p])'
    <2>1. CopyOK(proc[p])' /\ SavedOK(proc[p])'
        <3>1. proc[p].copy \in Int
            BY Own DEF ProcRec
        <3>2. proc[p].copy < nextUid'
            BY <1>a, <1>9, <3>1 DEF CopyOK
        <3>. QED BY <1>3, <1>9, <3>2 DEF CopyOK, SavedOK, Moved
    <2>2. \A u \in dead \ exposed' : Unused(u)'
        BY <1>1, <1>2, <1>8, <1>9 DEF DeadOK, Past
    <2>3. In(map', f) = {}
        <3>1. ASSUME NEW u \in DOMAIN map', map'[u].file = f PROVE FALSE
            <4>1. u \notin A
                BY <1>4, <1>6, <3>1
            <4>2. u \in DOMAIN map /\ u \notin dead /\ u \notin live /\ map[u].file = f
                BY <1>4, <1>6, <3>1, <4>1
            <4>. QED BY <1>4, <4>2 DEF In
        <3>. QED BY <3>1 DEF In
    <2>4. proc'[p].dead = dead /\ proc'[p].purged = f /\ \A u \in dead : u < nextUid'
        <3>1. \A u \in dead : u \in Nat /\ u < nextUid
            BY <1>1, <1>9, Own DEF DeadOK, ProcRec, Uids
        <3>. QED BY <1>a, <1>1, <1>3, <3>1 DEF Moved
    <2>5. DeadOK(proc[p])'
        BY <1>3, <2>2, <2>3, <2>4 DEF DeadOK
    <2>. QED BY <2>1, <2>5 DEF PlaceOK
<1>16. Exact'
    <2>1. ASSUME NEW u \in DOMAIN map' \ exposed' PROVE map'[u].ref = References(u)'
        <3>0. CASE u \in A
            <4>1. u \in Uids /\ u \in Nat /\ nextUid <= u
                BY <1>a, <3>0
            <4>2. \A b \in Boxes : box[b][u] \in Nat /\ ~(box[b][u] > 0)
                BY <1>a, <4>1 DEF KInv, Numbered, IInv, Types
            <4>3. \A b \in Boxes : box[b][u] = 0
                BY <4>2
            <4>4. Messages(u) = Named(box, u) /\ IsFiniteSet(Named(box, u))
                BY <4>1, RefsNat
            <4>5. References(u) = 0
                BY <4>2, <4>3, <4>4, NamedNone DEF References
            <4>6. References(u)' = References(u)
                BY <1>2 DEF References, Messages
            <4>. QED BY <1>6, <3>0, <4>5, <4>6
        <3>. SUFFICES ASSUME u \notin A PROVE map'[u].ref = References(u)'
            BY <3>0
        <3>1. u \in DOMAIN map \ exposed /\ u \in Uids /\ map'[u].ref = map[u].ref /\ map[u].ref \in Nat
            BY <1>2, <1>6 DEF IInv, Types, MapRec
        <3>2. map[u].ref + Owed(proc[p], u) = References(u) + Given(proc[p], u)
            BY <1>2, <1>4, <3>1 DEF KInv, Exact
        <3>3. Owed(proc[p], u) = 0 /\ Given(proc[p], u) = 0
            BY <1>2 DEF Owed, Given
        <3>4. References(u)' = References(u) /\ References(u) \in Nat
            BY <1>2, <3>1, RefsNat DEF References, Messages
        <3>. QED BY <3>1, <3>2, <3>3, <3>4
    <2>. QED BY <1>2, <2>1, NoProcAssumption DEF Exact
<1>. QED BY <1>2, <1>10, <1>11, <1>13, <1>14, <1>15, <1>16, KStep

LEMMA AssignKept ==
    ASSUME IInv, IInv', KInv, NEW p \in Procs, Assign(p)
    PROVE  KInv'
<1>. DEFINE new == proc[p].file = NewFile
<1>1. PICK f, u0 : f = FileId(proc[p].file) /\ u0 = nextUid
    OBVIOUS
<1>2. /\ ~noticed /\ proc[p].pc = "synced" /\ proc[p].op = "deliver" /\ proc[p].file # NoFile
      /\ proc[p].mail = NoMail
      /\ noticed' = (new /\ f \in DOMAIN files)
      /\ map' = Added(map, u0, [file |-> f, ref |-> 1])
      /\ nextUid' = u0 + 1 /\ dirty' = TRUE
      /\ files' = IF new THEN Created(f, {u0}, 0) ELSE Recorded(f, {u0}, 1)
      /\ exposed' = IF f \in DOMAIN files' THEN exposed ELSE exposed \union {u0}
      /\ proc' = [proc EXCEPT ![p].mail = u0, ![p].file = f]
      /\ UNCHANGED <<box, mapLock>>
    BY <1>1 DEF Assign, At, boxes, locks
<1>3. /\ proc[p] \in ProcRec /\ highest \in Nat /\ proc[p].file \in Int /\ mapLock = p
      /\ proc[p].file >= NewFile /\ u0 \in Nat \ {0} /\ f \in Nat /\ f > 0
    <2>1. proc[p] \in ProcRec /\ highest \in Nat /\ proc[p].file \in Int /\ mapLock = p
        BY <1>2, Own DEF MapPcs
    <2>2. proc[p].file >= NewFile
        BY Own DEF ProcOK
    <2>3. u0 \in Nat \ {0}
        BY <1>1 DEF IInv, Types
    <2>4. f \in Nat /\ f > 0
        BY <1>1, <1>2, <2>1, <2>2 DEF FileId, NewFile, NoFile
    <2>. QED BY <2>1, <2>2, <2>3, <2>4
<1>4. /\ new => f = highest + 1
      /\ ~new => f = proc[p].file /\ fileLock[f] = p
    <2>1. new => f = highest + 1
        BY <1>1 DEF FileId
    <2>2. ASSUME ~new PROVE f = proc[p].file /\ fileLock[f] = p
        <3>1. f = proc[p].file
            BY <1>1, <2>2 DEF FileId
        <3>2. Wrote(p, proc[p], 1, fileLock, highest, noticed, files)
            BY <1>2, <1>3, <3>1, Own DEF WriterOK
        <3>. QED BY <1>2, <3>1, <3>2 DEF Wrote
    <2>. QED BY <2>1, <2>2
<1>5. CopyOK(proc[p]) /\ DeadOK(proc[p])
    BY <1>2 DEF KInv, PlaceOK
<1>6. PICK r0, r : r0 = proc[p] /\ r = [r0 EXCEPT !.mail = u0, !.file = f]
    OBVIOUS
<1>7. /\ r.pc = "synced" /\ r.op = "deliver" /\ r.mail = u0 /\ r.copy = r0.copy /\ r.dead = r0.dead
      /\ r0.copy \in Int /\ r0.dead \subseteq Uids
    <2>1. u0 \in Int /\ f \in Int
        BY <1>3
    <2>. QED BY <1>2, <1>3, <1>6, <2>1 DEF ProcRec, Pcs
<1>8. proc'[p] = r /\ \A q \in Others(p) : proc'[q] = proc[q]
    <2>1. proc' = [proc EXCEPT ![p] = r]
        BY <1>2, <1>6 DEF IInv, Types
    <2>. QED BY <2>1 DEF IInv, Types, Others
<1>9. \A u \in DOMAIN map : /\ u \in Uids /\ u # u0 /\ u < u0 /\ map[u].ref \in Nat
                            /\ map[u].file \in 1..highest
    BY <1>1, <1>3 DEF IInv, Types, MapOK, MapRec, Uids
<1>10. /\ DOMAIN map' = DOMAIN map \union {u0} /\ map'[u0].file = f /\ map'[u0].ref = 1
       /\ \A u \in DOMAIN map : map'[u] = map[u]
    <2>1. PICK m : m = [file |-> f, ref |-> 1]
        OBVIOUS
    <2>2. m.file = f /\ m.ref = 1
        BY <2>1
    <2>3. map' = [y \in DOMAIN map \union {u0} |-> IF y \in DOMAIN map THEN map[y] ELSE m]
        BY <1>2, <2>1 DEF Added
    <2>. QED BY <1>9, <2>2, <2>3
<1>11. /\ DOMAIN files \subseteq DOMAIN files'
       /\ \A g \in DOMAIN files : files[g].mails \subseteq files'[g].mails
       /\ \A g \in 1..highest : g \in DOMAIN files' => g \in DOMAIN files
       /\ ~noticed' /\ f \in DOMAIN files' => u0 \in files'[f].mails
    <2>1. CASE new
        <3>1. PICK m : m = [mails |-> {u0}, unrecorded |-> 0]
            OBVIOUS
        <3>2. m.mails = {u0}
            BY <3>1
        <3>3. files' = [g \in DOMAIN files \union {f} |-> IF g \in DOMAIN files THEN files[g] ELSE m]
            BY <1>2, <2>1, <3>1 DEF Created, Added
        <3>4. f \notin 1..highest
            BY <1>3, <1>4, <2>1
        <3>. QED BY <1>2, <2>1, <3>2, <3>3, <3>4
    <2>2. CASE ~new
        <3>1. files' = Recorded(f, {u0}, 1)
            BY <1>2, <2>2
        <3>2. /\ DOMAIN files' = DOMAIN files
              /\ \A g \in DOMAIN files : files[g].mails \subseteq files'[g].mails
              /\ f \in DOMAIN files => {u0} \subseteq files'[f].mails
            BY <3>1, RecordedKeeps
        <3>. QED BY <3>2
    <2>. QED BY <2>1, <2>2
<1>12. exposed \subseteq exposed'
    BY <1>2
<1>13. ASSUME NEW u, u # u0, Unused(u) PROVE Unused(u)'
    BY <1>2, <1>10, <1>13 DEF Unused
<1>14. KStays(p)
    <2>1. ASSUME NEW q \in Others(p), proc[q].pc = "purged"
          PROVE  In(map', proc[q].purged) \subseteq In(map, proc[q].purged)
        <3>1. /\ fileLock[proc[q].purged] = q /\ q # p /\ proc[q].purged \in 1..highest
            <4>1. q \in Procs /\ q # p
                BY DEF Others
            <4>. QED BY <2>1, <4>1, Own DEF PurgeOK, ProcOK, Copying, PurgePcs
        <3>2. proc[q].purged # f
            BY <1>3, <1>4, <3>1
        <3>. QED BY <1>10, <3>2 DEF In
    <2>2. nextUid' \in Nat /\ nextUid <= nextUid' /\ mapLock \in {p, NoProc}
        BY <1>1, <1>2, <1>3
    <2>3. \A u \in 1..nextUid - 1 : Unused(u) => Unused(u)'
        BY <1>1, <1>3, <1>13
    <2>. QED BY <1>8, <1>12, <2>1, <2>2, <2>3 DEF KStays
<1>15. Numbered'
    <2>1. ASSUME NEW b \in Boxes, NEW u \in Uids, box[b][u] > 0 PROVE u < u0 + 1
        <3>1. u < u0 /\ u \in Nat
            BY <1>1, <2>1 DEF KInv, Numbered, Uids
        <3>. QED BY <1>3, <3>1
    <2>2. \A u \in Uids : IsFiniteSet(Messages(u))'
        BY <1>2 DEF KInv, Numbered, Messages
    <2>. QED BY <1>2, <2>1, <2>2 DEF Numbered
<1>16. ASSUME NEW u, Kept(u) PROVE Kept(u)'
    BY <1>10, <1>11, <1>16 DEF Kept
<1>17. KeptUnlessExposed'
    BY <1>2, <1>12, <1>16 DEF KInv, KeptUnlessExposed
<1>18. ASSUME ~noticed' PROVE Traced'
    <2>1. ASSUME NEW u \in DOMAIN map' \ exposed'
          PROVE  Kept(u)' \/ (Unused(u)' /\ map'[u].file \notin DOMAIN files')
        <3>1. CASE u = u0
            BY <1>2, <1>10, <1>11, <1>18, <2>1, <3>1 DEF Kept
        <3>2. CASE u # u0
            <4>1. u \in DOMAIN map \ exposed /\ map'[u] = map[u] /\ map[u].file \in 1..highest
                BY <1>9, <1>10, <1>12, <2>1, <3>2
            <4>2. Kept(u) \/ (Unused(u) /\ map[u].file \notin DOMAIN files)
                BY <1>2, <4>1 DEF KInv, Traced
            <4>. QED BY <1>11, <1>13, <1>16, <3>2, <4>1, <4>2
        <3>. QED BY <3>1, <3>2
    <2>. QED BY <2>1 DEF Traced
<1>19. PlaceOK(proc[p])'
    <2>1. r0.copy < u0 /\ u0 < u0 + 1 /\ r0.copy < u0 + 1
        BY <1>1, <1>3, <1>5, <1>6, <1>7 DEF CopyOK
    <2>2. CopyOK(proc[p])'
        BY <1>2, <1>7, <1>8, <2>1 DEF CopyOK
    <2>3. SavedOK(proc[p])'
        BY <1>2, <1>7, <1>8, <1>10 DEF SavedOK
    <2>4. \A u \in r0.dead : u < nextUid'
        <3>1. \A u \in r0.dead : u \in Nat /\ u < u0
            BY <1>1, <1>5, <1>6, <1>7 DEF DeadOK, Uids
        <3>. QED BY <1>2, <1>3, <3>1
    <2>5. DeadOK(proc[p])'
        BY <1>7, <1>8, <2>4 DEF DeadOK, Past
    <2>. QED BY <2>2, <2>3, <2>5 DEF PlaceOK
<1>20. Exact'
    <2>1. ASSUME NEW u \in DOMAIN map' \ exposed'
          PROVE  map'[u].ref + Owed(proc'[p], u) = References(u)' + Given(proc'[p], u)
        <3>1. u \in Uids
            BY DEF IInv, Types
        <3>2. References(u)' = References(u) /\ References(u) \in Nat
            BY <1>2, <3>1, RefsNat DEF References, Messages
        <3>3. Owed(proc'[p], u) = 0 /\ Given(proc'[p], u) = IF u = u0 THEN 1 ELSE 0
            BY <1>7, <1>8 DEF Owed, Given
        <3>4. CASE u = u0
            <4>1. \A b \in Boxes : box[b][u] \in Nat
                BY <3>1 DEF IInv, Types
            <4>2. \A b \in Boxes : ~(box[b][u] > 0)
                BY <1>1, <1>3, <3>1, <3>4 DEF KInv, Numbered
            <4>3. \A b \in Boxes : box[b][u] = 0
                BY <4>1, <4>2
            <4>4. IsFiniteSet(Named(box, u)) /\ References(u) = Cardinality(Named(box, u))
                BY <3>1, RefsNat DEF References
            <4>5. References(u) = 0
                BY <4>1, <4>3, <4>4, NamedNone
            <4>. QED BY <1>10, <3>2, <3>3, <3>4, <4>5
        <3>5. CASE u # u0
            <4>1. u \in DOMAIN map \ exposed /\ map'[u] = map[u] /\ map[u].ref \in Nat
                BY <1>9, <1>10, <1>12, <2>1, <3>5
            <4>2. map[u].ref + Owed(proc[p], u) = References(u) + Given(proc[p], u)
                BY <1>2, <1>3, <4>1 DEF KInv, Exact
            <4>3. Owed(proc[p], u) = 0 /\ Given(proc[p], u) = 0
                BY <1>2, <3>1 DEF Owed, Given, Uids, NoMail
            <4>. QED BY <3>2, <3>3, <3>5, <4>1, <4>2, <4>3
        <3>. QED BY <3>4, <3>5
    <2>. QED BY <1>2, <1>3, <2>1, ExactMine
<1>. QED BY <1>2, <1>14, <1>15, <1>17, <1>18, <1>19, <1>20, KStep

-----------------------------------------------------------------------------
LEMMA InitKept ==
    ASSUME Init
    PROVE  KInv
<1>1. DOMAIN map = {} /\ nextUid = 1 /\ dirty = FALSE /\ exposed = {} /\ \A p \in Procs : proc[p] = Idle
    <2>1. PICK e : e = <<>>
        OBVIOUS
    <2>2. DOMAIN e = {} /\ map = e
        BY <2>1 DEF Init
    <2>. QED BY <2>2 DEF Init
<1>2. \A b \in Boxes, u \in Uids : box[b][u] = 0
    BY DEF Init, NoRequests
<1>3. ASSUME NEW u \in Uids PROVE IsFiniteSet(Messages(u))
    <2>1. Messages(u) = Named(box, u)
        BY DEF Messages, Named
    <2>2. Named(box, u) = {}
        BY <1>2, NamedPair
    <2>. QED BY <2>1, <2>2, FS_EmptySet
<1>4. Numbered /\ KeptUnlessExposed
    BY <1>2, <1>3 DEF Numbered, KeptUnlessExposed
<1>5. Traced /\ Exact
    BY <1>1 DEF Traced, Exact
<1>6. ASSUME NEW p \in Procs PROVE PlaceOK(proc[p])
    BY <1>1, IdleRec DEF PlaceOK, CopyOK, SavedOK, DeadOK, Past, NoMail
<1>. QED BY <1>4, <1>5, <1>6 DEF KInv

LEMMA NextKept ==
    ASSUME IInv, IInv', KInv, [Next]_vars
    PROVE  KInv'
<1>1. ASSUME NEW p \in Procs, NEW b \in Boxes, Write(p, b) \/ SyncTry(p, b) PROVE KInv'
    BY <1>1, WriteKept, SyncTryKept
<1>2. ASSUME NEW p \in Procs,
             \/ LockMap(p) \/ SyncMap(p) \/ SyncBox(p) \/ SyncRelease(p)
             \/ SyncFinish(p) \/ Finish(p)
      PROVE  KInv'
    BY <1>2, LockMapKept, SyncMapKept, SyncBoxKept, SyncReleaseKept, SyncFinishKept, StopKept
<1>3. ASSUME NEW p \in Procs,
             Assign(p) \/ Append(p) \/ Rollback(p) \/ Commit(p) \/ CommitFails(p)
      PROVE  KInv'
    BY <1>3, AssignKept, AppendKept, RollbackKept, CommitKept, CommitFailsKept
<1>4. ASSUME NEW p \in Procs,
             \/ PurgeScan(p) \/ PurgeMissing(p) \/ PurgeUnopened(p) \/ PurgeBusy(p)
             \/ PurgeFile(p) \/ PurgeCheck(p) \/ PurgeCancel(p) \/ PurgeMove(p) \/ PurgeAll(p)
      PROVE  KInv'
    BY <1>4, PurgeScanKept, PurgeMissingKept, StopKept, PurgeFileKept, PurgeCheckKept,
       PurgeMoveKept, PurgeAllKept
<1>5. ASSUME NEW p \in Procs, PurgeUnlink(p) \/ RemoveScan(p) \/ Remove(p) \/ Crash(p)
      PROVE  KInv'
    BY <1>5, PurgeUnlinkKept, RemoveScanKept, RemoveKept, CrashKept
<1>6. ASSUME NEW b \in Boxes, NEW u \in Uids, Request(b, u) PROVE KInv'
    BY <1>6, SameKept DEF Request, mapvars, locks, history
<1>7. ASSUME Over \/ UNCHANGED vars PROVE KInv'
    <2>1. UNCHANGED <<map, nextUid, box, files, exposed, noticed, proc, mapLock, dirty>>
        BY <1>7 DEF Over, vars
    <2>. QED BY <2>1, SameKept
<1>. QED BY <1>1, <1>2, <1>3, <1>4, <1>5, <1>6, <1>7 DEF Next

\* The second inductive invariant holds in every state of every behaviour.
THEOREM KeepingInvariance == Spec => []KInv
<1>1. Init => KInv
    BY InitKept
<1>2. IInv /\ IInv' /\ KInv /\ [Next]_vars => KInv'
    BY NextKept
<1>. QED BY <1>1, <1>2, Invariance, PTL DEF Spec

\* Whatever the processes save, copy, expunge, purge, roll back and whenever
\* they die: a mail that a message refers to keeps its record and stays in the
\* file that the record names, unless it is one of those that the order of
\* the writes in the code leaves without protection.
THEOREM MailsKept == Spec => []KeptUnlessExposed
<1>1. KInv => KeptUnlessExposed
    BY DEF KInv
<1>. QED BY <1>1, KeepingInvariance, PTL

\* A map that nobody has locked and whose log shows no unfinished change counts
\* exactly the messages there are: mdbox_map_sync_handle() misses nothing by
\* comparing the two offsets of the log.
THEOREM CountsAreExact == Spec => []RefsExact
<1>1. KInv => RefsExact
    BY DEF KInv, Exact, RefsExact
<1>. QED BY <1>1, KeepingInvariance, PTL
==============================================================================
