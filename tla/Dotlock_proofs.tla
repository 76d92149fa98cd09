--------------------------- MODULE Dotlock_proofs ---------------------------
(***************************************************************************)
(* Proofs about Dotlock, for any processes, inode numbers, timeouts and    *)
(* bounds.                                                                 *)
(***************************************************************************)
EXTENDS Dotlock, TLAPS

Places == {"idle", "check", "readpid", "recheck", "age", "override", "create",
           "writepid", "verify", "owner", "unlink", "rename", "wait", "dead"}
Numbers == Inodes \union {0}
Infos == [ino : Numbers, mtime : Int]
Memory == [pc : Places, how : Hows, until : Int, start : Int, info : Infos,
           last : Int, fileinfo : Int, pid_read : BOOLEAN, have_pid : BOOLEAN,
           raced : BOOLEAN, late : BOOLEAN, seen : Int, id : Int, ino : Numbers]
Locks == [id : Int, ino : Numbers, pid : Procs \union {NoProc}, mtime : Int]

Owner(r) == r.pc \in {"writepid", "verify", "owner", "unlink", "rename"}

\* The lock file and the protected file.
FilesOK ==
    /\ now \in Nat /\ created \in Nat
    /\ lock \in Locks /\ lock.mtime <= now
    /\ lock # NoLock => lock.id \in 1..created
    /\ file \in Infos /\ file.mtime <= now

\* The times a process has noted are past, and unless it noticed a change late,
\* it believes that nothing has changed since a time at which nothing had.
Knows(r) ==
    /\ r \in Memory
    /\ r.info.mtime <= now /\ r.fileinfo <= now /\ r.start <= now
    /\ ~r.late => r.info.mtime <= r.last /\ r.fileinfo <= r.last
    /\ r.seen \in 0..created

\* What a process knows between a look and what it does because of it.
Judges(r) ==
    /\ Knows(r)
    /\ r.pc \in {"readpid", "recheck", "age"} =>
          r.info.mtime <= r.start /\ r.fileinfo <= r.start
    /\ r.pc = "recheck" => r.have_pid
    /\ r.pc = "age" => ~r.have_pid
    /\ r.pc \in {"readpid", "age", "override"} /\ ~r.raced /\ lock # NoLock =>
          r.info.ino = lock.ino /\ r.info.mtime = lock.mtime
    /\ r.pc = "override" /\ ~r.have_pid =>
          /\ r.start > r.last + StaleTimeout
          /\ ~r.raced => r.fileinfo = file.mtime
    /\ r.pc = "rename" => r.how = "open"
    /\ r.pc = "rename" /\ ~r.raced /\ lock # NoLock => r.ino = lock.ino

ProcsOK == proc \in [Procs -> Memory] /\ \A p \in Procs : Judges(proc[p])

\* No two owners have the same lock file, and the PID in one is its owner's.
IdsOK ==
    /\ \A p \in Procs : Owns(p) => proc[p].id \in 1..created
    /\ \A p, q \in Procs : Owns(p) /\ Owns(q) /\ proc[p].id = proc[q].id => p = q
    /\ \A p \in Procs : Owns(p) /\ proc[p].id = lock.id => lock.pid \in {p, NoProc}

\* An inode number is not used again as long as the file is open.
OpenOK ==
    \A p \in Procs :
        /\ Owns(p) /\ (proc[p].how = "open" \/ proc[p].pc = "writepid")
        /\ lock # NoLock /\ lock.ino = proc[p].ino
        => lock.id = proc[p].id

\* The lock file whose PID was found to be dead, or the process's own, is not
\* that of another owner.
SeenOK ==
    \A p, q \in Procs :
        p # q /\ proc[p].pc \in {"recheck", "override"} /\ proc[p].have_pid /\ Owns(q)
        => proc[q].id # proc[p].seen

\* As long as no owner has lost its lock, the lock file is the owner's.
LostOK ==
    /\ lost = {} => \A p \in Procs : Owns(p) => lock.id = proc[p].id
    /\ LossExplained

IInv == FilesOK /\ ProcsOK /\ IdsOK /\ OpenOK /\ SeenOK /\ LostOK

-----------------------------------------------------------------------------
(* What one process's step means for the others.                           *)

\* g is r, but for what r remembers of the lock and the file.
Same(r, g) ==
    /\ g \in Memory /\ g.pc = r.pc /\ g.how = r.how /\ g.id = r.id /\ g.ino = r.ino
    /\ g.seen = r.seen /\ g.have_pid = r.have_pid

LEMMA RacedRecord ==
    ASSUME NEW r, Judges(r), NEW g, g = [r EXCEPT !.raced = TRUE]
    PROVE  Judges(g) /\ g.raced /\ Same(r, g)
<1>1. r \in Memory
    BY DEF Judges, Knows
<1>2. /\ g \in Memory /\ g.raced
      /\ g.pc = r.pc /\ g.how = r.how /\ g.start = r.start /\ g.info = r.info
      /\ g.last = r.last /\ g.fileinfo = r.fileinfo /\ g.have_pid = r.have_pid
      /\ g.late = r.late /\ g.seen = r.seen /\ g.id = r.id /\ g.ino = r.ino
    BY <1>1 DEF Memory
<1>. QED BY <1>2 DEF Judges, Knows, Same

(* p has become g, and the others know that something has changed. *)
LEMMA OthersRaced ==
    ASSUME ProcsOK, NEW p \in Procs, NEW g \in Memory, NEW ps,
           ps = [proc EXCEPT ![p] = g], proc' = Raced(p, ps)
    PROVE  /\ proc' \in [Procs -> Memory] /\ proc'[p] = g
           /\ \A q \in Procs \ {p} :
                /\ Same(proc[q], proc'[q]) /\ Judges(proc'[q])
                /\ proc'[q].pc \in Windows => proc'[q].raced
<1>1. ASSUME NEW q \in Procs
      PROVE  proc'[q] = IF q # p /\ ps[q].pc \in Windows
                        THEN [ps[q] EXCEPT !.raced = TRUE] ELSE ps[q]
    BY DEF Raced
<1>2. proc'[p] = g
    BY <1>1 DEF ProcsOK
<1>3. ASSUME NEW q \in Procs \ {p}
      PROVE  /\ Same(proc[q], proc'[q]) /\ Judges(proc'[q])
             /\ proc'[q].pc \in Windows => proc'[q].raced
    <2>1. Judges(proc[q]) /\ ps[q] = proc[q] /\ proc[q] \in Memory
        BY DEF ProcsOK
    <2>2. CASE proc[q].pc \in Windows
        <3>1. proc'[q] = [proc[q] EXCEPT !.raced = TRUE]
            BY <1>1, <2>1, <2>2
        <3>. QED BY <2>1, <3>1, RacedRecord
    <2>3. CASE proc[q].pc \notin Windows
        <3>1. proc'[q] = proc[q]
            BY <1>1, <2>1, <2>3
        <3>. QED BY <2>1, <2>3, <3>1 DEF Same
    <2>. QED BY <2>2, <2>3
<1>4. proc' = [q \in Procs |-> proc'[q]]
    BY DEF Raced
<1>5. \A q \in Procs : proc'[q] \in Memory
    BY <1>2, <1>3 DEF Same
<1>. QED BY <1>2, <1>3, <1>4, <1>5

\* p has become g, and the others are what they were.
Becomes(p, g) ==
    /\ proc' \in [Procs -> Memory] /\ proc'[p] = g
    /\ \A q \in Procs \ {p} : Same(proc[q], proc'[q])

LEMMA Become ==
    ASSUME ProcsOK, NEW p \in Procs, NEW g \in Memory, proc' = [proc EXCEPT ![p] = g]
    PROVE  Becomes(p, g) /\ \A q \in Procs \ {p} : proc'[q] = proc[q]
BY DEF ProcsOK, Becomes, Same

\* g is an owner only if p was one, of the same lock file.
Mild(p, g) ==
    Owner(g) => /\ Owns(p) /\ g.id = proc[p].id /\ g.ino = proc[p].ino
                /\ g.how = proc[p].how /\ g.pc # "writepid"

\* The lock file whose PID p has read is not that of another owner.
Cleared(p, g) ==
    g.pc \in {"recheck", "override"} /\ g.have_pid =>
        \A q \in Procs \ {p} : Owns(q) => proc[q].id # g.seen

(* Who owns what, when the lock file stays or goes. *)
LEMMA Ownership ==
    ASSUME IInv, NEW p \in Procs, NEW g, Becomes(p, g), Mild(p, g), Cleared(p, g),
           created' = created,
           \/ lock' \in {lock, NoLock}
           \/ /\ lock # NoLock /\ lock'.id = lock.id /\ lock'.ino = lock.ino
              /\ \A q \in Procs : Owns(q) /\ proc[q].id = lock.id => lock'.pid \in {q, NoProc}
    PROVE  /\ IdsOK' /\ OpenOK' /\ SeenOK'
           /\ \A q \in Procs : Owns(q)' => Owns(q) /\ proc'[q].id = proc[q].id
<1>1. ASSUME NEW q \in Procs, Owns(q)'
      PROVE  /\ Owns(q) /\ proc'[q].id = proc[q].id /\ proc'[q].ino = proc[q].ino
             /\ proc'[q].how = proc[q].how
             /\ proc'[q].pc = "writepid" => proc[q].pc = "writepid"
    <2>1. CASE q = p
        BY <1>1, <2>1 DEF Becomes, Mild, Owner, Owns
    <2>2. CASE q # p
        BY <1>1, <2>2 DEF Becomes, Same, Owns
    <2>. QED BY <2>1, <2>2
<1>2. created \in Nat /\ NoLock.id = 0 /\ NoLock.pid = NoProc
    BY DEF IInv, FilesOK, NoLock
<1>3. IdsOK'
    <2>1. ASSUME NEW q \in Procs, Owns(q)'
          PROVE  proc'[q].id \in 1..created'
        BY <1>1, <2>1 DEF IInv, IdsOK
    <2>2. ASSUME NEW q \in Procs, NEW r \in Procs, Owns(q)', Owns(r)', proc'[q].id = proc'[r].id
          PROVE  q = r
        BY <1>1, <2>2 DEF IInv, IdsOK
    <2>3. ASSUME NEW q \in Procs, Owns(q)', proc'[q].id = lock'.id
          PROVE  lock'.pid \in {q, NoProc}
        BY <1>1, <1>2, <2>3 DEF IInv, IdsOK
    <2>. QED BY <2>1, <2>2, <2>3 DEF IdsOK
<1>4. OpenOK'
    BY <1>1 DEF IInv, OpenOK
<1>5. SeenOK'
    <2>1. ASSUME NEW q \in Procs, NEW r \in Procs, q # r,
                 proc'[q].pc \in {"recheck", "override"}, proc'[q].have_pid, Owns(r)'
          PROVE  proc'[r].id # proc'[q].seen
        <3>1. Owns(r) /\ proc'[r].id = proc[r].id
            BY <1>1, <2>1
        <3>2. CASE q = p
            BY <2>1, <3>1, <3>2 DEF Becomes, Cleared
        <3>3. CASE q # p
            BY <2>1, <3>1, <3>3 DEF Becomes, Same, IInv, SeenOK
        <3>. QED BY <3>2, <3>3
    <2>. QED BY <2>1 DEF SeenOK
<1>. QED BY <1>1, <1>3, <1>4, <1>5

(* A step of p that changes nothing but its memory. *)
LEMMA LocalStep ==
    ASSUME IInv, NEW p \in Procs, NEW g, Judges(g), Mild(p, g), Cleared(p, g),
           proc' = [proc EXCEPT ![p] = g], UNCHANGED <<now, lock, file, created, lost>>
    PROVE  IInv'
<1>1. g \in Memory
    BY DEF Judges, Knows
<1>2. Becomes(p, g) /\ \A q \in Procs \ {p} : proc'[q] = proc[q]
    BY <1>1, Become DEF IInv
<1>3. FilesOK'
    BY DEF IInv, FilesOK
<1>4. \A r : Judges(r) => Judges(r)'
    BY DEF Judges, Knows
<1>5. ProcsOK'
    BY <1>2, <1>4 DEF IInv, ProcsOK, Becomes
<1>6. /\ IdsOK' /\ OpenOK' /\ SeenOK'
      /\ \A q \in Procs : Owns(q)' => Owns(q) /\ proc'[q].id = proc[q].id
    BY <1>2, Ownership
<1>7. LostOK'
    BY <1>6 DEF IInv, LostOK, LossExplained
<1>. QED BY <1>3, <1>5, <1>6, <1>7 DEF IInv

-----------------------------------------------------------------------------
(* Waiting for the lock.                                                   *)

\* A process that does not look, and owns nothing.
Aside(g) == g.pc \in {"idle", "dead", "check", "create", "wait"}

LEMMA Resting ==
    ASSUME NEW g, Knows(g), Aside(g), NEW p
    PROVE  Judges(g) /\ Mild(p, g) /\ Cleared(p, g)
BY DEF Judges, Aside, Mild, Owner, Cleared

LEMMA IdleKnows ==
    ASSUME FilesOK
    PROVE  Knows(Idle) /\ Idle \in Memory /\ Idle.pc = "idle"
<1>1. NoInfo \in Infos /\ NoInfo.mtime = NoTime
    BY DEF NoInfo, Infos, Numbers, NoTime
<1>2. /\ Idle \in Memory /\ Idle.pc = "idle" /\ Idle.info = NoInfo
      /\ Idle.last = NoTime /\ Idle.fileinfo = NoTime /\ Idle.start = 0 /\ Idle.seen = 0
    <2>1. NoTime \in Int /\ 0 \in Int /\ 0 \in Numbers
        BY DEF NoTime, Numbers
    <2>. QED BY <1>1, <2>1 DEF Idle, Memory, Places, Hows
<1>. QED BY <1>1, <1>2 DEF Knows, FilesOK, NoTime

(* p is somewhere aside, and knows no more than before. *)
LEMMA MovesAside ==
    ASSUME NEW r, Knows(r), NEW x \in {"idle", "dead", "check", "create", "wait"}
    PROVE  LET g == [r EXCEPT !.pc = x] IN Knows(g) /\ Aside(g)
<1>. DEFINE g == [r EXCEPT !.pc = x]
<1>1. r \in Memory
    BY DEF Knows
<1>2. /\ g \in Memory /\ g.pc = x /\ g.start = r.start /\ g.info = r.info
      /\ g.last = r.last /\ g.fileinfo = r.fileinfo /\ g.late = r.late /\ g.seen = r.seen
    BY <1>1 DEF Memory, Places
<1>. HIDE DEF g
<1>3. Knows(g) /\ Aside(g)
    BY <1>2 DEF Knows, Aside
<1>. QED BY <1>3 DEF g

LEMMA AgainKnows ==
    ASSUME FilesOK, NEW r, Knows(r)
    PROVE  Knows(Again(r)) /\ Aside(Again(r))
<1>. DEFINE g == [r EXCEPT !.pc = "wait", !.start = 0, !.raced = FALSE, !.seen = 0]
<1>1. r \in Memory /\ 0 \in Int
    BY DEF Knows
<1>2. /\ g \in Memory /\ g.pc = "wait" /\ g.start = 0 /\ g.info = r.info
      /\ g.last = r.last /\ g.fileinfo = r.fileinfo /\ g.late = r.late /\ g.seen = 0
    BY <1>1 DEF Memory, Places
<1>. HIDE DEF g
<1>3. Knows(g) /\ Aside(g)
    BY <1>2 DEF Knows, Aside, FilesOK
<1>. QED BY <1>3 DEF Again, g

LEMMA FreeKnows ==
    ASSUME FilesOK, NEW r, Knows(r)
    PROVE  Knows(Free(r)) /\ Aside(Free(r))
<1>. DEFINE g == [r EXCEPT !.pc = "create", !.seen = 0]
<1>1. r \in Memory /\ 0 \in Int
    BY DEF Knows
<1>2. /\ g \in Memory /\ g.pc = "create" /\ g.start = r.start /\ g.info = r.info
      /\ g.last = r.last /\ g.fileinfo = r.fileinfo /\ g.late = r.late /\ g.seen = 0
    BY <1>1 DEF Memory, Places
<1>. HIDE DEF g
<1>3. Knows(g) /\ Aside(g)
    BY <1>2 DEF Knows, Aside, FilesOK
<1>4. Knows(Idle) /\ Aside(Idle)
    BY IdleKnows DEF Aside
<1>. QED BY <1>3, <1>4 DEF Free, g

(* A look at the lock file, with t for the time. *)
LEMMA Looking ==
    ASSUME FilesOK, lock # NoLock, NEW r, Knows(r), NEW t \in Int, t <= now, r.fileinfo <= t
    PROVE  LET g == Looked(r, t) IN
             /\ Knows(g) /\ ~g.raced
             /\ g.info.ino = lock.ino /\ g.info.mtime = lock.mtime
             /\ g.pc = r.pc /\ g.how = r.how /\ g.start = r.start /\ g.fileinfo = r.fileinfo
             /\ g.have_pid = r.have_pid /\ g.seen = r.seen
<1>. DEFINE i == [ino |-> lock.ino, mtime |-> lock.mtime]
            b == IF Changed(r) /\ r.info # NoInfo THEN t < lock.mtime ELSE r.late
            l == IF ~Changed(r) THEN r.last
                 ELSE Latest(r.last, IF r.info = NoInfo THEN lock.mtime ELSE t)
            g == [r EXCEPT !.info = i, !.raced = FALSE, !.late = b, !.last = l]
<1>1. /\ r \in Memory /\ r.last \in Int /\ r.late \in BOOLEAN /\ r.fileinfo \in Int
      /\ r.info.mtime \in Int /\ lock.mtime \in Int /\ lock.ino \in Numbers
    BY DEF Knows, Memory, Infos, FilesOK, Locks
<1>2. i \in Infos /\ i.ino = lock.ino /\ i.mtime = lock.mtime
    BY <1>1 DEF Infos
<1>3. b \in BOOLEAN /\ l \in Int
    <2>1. (t < lock.mtime) \in BOOLEAN
        BY <1>1
    <2>2. b \in BOOLEAN
        BY <1>1, <2>1, Zenon
    <2>3. l \in Int
        BY <1>1 DEF Latest
    <2>. QED BY <2>2, <2>3
<1>4. ~b => lock.mtime <= l /\ r.fileinfo <= l
    <2>1. CASE ~Changed(r)
        <3>1. r.info.mtime = lock.mtime
            BY <2>1 DEF Changed
        <3>. QED BY <2>1, <3>1 DEF Knows
    <2>2. CASE Changed(r) /\ r.info = NoInfo
        BY <1>1, <2>2 DEF Knows, Latest
    <2>3. CASE Changed(r) /\ r.info # NoInfo
        BY <1>1, <2>3 DEF Latest
    <2>. QED BY <2>1, <2>2, <2>3
<1>. HIDE DEF i, b, l
<1>5. /\ g \in Memory /\ g.info = i /\ ~g.raced /\ g.late = b /\ g.last = l
      /\ g.pc = r.pc /\ g.how = r.how /\ g.start = r.start /\ g.fileinfo = r.fileinfo
      /\ g.have_pid = r.have_pid /\ g.seen = r.seen
    BY <1>1, <1>2, <1>3 DEF Memory
<1>6. Looked(r, t) = g
    BY DEF Looked, i, b, l
<1>. HIDE DEF g
<1>7. Knows(g)
    BY <1>2, <1>4, <1>5 DEF Knows, FilesOK
<1>. QED BY <1>2, <1>5, <1>6, <1>7

(* A step to a place aside. *)
LEMMA StepsAside ==
    ASSUME IInv, NEW p \in Procs, NEW g, Knows(g), Aside(g),
           proc' = [proc EXCEPT ![p] = g], UNCHANGED <<now, lock, file, created, lost>>
    PROVE  IInv'
BY Resting, LocalStep

LEMMA ProcKnows ==
    ASSUME IInv, NEW p \in Procs
    PROVE  FilesOK /\ Judges(proc[p]) /\ Knows(proc[p]) /\ proc[p] \in Memory
           /\ proc \in [Procs -> Memory]
BY DEF IInv, ProcsOK, Judges, Knows

LEMMA BeginOK ==
    ASSUME IInv, NEW p \in Procs, Begin(p)
    PROVE  IInv'
<1>1. PICK how \in Hows, until \in Deadlines :
        proc' = [proc EXCEPT ![p] = [Idle EXCEPT !.pc = "check", !.how = how, !.until = until]]
    BY DEF Begin
<1>. DEFINE g == [Idle EXCEPT !.pc = "check", !.how = how, !.until = until]
<1>2. FilesOK /\ until \in Int
    BY BoundsAssumption DEF IInv, FilesOK, Deadlines
<1>3. Knows(Idle) /\ Idle \in Memory
    BY <1>2, IdleKnows
<1>4. /\ g \in Memory /\ g.pc = "check" /\ g.start = Idle.start /\ g.info = Idle.info
      /\ g.last = Idle.last /\ g.fileinfo = Idle.fileinfo /\ g.late = Idle.late
      /\ g.seen = Idle.seen
    BY <1>2, <1>3 DEF Memory, Places
<1>5. proc' = [proc EXCEPT ![p] = g] /\ UNCHANGED <<now, lock, file, created, lost>>
    BY <1>1 DEF Begin
<1>. HIDE DEF g
<1>6. Knows(g) /\ Aside(g)
    BY <1>3, <1>4 DEF Knows, Aside
<1>. QED BY <1>5, <1>6, StepsAside

LEMMA AsideSteps ==
    ASSUME IInv, NEW p \in Procs,
           \/ CreateExists(p) \/ Wait(p) \/ GiveUp(p) \/ Crash(p) \/ Restart(p)
    PROVE  IInv'
<1>1. /\ FilesOK /\ Knows(proc[p]) /\ proc \in [Procs -> Memory]
      /\ Knows(Idle) /\ Aside(Idle)
    BY ProcKnows, IdleKnows DEF Aside
<1>2. CASE CreateExists(p)
    <2>1. /\ proc' = [proc EXCEPT ![p] = Again(proc[p])]
          /\ UNCHANGED <<now, lock, file, created, lost>>
        BY <1>1, <1>2 DEF CreateExists
    <2>. QED BY <1>1, <2>1, AgainKnows, StepsAside
<1>3. CASE Wait(p)
    <2>1. /\ proc' = [proc EXCEPT ![p] = [proc[p] EXCEPT !.pc = "check"]]
          /\ UNCHANGED <<now, lock, file, created, lost>>
        BY <1>1, <1>3 DEF Wait, Go
    <2>. QED BY <1>1, <2>1, MovesAside, StepsAside
<1>4. CASE GiveUp(p) \/ Restart(p)
    <2>1. /\ proc' = [proc EXCEPT ![p] = Idle]
          /\ UNCHANGED <<now, lock, file, created, lost>>
        BY <1>4 DEF GiveUp, Restart
    <2>. QED BY <1>1, <2>1, StepsAside
<1>5. CASE Crash(p)
    <2>1. /\ proc' = [proc EXCEPT ![p] = [Idle EXCEPT !.pc = "dead"]]
          /\ UNCHANGED <<now, lock, file, created, lost>>
        BY <1>5 DEF Crash
    <2>. QED BY <1>1, <2>1, MovesAside, StepsAside
<1>. QED BY <1>2, <1>3, <1>4, <1>5

LEMMA CheckOK ==
    ASSUME IInv, NEW p \in Procs, Check(p)
    PROVE  IInv'
<1>. DEFINE r == [proc[p] EXCEPT !.start = now]
            l == Looked(r, now)
            again == Changed(r) \/ ~r.pid_read
            fresh == lock.mtime >= now - PidCheckSecs
<1>1. FilesOK /\ Knows(proc[p]) /\ proc[p] \in Memory /\ now \in Int
    BY ProcKnows DEF FilesOK
<1>2. /\ r \in Memory /\ r.start = now /\ r.info = proc[p].info /\ r.last = proc[p].last
      /\ r.fileinfo = proc[p].fileinfo /\ r.late = proc[p].late /\ r.seen = proc[p].seen
    BY <1>1 DEF Memory
<1>3. UNCHANGED <<now, lock, file, created, lost>>
    BY DEF Check
<1>4. proc' = [proc EXCEPT ![p] =
          IF lock = NoLock THEN Free(r)
          ELSE IF again /\ fresh
          THEN [l EXCEPT !.pc = "age", !.pid_read = FALSE, !.have_pid = FALSE]
          ELSE IF ~again /\ ~r.have_pid THEN [l EXCEPT !.pc = "age"]
          ELSE [l EXCEPT !.pc = "readpid", !.pid_read = TRUE]]
    BY DEF Check
<1>. HIDE DEF r, again, fresh
<1>5. Knows(r)
    BY <1>1, <1>2 DEF Knows
<1>6. CASE lock = NoLock
    <2>1. proc' = [proc EXCEPT ![p] = Free(r)]
        BY <1>4, <1>6
    <2>. QED BY <1>1, <1>3, <1>5, <2>1, FreeKnows, StepsAside
<1>7. CASE lock # NoLock
    <2>1. now <= now /\ r.fileinfo <= now
        BY <1>1, <1>5 DEF Knows
    <2>2. /\ Knows(l) /\ ~l.raced /\ l.info.ino = lock.ino /\ l.info.mtime = lock.mtime
          /\ l.start = r.start /\ l.fileinfo = r.fileinfo /\ l.have_pid = r.have_pid
        BY <1>1, <1>5, <1>7, <2>1, Looking
    <2>. HIDE DEF l
    <2>3. l \in Memory /\ l.pid_read \in BOOLEAN /\ l.have_pid \in BOOLEAN
        BY <2>2 DEF Knows, Memory
    <2>4. \E x \in {"age", "readpid"}, b, h \in BOOLEAN :
            /\ proc' = [proc EXCEPT ![p] = [l EXCEPT !.pc = x, !.pid_read = b, !.have_pid = h]]
            /\ x = "age" => ~h
        <3>1. CASE again /\ fresh
            BY <1>4, <1>7, <3>1
        <3>2. CASE ~(again /\ fresh) /\ ~again /\ ~r.have_pid
            <4>1. [l EXCEPT !.pc = "age"]
                    = [l EXCEPT !.pc = "age", !.pid_read = l.pid_read, !.have_pid = l.have_pid]
                BY <2>3 DEF Memory
            <4>. QED BY <1>4, <1>7, <2>2, <2>3, <3>2, <4>1
        <3>3. CASE ~(again /\ fresh) /\ ~(~again /\ ~r.have_pid)
            <4>1. [l EXCEPT !.pc = "readpid", !.pid_read = TRUE]
                    = [l EXCEPT !.pc = "readpid", !.pid_read = TRUE, !.have_pid = l.have_pid]
                BY <2>3 DEF Memory
            <4>. QED BY <1>4, <1>7, <2>3, <3>3, <4>1
        <3>. QED BY <3>1, <3>2, <3>3
    <2>5. PICK x \in {"age", "readpid"}, b \in BOOLEAN, h \in BOOLEAN :
            /\ proc' = [proc EXCEPT ![p] = [l EXCEPT !.pc = x, !.pid_read = b, !.have_pid = h]]
            /\ x = "age" => ~h
        BY <2>4
    <2>6. PICK g : g = [l EXCEPT !.pc = x, !.pid_read = b, !.have_pid = h]
        OBVIOUS
    <2>7. /\ Knows(g) /\ g.pc = x /\ g.have_pid = h /\ g.start = l.start /\ g.info = l.info
          /\ g.fileinfo = l.fileinfo /\ g.raced = l.raced
        <3>1. x \in Places
            BY DEF Places
        <3>2. /\ g \in Memory /\ g.pc = x /\ g.have_pid = h /\ g.start = l.start
              /\ g.info = l.info /\ g.last = l.last /\ g.fileinfo = l.fileinfo
              /\ g.late = l.late /\ g.seen = l.seen /\ g.raced = l.raced
            BY <2>3, <2>6, <3>1 DEF Memory
        <3>. QED BY <2>2, <3>2 DEF Knows
    <2>8. Judges(g)
        <3>1. g.info.mtime <= g.start /\ g.fileinfo <= g.start
            BY <1>1, <1>2, <1>5, <2>2, <2>7 DEF Knows, FilesOK
        <3>. QED BY <2>2, <2>5, <2>7, <3>1 DEF Judges
    <2>9. Mild(p, g) /\ Cleared(p, g)
        BY <2>7 DEF Mild, Owner, Cleared
    <2>. QED BY <1>3, <2>5, <2>6, <2>8, <2>9, LocalStep
<1>. QED BY <1>6, <1>7

LEMMA ReadPidOK ==
    ASSUME IInv, NEW p \in Procs, ReadPid(p)
    PROVE  IInv'
<1>. DEFINE h == lock.pid # NoProc
            r == [proc[p] EXCEPT !.have_pid = h]
<1>1. /\ FilesOK /\ Knows(proc[p]) /\ Judges(proc[p]) /\ proc[p] \in Memory
      /\ h \in BOOLEAN /\ proc[p].pc = "readpid"
    BY ProcKnows DEF ReadPid, At
<1>2. UNCHANGED <<now, lock, file, created, lost>>
    BY DEF ReadPid
<1>3. proc' = [proc EXCEPT ![p] =
          IF lock.pid = NoProc THEN [r EXCEPT !.pc = "age"]
          ELSE IF lock.pid # p /\ Alive(lock.pid) THEN Again(r)
          ELSE [r EXCEPT !.pc = "recheck", !.seen = lock.id]]
    BY DEF ReadPid
<1>. HIDE DEF h
<1>4. /\ r \in Memory /\ r.have_pid = h /\ r.start = proc[p].start /\ r.info = proc[p].info
      /\ r.last = proc[p].last /\ r.fileinfo = proc[p].fileinfo /\ r.late = proc[p].late
      /\ r.seen = proc[p].seen /\ r.raced = proc[p].raced
    BY <1>1 DEF Memory
<1>. HIDE DEF r
<1>5. Knows(r)
    BY <1>1, <1>4 DEF Knows
<1>6. CASE lock.pid = NoProc
    <2>1. PICK g : g = [r EXCEPT !.pc = "age"]
        OBVIOUS
    <2>2. /\ g \in Memory /\ g.pc = "age" /\ g.have_pid = h /\ g.start = r.start
          /\ g.info = r.info /\ g.last = r.last /\ g.fileinfo = r.fileinfo
          /\ g.late = r.late /\ g.seen = r.seen /\ g.raced = r.raced
        BY <1>4, <2>1 DEF Memory, Places
    <2>3. ~h
        BY <1>6 DEF h
    <2>4. Judges(g)
        BY <1>1, <1>4, <1>5, <2>2, <2>3 DEF Judges, Knows
    <2>5. Mild(p, g) /\ Cleared(p, g)
        BY <2>2 DEF Mild, Owner, Cleared
    <2>6. proc' = [proc EXCEPT ![p] = g]
        BY <1>3, <1>6, <2>1
    <2>. QED BY <1>2, <2>4, <2>5, <2>6, LocalStep
<1>7. CASE lock.pid # NoProc /\ lock.pid # p /\ Alive(lock.pid)
    <2>1. proc' = [proc EXCEPT ![p] = Again(r)]
        BY <1>3, <1>7
    <2>. QED BY <1>1, <1>2, <1>5, <2>1, AgainKnows, StepsAside
<1>8. CASE lock.pid # NoProc /\ ~(lock.pid # p /\ Alive(lock.pid))
    <2>1. PICK g : g = [r EXCEPT !.pc = "recheck", !.seen = lock.id]
        OBVIOUS
    <2>2. lock # NoLock /\ lock.id \in 1..created /\ lock.id \in Int
        BY <1>1, <1>8 DEF FilesOK, NoLock
    <2>3. /\ g \in Memory /\ g.pc = "recheck" /\ g.have_pid = h /\ g.start = r.start
          /\ g.info = r.info /\ g.last = r.last /\ g.fileinfo = r.fileinfo
          /\ g.late = r.late /\ g.seen = lock.id
        BY <1>4, <2>1, <2>2 DEF Memory, Places
    <2>4. h /\ lock.id \in 0..created
        BY <1>1, <1>8, <2>2 DEF h, FilesOK
    <2>5. Judges(g)
        BY <1>1, <1>4, <1>5, <2>3, <2>4 DEF Judges, Knows
    <2>6. ASSUME NEW q \in Procs \ {p}, Owns(q)
          PROVE  proc[q].id # lock.id
        BY <1>8, <2>6 DEF IInv, IdsOK, Alive, Owns
    <2>7. Mild(p, g) /\ Cleared(p, g)
        BY <2>3, <2>6 DEF Mild, Owner, Cleared
    <2>8. proc' = [proc EXCEPT ![p] = g]
        BY <1>3, <1>8, <2>1
    <2>. QED BY <1>2, <2>5, <2>7, <2>8, LocalStep
<1>. QED BY <1>6, <1>7, <1>8

LEMMA RecheckOK ==
    ASSUME IInv, NEW p \in Procs, Recheck(p)
    PROVE  IInv'
<1>. DEFINE r == proc[p]
            l == Looked(r, r.start)
<1>1. FilesOK /\ Knows(r) /\ Judges(r) /\ r \in Memory /\ r.pc = "recheck"
    BY ProcKnows DEF Recheck, At
<1>2. UNCHANGED <<now, lock, file, created, lost>>
    BY DEF Recheck
<1>3. proc' = [proc EXCEPT ![p] =
          IF lock = NoLock THEN Free(r)
          ELSE IF Changed(r) THEN Free(l) ELSE [l EXCEPT !.pc = "override"]]
    BY DEF Recheck
<1>4. CASE lock = NoLock
    <2>1. proc' = [proc EXCEPT ![p] = Free(r)]
        BY <1>3, <1>4
    <2>. QED BY <1>1, <1>2, <2>1, FreeKnows, StepsAside
<1>5. CASE lock # NoLock
    <2>1. r.start \in Int /\ r.start <= now /\ r.fileinfo <= r.start
        BY <1>1 DEF Judges, Knows, Memory
    <2>2. /\ Knows(l) /\ ~l.raced /\ l.info.ino = lock.ino /\ l.info.mtime = lock.mtime
          /\ l.start = r.start /\ l.fileinfo = r.fileinfo /\ l.have_pid = r.have_pid
          /\ l.seen = r.seen
        BY <1>1, <1>5, <2>1, Looking
    <2>. HIDE DEF l
    <2>3. CASE Changed(r)
        <3>1. proc' = [proc EXCEPT ![p] = Free(l)]
            BY <1>3, <1>5, <2>3
        <3>. QED BY <1>1, <1>2, <2>2, <3>1, FreeKnows, StepsAside
    <2>4. CASE ~Changed(r)
        <3>1. PICK g : g = [l EXCEPT !.pc = "override"]
            OBVIOUS
        <3>2. l \in Memory
            BY <2>2 DEF Knows
        <3>3. /\ g \in Memory /\ g.pc = "override" /\ g.have_pid = l.have_pid
              /\ g.start = l.start /\ g.info = l.info /\ g.last = l.last
              /\ g.fileinfo = l.fileinfo /\ g.late = l.late /\ g.seen = l.seen
            BY <3>1, <3>2 DEF Memory, Places
        <3>4. r.have_pid
            BY <1>1 DEF Judges
        <3>5. Judges(g)
            BY <2>2, <3>3, <3>4 DEF Judges, Knows
        <3>6. Mild(p, g)
            BY <3>3 DEF Mild, Owner
        <3>7. Cleared(p, g)
            BY <1>1, <2>2, <3>3, <3>4 DEF Cleared, IInv, SeenOK
        <3>8. proc' = [proc EXCEPT ![p] = g]
            BY <1>3, <1>5, <2>4, <3>1
        <3>. QED BY <1>2, <3>5, <3>6, <3>7, <3>8, LocalStep
    <2>. QED BY <2>3, <2>4
<1>. QED BY <1>4, <1>5

LEMMA AgeOK ==
    ASSUME IInv, NEW p \in Procs, Age(p)
    PROVE  IInv'
<1>. DEFINE r == proc[p]
            old(t) == StaleTimeout # 0 /\ r.start > t + StaleTimeout
            first == r.fileinfo = NoTime
            changed == old(r.last) /\ r.fileinfo # file.mtime
            last == IF changed THEN Latest(r.last, IF first THEN file.mtime ELSE r.start)
                    ELSE r.last
            late == IF changed /\ ~first THEN r.start < file.mtime ELSE r.late
            seen == IF old(r.last) THEN file.mtime ELSE r.fileinfo
            l == [r EXCEPT !.last = last, !.late = late, !.fileinfo = seen]
<1>1. FilesOK /\ Knows(r) /\ Judges(r) /\ r \in Memory /\ r.pc = "age"
    BY ProcKnows DEF Age, At
<1>2. UNCHANGED <<now, lock, file, created, lost>>
    BY DEF Age
<1>3. proc' = [proc EXCEPT ![p] =
                 IF old(last) THEN [l EXCEPT !.pc = "override"] ELSE Again(l)]
    BY DEF Age
<1>4. /\ r.last \in Int /\ r.start \in Int /\ r.fileinfo \in Int /\ r.late \in BOOLEAN
      /\ file.mtime \in Int /\ r.info.mtime \in Int /\ StaleTimeout \in Nat
      /\ file.mtime <= now /\ r.info.mtime <= r.start /\ r.fileinfo <= r.start
    BY <1>1, BoundsAssumption DEF Judges, Memory, Infos, FilesOK
<1>5. last \in Int /\ seen \in Int
    BY <1>4 DEF Latest
<1>6. late \in BOOLEAN
    <2>1. (r.start < file.mtime) \in BOOLEAN
        BY <1>4
    <2>. QED BY <1>4, <2>1, Zenon
<1>7. /\ seen <= now
      /\ ~late => r.info.mtime <= last /\ seen <= last
    <2>0. ~r.late => r.info.mtime <= r.last /\ r.fileinfo <= r.last
        BY <1>1 DEF Knows
    <2>1. CASE ~old(r.last)
        BY <1>1, <1>4, <2>0, <2>1 DEF Knows
    <2>2. CASE old(r.last) /\ ~changed
        BY <1>1, <1>4, <2>0, <2>2 DEF Knows
    <2>3. CASE changed /\ first
        BY <1>4, <2>0, <2>3 DEF Latest
    <2>4. CASE changed /\ ~first
        BY <1>4, <2>4 DEF Latest
    <2>. QED BY <2>1, <2>2, <2>3, <2>4
<1>8. old(last) => r.start > last + StaleTimeout /\ seen = file.mtime
    <2>1. old(last) => old(r.last)
        BY <1>4 DEF Latest
    <2>. QED BY <2>1
<1>. HIDE DEF last, late, seen, old
<1>9. /\ l \in Memory /\ l.last = last /\ l.late = late /\ l.fileinfo = seen
      /\ l.start = r.start /\ l.info = r.info /\ l.seen = r.seen /\ l.have_pid = r.have_pid
      /\ l.raced = r.raced
    BY <1>1, <1>5, <1>6 DEF Memory
<1>. HIDE DEF l
<1>10. Knows(l)
    BY <1>1, <1>7, <1>9 DEF Knows
<1>11. CASE ~old(last)
    <2>1. proc' = [proc EXCEPT ![p] = Again(l)]
        BY <1>3, <1>11
    <2>. QED BY <1>1, <1>2, <1>10, <2>1, AgainKnows, StepsAside
<1>12. CASE old(last)
    <2>1. PICK g : g = [l EXCEPT !.pc = "override"]
        OBVIOUS
    <2>2. /\ g \in Memory /\ g.pc = "override" /\ g.have_pid = l.have_pid
          /\ g.start = l.start /\ g.info = l.info /\ g.last = l.last
          /\ g.fileinfo = l.fileinfo /\ g.late = l.late /\ g.seen = l.seen
          /\ g.raced = l.raced
        BY <1>9, <2>1 DEF Memory, Places
    <2>3. Judges(g)
        BY <1>1, <1>8, <1>9, <1>10, <1>12, <2>2 DEF Judges, Knows
    <2>4. Mild(p, g) /\ Cleared(p, g)
        BY <1>1, <1>9, <2>2 DEF Mild, Owner, Cleared, Judges
    <2>5. proc' = [proc EXCEPT ![p] = g]
        BY <1>3, <1>12, <2>1
    <2>. QED BY <1>2, <2>3, <2>4, <2>5, LocalStep
<1>. QED BY <1>11, <1>12

(* An owner looks at the name, and goes on if it finds its inode number. *)
LEMMA OwnerLooks ==
    ASSUME IInv, NEW p \in Procs, Verify(p) \/ Delete(p) \/ VerifyOwner(p)
    PROVE  IInv'
<1>. DEFINE r == proc[p]
<1>1. /\ FilesOK /\ Judges(r) /\ Knows(r) /\ r \in Memory /\ proc \in [Procs -> Memory]
      /\ Owns(p) /\ Owner(r) /\ Knows(Idle) /\ Aside(Idle)
    BY ProcKnows, IdleKnows DEF Verify, Delete, VerifyOwner, At, Owns, Owner, Aside
<1>2. UNCHANGED <<now, lock, file, created, lost>>
    BY DEF Verify, Delete, VerifyOwner
<1>3. CASE lock.ino # r.ino
    <2>1. proc' = [proc EXCEPT ![p] = Idle]
        BY <1>1, <1>3 DEF Verify, Delete, VerifyOwner
    <2>. QED BY <1>1, <1>2, <2>1, StepsAside
<1>4. CASE lock.ino = r.ino
    <2>1. \E x \in {"owner", "unlink", "rename"}, b \in BOOLEAN :
            /\ proc' = [proc EXCEPT ![p] = [r EXCEPT !.pc = x, !.raced = b]]
            /\ x = "rename" => r.how = "open" /\ ~b
        <3>1. CASE Verify(p)
            <4>1. proc' = [proc EXCEPT ![p] = [r EXCEPT !.pc = "owner"]]
                BY <1>1, <1>4, <3>1 DEF Verify
            <4>2. /\ [r EXCEPT !.pc = "owner"] = [r EXCEPT !.pc = "owner", !.raced = r.raced]
                  /\ r.raced \in BOOLEAN
                BY <1>1 DEF Memory
            <4>. QED BY <4>1, <4>2
        <3>2. CASE Delete(p)
            <4>1. proc' = [proc EXCEPT ![p] = [r EXCEPT !.pc = "unlink", !.raced = FALSE]]
                BY <1>1, <1>4, <3>2 DEF Delete
            <4>. QED BY <4>1
        <3>3. CASE VerifyOwner(p)
            <4>1. /\ proc' = [proc EXCEPT ![p] = [r EXCEPT !.pc = "rename", !.raced = FALSE]]
                  /\ r.how = "open"
                BY <1>1, <1>4, <3>3 DEF VerifyOwner
            <4>. QED BY <4>1
        <3>. QED BY <3>1, <3>2, <3>3
    <2>2. PICK x \in {"owner", "unlink", "rename"}, b \in BOOLEAN :
            /\ proc' = [proc EXCEPT ![p] = [r EXCEPT !.pc = x, !.raced = b]]
            /\ x = "rename" => r.how = "open" /\ ~b
        BY <2>1
    <2>3. PICK g : g = [r EXCEPT !.pc = x, !.raced = b]
        OBVIOUS
    <2>4. x \in Places
        BY DEF Places
    <2>5. /\ g \in Memory /\ g.pc = x /\ g.raced = b /\ g.start = r.start /\ g.info = r.info
          /\ g.last = r.last /\ g.fileinfo = r.fileinfo /\ g.late = r.late
          /\ g.seen = r.seen /\ g.how = r.how /\ g.id = r.id /\ g.ino = r.ino
        BY <1>1, <2>3, <2>4 DEF Memory
    <2>6. Judges(g)
        BY <1>1, <1>4, <2>2, <2>5 DEF Judges, Knows
    <2>7. Mild(p, g) /\ Cleared(p, g)
        BY <1>1, <2>5 DEF Mild, Cleared
    <2>. QED BY <1>2, <2>2, <2>3, <2>6, <2>7, LocalStep
<1>. QED BY <1>3, <1>4

-----------------------------------------------------------------------------
(* Steps that others notice.                                               *)

(* The others keep what they know when p, now g, changes the files. *)
LEMMA Disturbs ==
    ASSUME IInv, NEW p \in Procs, NEW g \in Memory, Judges(g)',
           \/ proc' = Raced(p, [proc EXCEPT ![p] = g])
           \/ proc' = [proc EXCEPT ![p] = g] /\ lock' \in {lock, NoLock} /\ file' = file,
           now' = now, created' \in Nat, created <= created'
    PROVE  ProcsOK' /\ Becomes(p, g)
<1>1. FilesOK /\ ProcsOK /\ now' \in Nat /\ now <= now'
    BY DEF IInv, FilesOK
<1>2. Becomes(p, g)
    <2>1. PICK ps : ps = [proc EXCEPT ![p] = g]
        OBVIOUS
    <2>2. CASE proc' = Raced(p, [proc EXCEPT ![p] = g])
        BY <1>1, <2>1, <2>2, OthersRaced DEF Becomes
    <2>3. CASE proc' = [proc EXCEPT ![p] = g]
        BY <1>1, <2>3, Become
    <2>. QED BY <2>2, <2>3
<1>3. \A q \in Procs \ {p} :
        /\ Judges(proc'[q])
        /\ proc'[q].pc \in Windows => \/ proc'[q].raced
                                      \/ lock' \in {lock, NoLock} /\ file'.mtime = file.mtime
    <2>1. PICK ps : ps = [proc EXCEPT ![p] = g]
        OBVIOUS
    <2>2. CASE proc' = Raced(p, [proc EXCEPT ![p] = g])
        BY <1>1, <2>1, <2>2, OthersRaced
    <2>3. CASE proc' = [proc EXCEPT ![p] = g] /\ lock' \in {lock, NoLock} /\ file' = file
        BY <1>1, <2>3, Become DEF ProcsOK
    <2>. QED BY <2>2, <2>3
<1>5. ASSUME NEW q \in Procs \ {p} PROVE Judges(proc[q])'
    <2>1. PICK r : r = proc'[q]
        OBVIOUS
    <2>2. /\ Judges(r)
          /\ r.pc \in Windows => \/ r.raced
                                 \/ lock' \in {lock, NoLock} /\ file'.mtime = file.mtime
        BY <1>3, <2>1
    <2>3. Judges(r)'
        <3>1. /\ r.seen \in 0..created /\ r.info.mtime \in Int /\ r.fileinfo \in Int
              /\ r.start \in Int
            BY <2>2 DEF Judges, Knows, Memory, Infos
        <3>2. Knows(r)'
            BY <1>1, <2>2, <3>1 DEF Judges, Knows, FilesOK
        <3>. QED BY <2>2, <3>2 DEF Judges, Windows
    <2>. QED BY <2>1, <2>3
<1>6. proc' \in [Procs -> Memory] /\ Judges(proc[p])'
    BY <1>2 DEF Becomes
<1>7. ProcsOK'
    BY <1>5, <1>6 DEF ProcsOK
<1>. QED BY <1>2, <1>7

(* Writing the lock file, or the protected file, as the owner g. *)
LEMMA WriteStep ==
    ASSUME IInv, NEW p \in Procs, NEW g \in Memory, Judges(g)', Mild(p, g),
           g.pc \notin {"recheck", "override"},
           \/ proc' = Raced(p, [proc EXCEPT ![p] = g])
           \/ proc' = [proc EXCEPT ![p] = g] /\ lock' = lock /\ file' = file,
           \/ lock' = lock
           \/ /\ lock # NoLock /\ lock'.id = lock.id /\ lock'.ino = lock.ino
              /\ \A q \in Procs : Owns(q) /\ proc[q].id = lock.id => lock'.pid \in {q, NoProc},
           FilesOK', UNCHANGED <<now, created, lost>>
    PROVE  IInv'
<1>1. created' \in Nat /\ created <= created'
    BY DEF IInv, FilesOK
<1>2. ProcsOK' /\ Becomes(p, g)
    BY <1>1, Disturbs
<1>3. Cleared(p, g)
    BY DEF Cleared
<1>4. /\ IdsOK' /\ OpenOK' /\ SeenOK'
      /\ \A q \in Procs : Owns(q)' => Owns(q) /\ proc'[q].id = proc[q].id
    BY <1>2, <1>3, Ownership
<1>5. LostOK'
    BY <1>4 DEF IInv, LostOK, LossExplained
<1>. QED BY <1>2, <1>4, <1>5 DEF IInv

LEMMA SameRecord ==
    ASSUME IInv, NEW p \in Procs
    PROVE  proc = [proc EXCEPT ![p] = proc[p]]
BY ProcKnows

LEMMA WritePidOK ==
    ASSUME IInv, NEW p \in Procs, WritePid(p)
    PROVE  IInv'
<1>. DEFINE r == proc[p]
            own == lock.id = r.id
<1>1. /\ FilesOK /\ Judges(r) /\ Knows(r) /\ r \in Memory /\ proc \in [Procs -> Memory]
      /\ Owns(p) /\ UNCHANGED <<now, file, created, lost>>
    BY ProcKnows DEF WritePid, At, Owns
<1>2. PICK g : g = [r EXCEPT !.pc = "verify"]
    OBVIOUS
<1>3. /\ g \in Memory /\ g.pc = "verify" /\ g.start = r.start /\ g.info = r.info
      /\ g.last = r.last /\ g.fileinfo = r.fileinfo /\ g.late = r.late
      /\ g.seen = r.seen /\ g.how = r.how /\ g.id = r.id /\ g.ino = r.ino
    BY <1>1, <1>2 DEF Memory, Places
<1>4. Judges(g)'
    BY <1>1, <1>3 DEF Judges, Knows
<1>5. Mild(p, g)
    BY <1>1, <1>3 DEF Mild
<1>6. [proc EXCEPT ![p].pc = "verify"] = [proc EXCEPT ![p] = g]
    BY <1>1, <1>2
<1>7. CASE ~own
    <2>1. lock' = lock /\ proc' = [proc EXCEPT ![p] = g]
        BY <1>6, <1>7 DEF WritePid
    <2>2. FilesOK'
        BY <1>1, <2>1 DEF FilesOK
    <2>. QED BY <1>1, <1>3, <1>4, <1>5, <2>1, <2>2, WriteStep
<1>8. CASE own
    <2>1. lock' = [lock EXCEPT !.pid = p, !.mtime = now] /\ proc' = Raced(p, [proc EXCEPT ![p] = g])
        BY <1>6, <1>8 DEF WritePid
    <2>2. lock # NoLock
        BY <1>1, <1>8 DEF IInv, IdsOK, NoLock, FilesOK
    <2>3. /\ lock' \in Locks /\ lock'.id = lock.id /\ lock'.ino = lock.ino
          /\ lock'.pid = p /\ lock'.mtime = now
        <3>1. lock \in Locks /\ now \in Int /\ p \in Procs \union {NoProc}
            BY <1>1 DEF FilesOK
        <3>. QED BY <2>1, <3>1 DEF Locks
    <2>4. \A q \in Procs : Owns(q) /\ proc[q].id = lock.id => lock'.pid \in {q, NoProc}
        BY <1>1, <1>8, <2>3 DEF IInv, IdsOK
    <2>5. FilesOK'
        BY <1>1, <2>2, <2>3 DEF FilesOK
    <2>. QED BY <1>1, <1>3, <1>4, <1>5, <2>1, <2>2, <2>3, <2>4, <2>5, WriteStep
<1>. QED BY <1>7, <1>8

LEMMA WritesOK ==
    ASSUME IInv, NEW p \in Procs, Touch(p) \/ WriteFile(p)
    PROVE  IInv'
<1>1. PICK g : g = proc[p]
    OBVIOUS
<1>2. /\ FilesOK /\ Judges(g) /\ Knows(g) /\ g \in Memory /\ g.pc = "owner" /\ Owns(p)
      /\ proc = [proc EXCEPT ![p] = g]
    BY <1>1, ProcKnows, SameRecord DEF Touch, WriteFile, At, Owns
<1>3. UNCHANGED <<now, created, lost>> /\ proc' = Raced(p, [proc EXCEPT ![p] = g])
    BY <1>2 DEF Touch, WriteFile
<1>4. Judges(g)'
    BY <1>2, <1>3 DEF Judges, Knows
<1>5. Mild(p, g)
    BY <1>1, <1>2 DEF Mild
<1>6. CASE Touch(p)
    <2>1. /\ lock # NoLock /\ lock' \in Locks /\ lock'.id = lock.id /\ lock'.ino = lock.ino
          /\ lock'.pid = lock.pid /\ lock'.mtime = now /\ file' = file
        BY <1>2, <1>6 DEF Touch, FilesOK, Locks
    <2>2. \A q \in Procs : Owns(q) /\ proc[q].id = lock.id => lock'.pid \in {q, NoProc}
        BY <2>1 DEF IInv, IdsOK
    <2>3. FilesOK'
        BY <1>2, <1>3, <2>1 DEF FilesOK
    <2>. QED BY <1>2, <1>3, <1>4, <1>5, <2>1, <2>2, <2>3, WriteStep
<1>7. CASE WriteFile(p)
    <2>1. file' \in Infos /\ file'.mtime = now /\ lock' = lock
        BY <1>2, <1>7 DEF WriteFile, FilesOK, Infos
    <2>2. FilesOK'
        BY <1>2, <1>3, <2>1 DEF FilesOK
    <2>. QED BY <1>2, <1>3, <1>4, <1>5, <2>1, <2>2, WriteStep
<1>. QED BY <1>6, <1>7

LEMMA CreateOK ==
    ASSUME IInv, NEW p \in Procs, Create(p)
    PROVE  IInv'
<1>. DEFINE write == proc[p].how = "create"
            new(i) == [Idle EXCEPT !.pc = IF ~write THEN "owner"
                                          ELSE IF excl THEN "writepid" ELSE "verify",
                                   !.how = proc[p].how, !.id = created', !.ino = i]
<1>1. /\ FilesOK /\ Knows(proc[p]) /\ proc[p] \in Memory /\ proc[p].how \in Hows
      /\ Knows(Idle) /\ Idle \in Memory
    BY ProcKnows, IdleKnows DEF Memory
<1>2. /\ lock = NoLock /\ created' = created + 1 /\ UNCHANGED <<now, file, lost>>
      /\ created \in Nat /\ created' \in Nat /\ now \in Int
    BY <1>1 DEF Create, FilesOK
<1>3. PICK i \in Inodes \ Used :
        /\ lock' = [id |-> created', ino |-> i, mtime |-> now,
                    pid |-> IF write /\ ~excl THEN p ELSE NoProc]
        /\ proc' = Raced(p, [proc EXCEPT ![p] = new(i)])
    BY DEF Create
<1>4. PICK x \in {"owner", "writepid", "verify"} :
        x = IF ~write THEN "owner" ELSE IF excl THEN "writepid" ELSE "verify"
    OBVIOUS
<1>5. PICK g : g = [Idle EXCEPT !.pc = x, !.how = proc[p].how, !.id = created', !.ino = i]
    OBVIOUS
<1>6. /\ g \in Memory /\ g.pc = x /\ g.how = proc[p].how /\ g.id = created' /\ g.ino = i
      /\ g.start = Idle.start /\ g.info = Idle.info /\ g.last = Idle.last
      /\ g.fileinfo = Idle.fileinfo /\ g.late = Idle.late /\ g.seen = Idle.seen
    <2>1. x \in Places /\ i \in Numbers /\ created' \in Int
        BY <1>2 DEF Places, Numbers
    <2>. QED BY <1>1, <1>5, <2>1 DEF Memory
<1>7. proc' = Raced(p, [proc EXCEPT ![p] = g])
    BY <1>3, <1>4, <1>5
<1>8. /\ lock' \in Locks /\ lock'.id = created' /\ lock'.ino = i /\ lock'.mtime = now
      /\ lock'.pid \in {p, NoProc}
    <2>1. PICK y \in {p, NoProc} : y = IF write /\ ~excl THEN p ELSE NoProc
        OBVIOUS
    <2>2. lock' = [id |-> created', ino |-> i, mtime |-> now, pid |-> y]
        BY <1>3, <2>1
    <2>3. i \in Numbers /\ created' \in Int /\ y \in Procs \union {NoProc}
        BY <1>2 DEF Numbers
    <2>. QED BY <1>2, <2>2, <2>3 DEF Locks
<1>9. FilesOK'
    BY <1>1, <1>2, <1>8 DEF FilesOK
<1>10. Judges(g)'
    <2>1. Idle.seen \in 0..created'
        BY <1>1, <1>2 DEF Knows
    <2>. QED BY <1>1, <1>2, <1>4, <1>6, <2>1 DEF Judges, Knows
<1>11. ProcsOK' /\ Becomes(p, g)
    BY <1>2, <1>6, <1>7, <1>10, Disturbs
<1>12. ASSUME NEW q \in Procs, q # p, Owns(q)'
       PROVE  /\ Owns(q) /\ proc'[q].id = proc[q].id /\ proc'[q].ino = proc[q].ino
              /\ proc'[q].how = proc[q].how /\ proc'[q].pc = proc[q].pc
              /\ proc[q].id \in 1..created
    BY <1>11, <1>12 DEF Becomes, Same, Owns, IInv, IdsOK
<1>13. Owns(p)' /\ proc'[p] = g
    BY <1>4, <1>6, <1>11 DEF Owns, Becomes
<1>14. IdsOK'
    <2>1. ASSUME NEW q \in Procs, Owns(q)'
          PROVE  proc'[q].id \in 1..created'
        BY <1>2, <1>6, <1>12, <1>13, <2>1
    <2>2. ASSUME NEW q \in Procs, NEW r \in Procs, Owns(q)', Owns(r)', proc'[q].id = proc'[r].id
          PROVE  q = r
        <3>1. CASE q # p /\ r # p
            BY <1>12, <2>2, <3>1 DEF IInv, IdsOK
        <3>2. CASE (q = p) # (r = p)
            BY <1>2, <1>6, <1>12, <1>13, <2>2, <3>2
        <3>. QED BY <3>1, <3>2
    <2>3. ASSUME NEW q \in Procs, Owns(q)', proc'[q].id = lock'.id
          PROVE  lock'.pid \in {q, NoProc}
        BY <1>2, <1>8, <1>12, <2>3
    <2>. QED BY <2>1, <2>2, <2>3 DEF IdsOK
<1>15. OpenOK'
    <2>1. ASSUME NEW q \in Procs, q # p, Owns(q)', proc'[q].how = "open" \/ proc'[q].pc = "writepid"
          PROVE  proc'[q].ino # i
        BY <1>12, <2>1 DEF Used, At
    <2>. QED BY <1>6, <1>8, <1>13, <2>1 DEF OpenOK
<1>16. SeenOK'
    <2>1. ASSUME NEW q \in Procs, NEW r \in Procs, q # r,
                 proc'[q].pc \in {"recheck", "override"}, proc'[q].have_pid, Owns(r)'
          PROVE  proc'[r].id # proc'[q].seen
        <3>1. q # p
            BY <1>4, <1>6, <1>13, <2>1
        <3>2. /\ proc[q].pc \in {"recheck", "override"} /\ proc[q].have_pid
              /\ proc'[q].seen = proc[q].seen /\ proc[q].seen \in 0..created
            BY <1>11, <2>1, <3>1 DEF Becomes, Same, IInv, ProcsOK, Judges, Knows
        <3>3. CASE r = p
            BY <1>2, <1>6, <1>13, <3>2, <3>3
        <3>4. CASE r # p
            BY <1>12, <2>1, <3>2, <3>4 DEF IInv, SeenOK
        <3>. QED BY <3>3, <3>4
    <2>. QED BY <2>1 DEF SeenOK
<1>17. LostOK'
    <2>1. ASSUME lost = {}, NEW q \in Procs, Owns(q)'
          PROVE  q = p
        BY <1>2, <1>12, <2>1 DEF IInv, LostOK, NoLock
    <2>. QED BY <1>2, <1>6, <1>8, <1>13, <2>1 DEF IInv, LostOK, LossExplained
<1>. QED BY <1>9, <1>11, <1>14, <1>15, <1>16, <1>17 DEF IInv

-----------------------------------------------------------------------------
(* Taking the name of the lock file away.                                  *)

Explained == {"overtaken", "silent", "backdated", "twin"}

(* p removes the lock file and goes aside. *)
LEMMA RemovalStep ==
    ASSUME IInv, NEW p \in Procs, NEW g \in Memory, Knows(g), Aside(g), NEW why,
           Removed(p, why),
           Victim(p) /\ ~proc[p].raced =>
                why # "robbed" /\ (lost = {} => why \in Explained),
           \/ proc' = Raced(p, [proc EXCEPT ![p] = g])
           \/ proc' = [proc EXCEPT ![p] = g] /\ file' = file,
           file' \in Infos, file'.mtime <= now, UNCHANGED <<now, created>>
    PROVE  IInv'
<1>1. FilesOK /\ lock' = NoLock /\ created' \in Nat /\ created <= created'
    BY DEF IInv, FilesOK, Removed
<1>2. FilesOK'
    <2>1. NoLock \in Locks /\ NoLock.mtime = -1
        BY DEF NoLock, Locks, Numbers, NoTime
    <2>. QED BY <1>1, <2>1 DEF FilesOK
<1>3. Judges(g)'
    BY <1>1 DEF Judges, Knows, Aside
<1>4. ProcsOK' /\ Becomes(p, g)
    BY <1>1, <1>3, Disturbs
<1>5. Mild(p, g) /\ Cleared(p, g)
    BY Resting
<1>6. /\ IdsOK' /\ OpenOK' /\ SeenOK'
      /\ \A q \in Procs : Owns(q)' => Owns(q) /\ proc'[q].id = proc[q].id
    BY <1>1, <1>4, <1>5, Ownership
<1>7. \A q \in Procs : Owns(q)' => q # p
    BY <1>4 DEF Becomes, Aside, Owns
<1>8. ASSUME lost' = {}, NEW q \in Procs, Owns(q)'
      PROVE  FALSE
    <2>1. lost = {} /\ ~Victim(p)
        BY <1>8 DEF Removed
    <2>. QED BY <1>6, <1>7, <1>8, <2>1 DEF Victim, IInv, LostOK
<1>9. LossExplained'
    <2>1. LossExplained
        BY DEF IInv, LostOK
    <2>2. CASE ~Victim(p)
        BY <2>1, <2>2 DEF Removed, LossExplained
    <2>3. CASE Victim(p) /\ proc[p].raced
        BY <2>1, <2>3 DEF Removed, LossExplained
    <2>4. CASE Victim(p) /\ ~proc[p].raced
        BY <2>1, <2>4 DEF Removed, LossExplained, Explained
    <2>. QED BY <2>2, <2>3, <2>4
<1>10. LostOK'
    BY <1>8, <1>9 DEF LostOK
<1>. QED BY <1>2, <1>4, <1>6, <1>10 DEF IInv

LEMMA OverrideOK ==
    ASSUME IInv, NEW p \in Procs, Override(p)
    PROVE  IInv'
<1>. DEFINE r == proc[p]
            why == IF Silent THEN "silent" ELSE IF Backdated(p) THEN "backdated"
                   ELSE IF Twin(p) THEN "twin" ELSE "robbed"
<1>1. /\ FilesOK /\ Judges(r) /\ Knows(r) /\ r \in Memory /\ proc \in [Procs -> Memory]
      /\ r.pc = "override"
    BY ProcKnows DEF Override, At
<1>2. /\ Removed(p, why) /\ proc' = [proc EXCEPT ![p] = Again(r)]
      /\ UNCHANGED <<now, file, created>>
    BY <1>1 DEF Override
<1>3. ASSUME Victim(p), ~r.raced
      PROVE  Silent \/ Backdated(p) \/ Twin(p)
    <2>1. PICK q \in Procs \ {p} : Owns(q) /\ proc[q].id = lock.id
        BY <1>3 DEF Victim
    <2>2. lock # NoLock
        BY <1>1, <2>1 DEF IInv, IdsOK, FilesOK, NoLock
    <2>3. r.info.ino = lock.ino /\ r.info.mtime = lock.mtime
        BY <1>1, <1>3, <2>2 DEF Judges
    <2>4. CASE r.have_pid
        <3>1. r.info = [ino |-> lock.ino, mtime |-> lock.mtime]
            BY <1>1, <2>3 DEF Memory, Infos
        <3>2. r.seen # lock.id
            BY <1>1, <2>1, <2>4 DEF IInv, SeenOK
        <3>. QED BY <2>4, <3>1, <3>2 DEF Twin, Changed
    <2>5. CASE ~r.have_pid /\ r.late
        BY <2>5 DEF Backdated
    <2>6. CASE ~r.have_pid /\ ~r.late
        <3>1. r.start > r.last + StaleTimeout /\ r.fileinfo = file.mtime /\ r.start <= now
            BY <1>1, <1>3, <2>6 DEF Judges, Knows
        <3>2. lock.mtime <= r.last /\ file.mtime <= r.last
            BY <1>1, <2>3, <2>6, <3>1 DEF Knows
        <3>3. /\ r.last \in Int /\ r.start \in Int /\ lock.mtime \in Int /\ file.mtime \in Int
              /\ StaleTimeout \in Nat /\ now \in Nat
            BY <1>1, BoundsAssumption DEF Memory, FilesOK, Locks, Infos
        <3>. QED BY <3>1, <3>2, <3>3 DEF Silent, Latest
    <2>. QED BY <2>4, <2>5, <2>6
<1>4. Victim(p) /\ ~r.raced => why # "robbed" /\ (lost = {} => why \in Explained)
    BY <1>3 DEF Explained
<1>5. Knows(Again(r)) /\ Aside(Again(r)) /\ Again(r) \in Memory
    BY <1>1, AgainKnows DEF Knows
<1>6. file' = file /\ file' \in Infos /\ file'.mtime <= now
    BY <1>1, <1>2 DEF FilesOK
<1>. HIDE DEF why
<1>. QED BY <1>2, <1>4, <1>5, <1>6, RemovalStep

(* An owner that removes a lock file which is not its own has lost it before. *)
LEMMA NotMine ==
    ASSUME IInv, NEW p \in Procs, Owns(p), Victim(p)
    PROVE  lost # {} /\ lock # NoLock /\ lock.id # proc[p].id
<1>1. PICK q \in Procs \ {p} : Owns(q) /\ proc[q].id = lock.id
    BY DEF Victim
<1>2. lock.id # proc[p].id
    BY <1>1 DEF IInv, IdsOK
<1>3. lock # NoLock
    BY <1>1 DEF IInv, IdsOK, FilesOK, NoLock
<1>. QED BY <1>2, <1>3 DEF IInv, LostOK

LEMMA UnlinkOK ==
    ASSUME IInv, NEW p \in Procs, Unlink(p)
    PROVE  IInv'
<1>1. /\ FilesOK /\ Owns(p) /\ Knows(Idle) /\ Idle \in Memory /\ Aside(Idle)
    BY ProcKnows, IdleKnows DEF Unlink, At, Owns, Aside
<1>2. /\ Removed(p, "reused") /\ proc' = [proc EXCEPT ![p] = Idle]
      /\ UNCHANGED <<now, file, created>>
    BY DEF Unlink
<1>3. file' = file /\ file' \in Infos /\ file'.mtime <= now
    BY <1>1, <1>2 DEF FilesOK
<1>4. Victim(p) => lost # {}
    BY <1>1, NotMine
<1>. QED BY <1>1, <1>2, <1>3, <1>4, RemovalStep

LEMMA RenamesOK ==
    ASSUME IInv, NEW p \in Procs, Rename(p) \/ Replace(p)
    PROVE  IInv'
<1>1. PICK why \in {"robbed", "blind"} :
        /\ RenameBy(p, why) /\ Owns(p)
        /\ why = "robbed" => proc[p].pc = "rename"
    BY DEF Rename, Replace, At, Owns
<1>2. /\ FilesOK /\ Judges(proc[p]) /\ Knows(Idle) /\ Idle \in Memory /\ Aside(Idle)
      /\ proc \in [Procs -> Memory]
    BY ProcKnows, IdleKnows DEF Aside
<1>3. Removed(p, why) /\ UNCHANGED <<now, created>>
    BY <1>1 DEF RenameBy
<1>4. proc' = Raced(p, [proc EXCEPT ![p] = Idle])
    BY <1>1, <1>2 DEF RenameBy, Raced
<1>5. file' \in Infos /\ file'.mtime <= now
    <2>1. CASE lock = NoLock
        BY <1>1, <1>2, <2>1 DEF RenameBy, FilesOK
    <2>2. CASE lock # NoLock
        <3>1. lock.ino \in Numbers /\ now \in Int
            BY <1>2 DEF FilesOK, Locks
        <3>2. file' = [ino |-> lock.ino, mtime |-> now]
            BY <1>1, <2>2 DEF RenameBy
        <3>. QED BY <3>1, <3>2 DEF Infos
    <2>. QED BY <2>1, <2>2
<1>6. Victim(p) /\ ~proc[p].raced => why # "robbed" /\ lost # {}
    <2>1. ASSUME Victim(p), ~proc[p].raced, why = "robbed"
          PROVE  FALSE
        <3>1. lock # NoLock /\ lock.id # proc[p].id
            BY <1>1, <2>1, NotMine
        <3>2. proc[p].ino = lock.ino /\ proc[p].how = "open"
            BY <1>1, <1>2, <2>1, <3>1 DEF Judges
        <3>. QED BY <1>1, <3>1, <3>2 DEF IInv, OpenOK
    <2>. QED BY <1>1, <2>1, NotMine
<1>. QED BY <1>2, <1>3, <1>4, <1>5, <1>6, RemovalStep

-----------------------------------------------------------------------------
(* The theorems.                                                           *)

LEMMA TickOK ==
    ASSUME IInv, Tick
    PROVE  IInv'
<1>1. /\ FilesOK /\ ProcsOK /\ now' = now + 1
      /\ UNCHANGED <<lock, file, proc, created, lost>>
    BY DEF IInv, Tick
<1>2. FilesOK'
    BY <1>1 DEF FilesOK, Locks, Infos
<1>3. ASSUME NEW q \in Procs PROVE Judges(proc[q])'
    <2>1. /\ Judges(proc[q]) /\ proc[q].info.mtime \in Int /\ proc[q].fileinfo \in Int
          /\ proc[q].start \in Int /\ now \in Nat
        BY <1>1 DEF ProcsOK, Judges, Knows, Memory, Infos, FilesOK
    <2>2. Knows(proc[q])'
        BY <1>1, <2>1 DEF Judges, Knows
    <2>. QED BY <1>1, <2>1, <2>2 DEF Judges
<1>4. ProcsOK'
    BY <1>1, <1>3 DEF ProcsOK
<1>5. IdsOK' /\ OpenOK' /\ SeenOK' /\ LostOK'
    BY <1>1 DEF IInv, IdsOK, OpenOK, SeenOK, LostOK, LossExplained, Owns
<1>. QED BY <1>2, <1>4, <1>5 DEF IInv

LEMMA InitOK ==
    ASSUME Init
    PROVE  IInv
<1>1. NoLock \in Locks /\ NoLock.mtime = -1
    BY DEF NoLock, Locks, Numbers, NoTime
<1>2. FilesOK
    BY <1>1 DEF Init, FilesOK, Infos, Numbers
<1>3. Knows(Idle) /\ Aside(Idle) /\ Idle \in Memory /\ Judges(Idle)
    BY <1>2, IdleKnows, Resting DEF Aside
<1>4. ProcsOK
    BY <1>3 DEF Init, ProcsOK
<1>5. \A p \in Procs : ~Owns(p) /\ proc[p].pc = "idle"
    BY DEF Init, Owns, Idle
<1>6. IdsOK /\ OpenOK /\ SeenOK /\ LostOK
    BY <1>5 DEF Init, IdsOK, OpenOK, SeenOK, LostOK, LossExplained
<1>. QED BY <1>2, <1>4, <1>6 DEF IInv

(* The inductive invariant: the lock files that owners have are different  *)
(* ones, an open file's inode number leads to no other, and a process that *)
(* is about to override a lock saw that lock silent for stale_timeout, or  *)
(* saw it as that of a dead process, unless somebody has changed something *)
(* since its last look or it took a change for older than it was.          *)
THEOREM Invariance == Spec => []IInv
<1>1. Init => IInv
    BY InitOK
<1>2. IInv /\ [Next]_vars => IInv'
    <2>. SUFFICES ASSUME IInv, [Next]_vars PROVE IInv'
        OBVIOUS
    <2>1. CASE Tick
        BY <2>1, TickOK
    <2>2. CASE Over \/ UNCHANGED vars
        <3>1. UNCHANGED vars
            BY <2>2 DEF Over
        <3>2. FilesOK' /\ IdsOK' /\ OpenOK' /\ SeenOK' /\ LostOK'
            BY <3>1 DEF vars, IInv, FilesOK, IdsOK, OpenOK, SeenOK, LostOK, LossExplained, Owns
        <3>3. ProcsOK'
            BY <3>1 DEF vars, IInv, ProcsOK, Judges, Knows
        <3>. QED BY <3>2, <3>3 DEF IInv
    <2>3. ASSUME NEW p \in Procs,
                 \/ Begin(p) \/ Check(p) \/ ReadPid(p) \/ Recheck(p) \/ Age(p)
                 \/ Override(p) \/ Create(p) \/ CreateExists(p) \/ WritePid(p)
                 \/ Wait(p) \/ GiveUp(p) \/ Verify(p)
                 \/ Touch(p) \/ WriteFile(p) \/ Delete(p) \/ Unlink(p)
                 \/ VerifyOwner(p) \/ Rename(p) \/ Replace(p)
                 \/ Crash(p) \/ Restart(p)
          PROVE  IInv'
        <3>1. CASE Begin(p)
            BY <3>1, BeginOK
        <3>2. CASE Check(p)
            BY <3>2, CheckOK
        <3>3. CASE ReadPid(p)
            BY <3>3, ReadPidOK
        <3>4. CASE Recheck(p)
            BY <3>4, RecheckOK
        <3>5. CASE Age(p)
            BY <3>5, AgeOK
        <3>6. CASE Override(p)
            BY <3>6, OverrideOK
        <3>7. CASE Create(p)
            BY <3>7, CreateOK
        <3>8. CASE CreateExists(p) \/ Wait(p) \/ GiveUp(p) \/ Crash(p) \/ Restart(p)
            BY <3>8, AsideSteps
        <3>9. CASE WritePid(p)
            BY <3>9, WritePidOK
        <3>10. CASE Verify(p) \/ Delete(p) \/ VerifyOwner(p)
            BY <3>10, OwnerLooks
        <3>11. CASE Touch(p) \/ WriteFile(p)
            BY <3>11, WritesOK
        <3>12. CASE Unlink(p)
            BY <3>12, UnlinkOK
        <3>13. CASE Rename(p) \/ Replace(p)
            BY <3>13, RenamesOK
        <3>. QED BY <2>3, <3>1, <3>2, <3>3, <3>4, <3>5, <3>6, <3>7, <3>8, <3>9, <3>10,
                    <3>11, <3>12, <3>13
    <2>. QED BY <2>1, <2>2, <2>3 DEF Next
<1>. QED BY <1>1, <1>2, PTL DEF Spec

(* Mutual exclusion: as long as no live owner's lock was taken from it, only *)
(* one process has got past dotlock_create(), whatever crashes, restarts and *)
(* overrides there are.                                                     *)
THEOREM OnlyOneOwner == Spec => []OnlyOwner
<1>1. IInv => OnlyOwner
    BY DEF IInv, LostOK, IdsOK, OnlyOwner
<1>. QED BY <1>1, Invariance, PTL

(* A live owner first loses its lock only by its silence, because it came or *)
(* wrote between another's last look and unlink(), or because that other was *)
(* deceived in one of the two ways of LossExplained: neither by the PID check *)
(* otherwise, nor by file_dotlock_replace() after its check of the owner.   *)
THEOREM LossIsExplained == Spec => []LossExplained
<1>1. IInv => LossExplained
    BY DEF IInv, LostOK
<1>. QED BY <1>1, Invariance, PTL
=============================================================================
