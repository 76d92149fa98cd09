------------------------ MODULE TransactionLog_proofs ------------------------
(***************************************************************************)
(* Proofs about TransactionLog.                                            *)
(*                                                                         *)
(* First, what the state consists of: TInv bounds every position by what   *)
(* has been written and every handle by what has been allocated, and it is *)
(* kept by every step, faults included.  Second, the refinement: with      *)
(* flock() and undamaged files the log implements LogLock, so that the     *)
(* locking protocol proved there is the one that reading, appending,       *)
(* rotating and repairing really follow.                                   *)
(***************************************************************************)
EXTENDS TransactionLog, FiniteSetTheorems, WellFoundedInduction, TLAPS

-----------------------------------------------------------------------------
(* Induction and recursion over the natural numbers, with sets and         *)
(* functions instead of operators, so that the backends can instantiate    *)
(* them                                                                    *)

(* A set that has 0, and n + 1 whenever it has n, has every number.        *)
LEMMA NatInd ==
    ASSUME NEW S, 0 \in S, \A n \in Nat : n \in S => n + 1 \in S
    PROVE  \A n \in Nat : n \in S
<1>. DEFINE T == {n \in Nat : n \notin S}
<1>. SUFFICES ASSUME T # {} PROVE FALSE
    OBVIOUS
<1>1. PICK x \in T : \A y \in T : ~ (<<y, x>> \in OpToRel(<, Nat))
    <2>1. T \subseteq Nat
        OBVIOUS
    <2>. HIDE DEF T
    <2>. QED BY <2>1, WFMin, NatLessThanWellFounded
<1>2. \A y \in T : ~(y < x)
    BY <1>1 DEF OpToRel
<1>3. x # 0
    OBVIOUS
<1>4. x - 1 \in Nat /\ x - 1 \in S
    BY <1>2, <1>3
<1>. QED BY <1>4

(* The same up to a number. *)
LEMMA UpTo ==
    ASSUME NEW S, NEW m \in Nat, 0 \in S,
           \A n \in 0 .. m - 1 : n \in S => n + 1 \in S
    PROVE  \A n \in 0 .. m : n \in S
<1>. DEFINE T == {n \in Nat : n <= m => n \in S}
<1>1. 0 \in T
    OBVIOUS
<1>2. \A n \in Nat : n \in T => n + 1 \in T
    OBVIOUS
<1>3. \A n \in Nat : n \in T
    <2>. HIDE DEF T
    <2>. QED BY <1>1, <1>2, NatInd
<1>. QED BY <1>3

\* f is a run of m steps in X: it begins with a, and step gives what follows.
Run(f, X, m, a, step) ==
    /\ f \in [0 .. m -> X]
    /\ f[0] = a
    /\ \A i \in 1 .. m : f[i] = step[<<f[i - 1], i>>]

(* From a in X, n steps of a function on X can be taken one after another. *)
LEMMA Steps ==
    ASSUME NEW X, NEW m \in Nat, NEW a \in X,
           NEW step, step \in [X \X (1 .. m) -> X]
    PROVE  \E f : Run(f, X, m, a, step)
<1>. DEFINE Taken(f, n) == f[0] = a /\ \A i \in 1 .. n : f[i] = step[<<f[i - 1], i>>]
            S == {n \in 0 .. m : \E f \in [0 .. n -> X] : Taken(f, n)}
<1>1. 0 \in S
    <2>. DEFINE f == [i \in 0 .. 0 |-> a]
    <2>1. f \in [0 .. 0 -> X] /\ Taken(f, 0)
        OBVIOUS
    <2>. HIDE DEF f
    <2>. QED BY <2>1
<1>2. ASSUME NEW n \in 0 .. m - 1, n \in S PROVE n + 1 \in S
    <2>1. PICK f \in [0 .. n -> X] : Taken(f, n)
        BY <1>2
    <2>. DEFINE g == [i \in 0 .. n + 1 |-> IF i <= n THEN f[i] ELSE step[<<f[n], n + 1>>]]
    <2>2. step[<<f[n], n + 1>>] \in X
        <3>1. <<f[n], n + 1>> \in X \X (1 .. m)
            OBVIOUS
        <3>. QED BY <3>1
    <2>3. g \in [0 .. n + 1 -> X]
        BY <2>2
    <2>4. ASSUME NEW i \in 1 .. n + 1 PROVE g[i] = step[<<g[i - 1], i>>]
        <3>1. CASE i <= n
            BY <3>1, <2>1
        <3>2. CASE i = n + 1
            BY <3>2
        <3>. QED BY <3>1, <3>2
    <2>5. g[0] = a
        BY <2>1
    <2>6. Taken(g, n + 1)
        BY <2>4, <2>5
    <2>. HIDE DEF g
    <2>. QED BY <2>3, <2>6
<1>3. m \in S
    <2>. HIDE DEF S
    <2>. QED BY <1>1, <1>2, UpTo
<1>. QED BY <1>3 DEF Run

-----------------------------------------------------------------------------
(* What the state consists of *)

FileT == [seq : Nat, prevSeq : Nat, prevOff : Nat,
          data : Seq(Txns \X (1..TxnSize)), ok : BOOLEAN]
MapT == [seq : Nat, off : Nat, hist : Seq(Txns)]
ViewT == [seq : Nat, off : Nat, tail : Nat, todo : Nat, got : Seq(Txns),
          tries : Nat, txn : Nat]
CountT == [txns : 0..MaxTxns, crashes : Nat, torn : Nat, resets : Nat]

DiskTypes ==
    /\ file \in [Inodes -> FileT]
    /\ nfile \in Inodes
    /\ path \in 0..nfile
    /\ path2 \in 0..nfile
    /\ index \in MapT
    /\ lock \in [Inodes -> Procs \cup {NoProc}]
    /\ newlock \in Procs \cup {NoProc}
MemTypes ==
    /\ pc \in [Procs -> Places]
    /\ op \in [Procs -> Ops]
    /\ head \in [Procs -> Nat]
    /\ new \in [Procs -> Nat]
    /\ locked \in [Procs -> BOOLEAN]
    /\ bad \in [Procs -> BOOLEAN]
    /\ files \in [Procs -> SUBSET Inodes]
    /\ sync \in [Procs -> [Inodes -> Nat]]
    /\ map \in [Procs -> MapT]
    /\ idx \in [Procs -> MapT]
    /\ view \in [Procs -> ViewT]
GhostTypes ==
    /\ history \in Seq(Txns \cup {Reset})
    /\ seen \in [Procs -> Seq(Txns)]
    /\ count \in CountT
Types == DiskTypes /\ MemTypes /\ GhostTypes

NoLogPlaces == {"closed", "unlinkbad", "create"}
Rotating == {"rot2", "rot3", "rot4"}
Written == TxnSize * count.txns

(* A position is within what has been written so far. *)
PosOK(m) == m.off <= Written /\ (m.seq = 0 => m.off = 0)

(* The header of a file fits, and no record is in it twice. *)
FileOK(i) ==
    /\ file[i].prevSeq <= file[i].seq
    /\ i <= nfile => file[i].seq > 0
    /\ file[i].prevOff <= Written
    /\ file[i].prevSeq = 0 => file[i].prevOff = 0
    /\ \A k \in 1..Len(file[i].data) : file[i].data[k][1] <= count.txns
    /\ \A k, l \in 1..Len(file[i].data) : file[i].data[k] = file[i].data[l] => k = l

HandlesOK(p) ==
    /\ head[p] \in 0..nfile
    /\ new[p] \in 0..nfile
    /\ files[p] \subseteq 1..nfile
    /\ IF pc[p] \in NoLogPlaces THEN head[p] = 0 ELSE head[p] \in files[p]
    /\ pc[p] \in Rotating => new[p] # 0

(* sync_offset leaves room for the transaction that is being written. *)
SyncOK(p) ==
    \A i \in Inodes :
        sync[p][i] + (IF pc[p] \in {"write2", "fsync"} THEN TxnSize ELSE 0) <= Written

(* The files still to be mapped are in the list. *)
FindingOK(p) ==
    pc[p] = "mapf" =>
        /\ view[p].tail # 0
        /\ view[p].todo \in 1..Cardinality(files[p])
        /\ \A s \in 1..view[p].todo :
              \E i \in files[p] : file[i].seq = view[p].tail + s - 1

(* The second half of a transaction that is being written is in no file. *)
TxnOK(p) ==
    pc[p] = "write2" =>
        /\ view[p].txn \in 1..count.txns
        /\ \A i \in Inodes : \A k \in 1..Len(file[i].data) :
              file[i].data[k] # <<view[p].txn, 2>>
        /\ \A q \in Procs : pc[q] = "write2" /\ view[q].txn = view[p].txn => q = p

ProcOK(p) ==
    /\ PosOK(map[p])
    /\ PosOK(idx[p])
    /\ HandlesOK(p)
    /\ SyncOK(p)
    /\ FindingOK(p)
    /\ TxnOK(p)

TInv ==
    /\ Types
    /\ PosOK(index)
    /\ \A i \in Inodes : FileOK(i)
    /\ \A p \in Procs : ProcOK(p)

-----------------------------------------------------------------------------
(* What a step leaves alone *)

OthersStay(p) ==
    \A q \in Procs \ {p} :
        /\ pc'[q] = pc[q]
        /\ op'[q] = op[q]
        /\ head'[q] = head[q]
        /\ new'[q] = new[q]
        /\ locked'[q] = locked[q]
        /\ files'[q] = files[q]
        /\ sync'[q] = sync[q]
        /\ map'[q] = map[q]
        /\ idx'[q] = idx[q]
        /\ view'[q] = view[q]

(* Files are not unmade, and get new records only. *)
FilesStep(p) ==
    /\ nfile <= nfile'
    /\ count.txns <= count'.txns
    /\ \A i \in 1..nfile : file'[i].seq = file[i].seq
    /\ \A i \in Inodes : FileOK(i)'
    /\ \A i \in Inodes : \A k \in 1..Len(file'[i].data) :
          \/ k <= Len(file[i].data) /\ file'[i].data[k] = file[i].data[k]
          \/ file'[i].data[k] = <<count'.txns, 1>>
          \/ pc[p] = "write2" /\ file'[i].data[k] = <<view[p].txn, 2>>
    /\ pc'[p] = "write2" => view'[p].txn > count.txns

FilesStay == file' = file /\ nfile' = nfile /\ count'.txns = count.txns

(* The values that stand for nothing are of the types of something. *)
LEMMA NoTypes == NoMap \in MapT /\ NoView \in ViewT /\ NoFile \in FileT
<1>1. <<>> \in Seq(Txns) /\ <<>> \in Seq(Txns \X (1..TxnSize))
  OBVIOUS
<1>. QED BY <1>1 DEF NoMap, NoView, NoFile, MapT, ViewT, FileT

(* Inode numbers count from 1; 0 is no inode. *)
LEMMA InodesNat == Inodes \subseteq Nat /\ 1 \in Inodes /\ 0 \notin Inodes
BY LogAssumption DEF Inodes

(* A view that has only its number of attempts set. *)
LEMMA ViewTries == ASSUME NEW n \in Nat PROVE [NoView EXCEPT !.tries = n] \in ViewT
BY NoTypes DEF ViewT, NoView

(* The fields of a file, a map and a view. *)
LEMMA FileFields ==
    ASSUME NEW f \in FileT
    PROVE  /\ f.seq \in Nat /\ f.prevSeq \in Nat /\ f.prevOff \in Nat /\ f.ok \in BOOLEAN
           /\ f.data \in Seq(Txns \X (1..TxnSize)) /\ Len(f.data) \in Nat
<1>1. /\ f.seq \in Nat /\ f.prevSeq \in Nat /\ f.prevOff \in Nat /\ f.ok \in BOOLEAN
      /\ f.data \in Seq(Txns \X (1..TxnSize))
    BY DEF FileT
<1>2. PICK d : d = f.data
    OBVIOUS
<1>3. Len(d) \in Nat
    BY <1>1, <1>2
<1>. QED BY <1>1, <1>2, <1>3

(* The fields of a file on disk. *)
LEMMA FileOf ==
    ASSUME DiskTypes, NEW i \in Inodes
    PROVE  /\ file[i].seq \in Nat /\ file[i].prevSeq \in Nat /\ file[i].prevOff \in Nat
           /\ file[i].ok \in BOOLEAN
           /\ file[i].data \in Seq(Txns \X (1..TxnSize)) /\ Len(file[i].data) \in Nat
<1>1. file[i] \in FileT
    BY DEF DiskTypes
<1>. QED BY <1>1, FileFields

(* The fields of a file on disk after a step. *)
LEMMA FileOfNext ==
    ASSUME DiskTypes', NEW i \in Inodes
    PROVE  /\ file'[i].seq \in Nat /\ file'[i].prevSeq \in Nat /\ file'[i].prevOff \in Nat
           /\ file'[i].ok \in BOOLEAN
           /\ file'[i].data \in Seq(Txns \X (1..TxnSize)) /\ Len(file'[i].data) \in Nat
<1>1. file'[i] \in FileT
    BY DEF DiskTypes
<1>. QED BY <1>1, FileFields

(* The processes that do not move keep their part of the invariant. *)
LEMMA OthersOK ==
    ASSUME TInv, Types', NEW p \in Procs, OthersStay(p), FilesStep(p),
           NEW q \in Procs, q # p
    PROVE  ProcOK(q)'
<1>1. ProcOK(q)
    BY DEF TInv
<1>2. pc'[q] = pc[q] /\ head'[q] = head[q] /\ new'[q] = new[q] /\ files'[q] = files[q]
    BY DEF OthersStay
<1>3. sync'[q] = sync[q] /\ map'[q] = map[q] /\ idx'[q] = idx[q] /\ view'[q] = view[q]
    BY DEF OthersStay
<1>4. nfile \in Nat /\ nfile' \in Nat /\ nfile <= nfile'
    BY InodesNat DEF TInv, Types, DiskTypes, FilesStep
<1>5. count.txns \in Nat /\ count'.txns \in Nat /\ count.txns <= count'.txns
    BY DEF TInv, Types, GhostTypes, CountT, FilesStep
<1>6. Written \in Nat /\ Written' \in Nat /\ Written <= Written'
    BY <1>5 DEF Written, TxnSize
<1>7. PosOK(map[q])' /\ PosOK(idx[q])'
    <2>1. map[q].off \in Nat /\ idx[q].off \in Nat
        BY DEF TInv, Types, MemTypes, MapT
    <2>. QED BY <1>1, <1>3, <1>6, <2>1 DEF ProcOK, PosOK
<1>8. HandlesOK(q)'
    BY <1>1, <1>2, <1>4 DEF ProcOK, HandlesOK
<1>9. SyncOK(q)'
    <2>1. \A i \in Inodes : sync[q][i] \in Nat
        BY DEF TInv, Types, MemTypes
    <2>. QED BY <1>1, <1>2, <1>3, <1>6, <2>1 DEF ProcOK, SyncOK, TxnSize
<1>10. FindingOK(q)'
    <2>1. \A i \in files[q] : file'[i].seq = file[i].seq
        BY <1>1 DEF ProcOK, HandlesOK, FilesStep
    <2>. QED BY <1>1, <1>2, <1>3, <2>1 DEF ProcOK, FindingOK
<1>11. TxnOK(q)'
    <2>. SUFFICES ASSUME pc[q] = "write2" PROVE TxnOK(q)'
        BY <1>2 DEF TxnOK
    <2>1. view[q].txn \in 1..count.txns
        BY <1>1 DEF ProcOK, TxnOK
    <2>2. view[q].txn \in 1..count'.txns
        BY <2>1, <1>5
    <2>3. ASSUME NEW i \in Inodes, NEW k \in 1..Len(file'[i].data)
          PROVE  file'[i].data[k] # <<view[q].txn, 2>>
        <3>1. CASE k <= Len(file[i].data) /\ file'[i].data[k] = file[i].data[k]
            <4>1. Len(file'[i].data) \in Nat /\ Len(file[i].data) \in Nat
                BY FileOf, FileOfNext DEF TInv, Types
            <4>2. k \in 1..Len(file[i].data)
                BY <3>1, <4>1
            <4>. QED BY <3>1, <4>2, <1>1 DEF ProcOK, TxnOK
        <3>2. CASE file'[i].data[k] = <<count'.txns, 1>>
            BY <3>2
        <3>3. CASE pc[p] = "write2" /\ file'[i].data[k] = <<view[p].txn, 2>>
            <4>1. view[p].txn # view[q].txn
                BY <1>1, <3>3 DEF ProcOK, TxnOK
            <4>. QED BY <3>3, <4>1
        <3>. QED BY <3>1, <3>2, <3>3 DEF FilesStep
    <2>4. ASSUME NEW r \in Procs, pc'[r] = "write2", view'[r].txn = view[q].txn
          PROVE  r = q
        <3>1. CASE r = p
            <4>1. view'[p].txn > count.txns
                BY <3>1, <2>4 DEF FilesStep
            <4>. QED BY <4>1, <3>1, <2>4, <2>1, <1>5
        <3>2. CASE r # p
            <4>1. pc[r] = "write2" /\ view[r].txn = view[q].txn
                BY <3>2, <2>4 DEF OthersStay
            <4>. QED BY <4>1, <1>1 DEF ProcOK, TxnOK
        <3>. QED BY <3>1, <3>2
    <2>. QED BY <1>2, <1>3, <2>2, <2>3, <2>4 DEF TxnOK
<1>. QED BY <1>7, <1>8, <1>9, <1>10, <1>11 DEF ProcOK

(* A step is checked at the process that takes it and at the files. *)
LEMMA StepOK ==
    ASSUME TInv, Types', NEW p \in Procs, OthersStay(p), FilesStep(p),
           PosOK(index)', ProcOK(p)'
    PROVE  TInv'
<1>1. \A q \in Procs : ProcOK(q)'
    BY OthersOK
<1>2. \A i \in Inodes : FileOK(i)'
    BY DEF FilesStep
<1>. QED BY <1>1, <1>2 DEF TInv

(* The same for the many steps that leave the files alone. *)
LEMMA QuietOK ==
    ASSUME TInv, Types', NEW p \in Procs, OthersStay(p), FilesStay,
           pc'[p] # "write2", PosOK(index)', ProcOK(p)'
    PROVE  TInv'
<1>1. \A i \in Inodes : FileOK(i)'
    <2>1. Written' = Written
        BY DEF FilesStay, Written
    <2>. QED BY <2>1 DEF TInv, FileOK, FilesStay
<1>2. \A i \in Inodes : Len(file[i].data) \in Nat
    BY FileOf DEF TInv, Types
<1>3. nfile \in Nat /\ count.txns \in Nat
    BY InodesNat DEF TInv, Types, DiskTypes, GhostTypes, CountT
<1>4. FilesStep(p)
    BY <1>1, <1>2, <1>3 DEF FilesStep, FilesStay
<1>. QED BY <1>4, StepOK
-----------------------------------------------------------------------------
(* What the operators of the model return *)

(* Some number of a bounded set is the greatest. *)
LEMMA MaxBounded ==
    ASSUME NEW n \in Nat, NEW S, S \subseteq 0..n, S # {}
    PROVE  Max(S) \in S /\ \A y \in S : y <= Max(S)
<1>. DEFINE T == {m \in Nat : n - m \in S}
<1>1. T \subseteq Nat /\ T # {}
    <2>1. PICK x \in S : TRUE
        OBVIOUS
    <2>2. n - x \in Nat /\ n - (n - x) = x
        OBVIOUS
    <2>. QED BY <2>1, <2>2
<1>2. PICK x \in T : \A y \in T : ~ (<<y, x>> \in OpToRel(<, Nat))
    <2>. HIDE DEF T
    <2>. QED BY <1>1, WFMin, NatLessThanWellFounded
<1>3. \A y \in T : ~(y < x)
    BY <1>2 DEF OpToRel
<1>4. PICK m : m = n - x
    OBVIOUS
<1>5. m \in S /\ \A y \in S : m >= y
    <2>1. ASSUME NEW y \in S PROVE m >= y
        <3>1. y \in 0..n
            OBVIOUS
        <3>2. n - y \in Nat /\ n - (n - y) = y
            BY <3>1
        <3>3. n - y \in T
            BY <3>2
        <3>. QED BY <3>1, <3>3, <1>3, <1>4
    <2>. QED BY <2>1, <1>4
<1>6. Max(S) \in S /\ \A y \in S : Max(S) >= y
    <2>. HIDE DEF T
    <2>. QED BY <1>5 DEF Max
<1>. QED BY <1>6

(* The larger of two sequences. *)
LEMMA MaxOfTwo ==
    ASSUME NEW a \in Nat, NEW b \in Nat
    PROVE  Max({a, b}) \in Nat /\ a <= Max({a, b}) /\ b <= Max({a, b})
<1>1. \E x \in {a, b} : \A y \in {a, b} : x >= y
    OBVIOUS
<1>. QED BY <1>1 DEF Max

(* The smaller of two offsets. *)
LEMMA MinOfTwo ==
    ASSUME NEW a \in Nat, NEW b \in Nat
    PROVE  Min({a, b}) \in Nat /\ Min({a, b}) <= a /\ Min({a, b}) <= b
<1>1. \E x \in {a, b} : \A y \in {a, b} : x =< y
    OBVIOUS
<1>. QED BY <1>1 DEF Min

(* How many numbers there are up to n. *)
LEMMA IntervalCard ==
    ASSUME NEW n \in Nat
    PROVE  IsFiniteSet(1..n) /\ Cardinality(1..n) = n
<1>1. n \in Int /\ 1 \in Int
    OBVIOUS
<1>2. IsFiniteSet(1..n) /\ Cardinality(1..n) = IF 1 > n THEN 0 ELSE n - 1 + 1
    BY <1>1, FS_Interval
<1>. QED BY <1>2

(* No file is longer than two halves of every transaction. *)
LEMMA SizeBound ==
    ASSUME NEW n \in Nat, NEW d \in Seq(Txns \X (1..TxnSize)),
           \A k \in 1..Len(d) : d[k][1] <= n,
           \A k, l \in 1..Len(d) : d[k] = d[l] => k = l
    PROVE  Len(d) <= TxnSize * n
<1>. SUFFICES ASSUME Len(d) > TxnSize * n PROVE FALSE
    <2>1. Len(d) \in Nat /\ TxnSize * n \in Nat
        BY DEF TxnSize
    <2>. QED BY <2>1
<1>. DEFINE S == 1..Len(d)
            A == 1..n
            B == 1..2
            T == A \X B
<1>1. Len(d) \in Nat
    OBVIOUS
<1>2. IsFiniteSet(S) /\ Cardinality(S) = Len(d)
    BY <1>1, IntervalCard
<1>3. IsFiniteSet(A) /\ Cardinality(A) = n /\ IsFiniteSet(B) /\ Cardinality(B) = 2
    <2>1. 2 \in Nat
        OBVIOUS
    <2>. QED BY <2>1, IntervalCard
<1>4. IsFiniteSet(T) /\ Cardinality(T) = n * 2
    <2>. HIDE DEF A, B
    <2>. QED BY <1>3, FS_Product
<1>5. d \in [S -> T]
    <2>1. ASSUME NEW k \in S PROVE d[k] \in T
        <3>1. d[k] \in Txns \X (1..TxnSize)
            BY <1>1
        <3>2. d[k] = <<d[k][1], d[k][2]>> /\ d[k][1] \in Txns /\ d[k][2] \in 1..2
            BY <3>1 DEF TxnSize
        <3>3. d[k][1] \in A
            BY <3>2 DEF Txns
        <3>. QED BY <3>2, <3>3
    <2>2. d = [k \in S |-> d[k]]
        OBVIOUS
    <2>. HIDE DEF S, T
    <2>. QED BY <2>1, <2>2
<1>6. Cardinality(T) < Cardinality(S)
    BY <1>1, <1>2, <1>4 DEF TxnSize
<1>7. \E x, y \in S : x # y /\ d[x] = d[y]
    <2>. HIDE DEF S, T
    <2>. QED BY <1>2, <1>4, <1>5, <1>6, FS_PigeonHole
<1>. QED BY <1>7

(* A file is never longer than everything written so far: no record is in   *)
(* it twice.                                                                *)
LEMMA SizeOK ==
    ASSUME TInv, NEW i \in Inodes
    PROVE  Size(i) \in Nat /\ Size(i) <= Written
<1>1. file[i].data \in Seq(Txns \X (1..TxnSize)) /\ Len(file[i].data) \in Nat
    BY FileOf DEF TInv, Types
<1>2. count.txns \in Nat
    BY DEF TInv, Types, GhostTypes, CountT
<1>3. FileOK(i)
    BY DEF TInv
<1>4. PICK d : d = file[i].data
    OBVIOUS
<1>5. Len(d) <= TxnSize * count.txns
    BY <1>1, <1>2, <1>3, <1>4, SizeBound DEF FileOK
<1>. QED BY <1>1, <1>4, <1>5 DEF Size, Written

(* What is complete of a file is within the file. *)
LEMMA CompleteOK ==
    ASSUME TInv, NEW i \in Inodes
    PROVE  Complete(i) \in Nat /\ Complete(i) <= Size(i) /\ Complete(i) <= Written
<1>1. Size(i) \in Nat /\ Size(i) <= Written
    BY SizeOK
<1>2. PICK n : n = Size(i)
    OBVIOUS
<1>3. n \in Nat /\ 2 * (n \div 2) \in Nat /\ 2 * (n \div 2) <= n
    BY <1>1, <1>2
<1>4. Written \in Nat
    BY DEF TInv, Types, GhostTypes, CountT, Written, TxnSize
<1>. QED BY <1>1, <1>2, <1>3, <1>4 DEF Complete, TxnSize

(* The transactions between two offsets of a file. *)
LEMMA TxnsType ==
    ASSUME TInv, NEW i \in Inodes, NEW from \in Nat, NEW to \in Nat,
           from <= to, to <= Size(i)
    PROVE  TxnsOf(i, from, to) \in Seq(Txns)
<1>1. file[i].data \in Seq(Txns \X (1..TxnSize))
    BY FileOf DEF TInv, Types
<1>2. PICK d : d = file[i].data
    OBVIOUS
<1>3. Len(d) \in Nat /\ to <= Len(d) /\ d \in Seq(Txns \X (1..TxnSize))
    BY <1>1, <1>2 DEF Size
<1>4. PICK n : n = (to - from) \div 2
    OBVIOUS
<1>5. n \in Nat /\ 2 * n <= to - from
    BY <1>4
<1>6. ASSUME NEW k \in 1..n PROVE d[from + 2 * k][1] \in Txns
    <2>1. from + 2 * k \in 1..Len(d)
        BY <1>3, <1>5
    <2>2. d[from + 2 * k] \in Txns \X (1..TxnSize)
        BY <2>1, <1>3
    <2>. QED BY <2>2
<1>7. [k \in 1..n |-> d[from + 2 * k][1]] \in Seq(Txns)
    BY <1>5, <1>6
<1>. QED BY <1>2, <1>4, <1>7 DEF TxnsOf, TxnSize

(* A list of open files is finite. *)
LEMMA ListFinite ==
    ASSUME NEW list, list \subseteq Inodes
    PROVE  IsFiniteSet(list) /\ Cardinality(list) \in Nat
<1>1. MaxFiles \in Nat
    BY LogAssumption
<1>2. IsFiniteSet(Inodes)
    BY <1>1, IntervalCard DEF Inodes
<1>3. list \in SUBSET Inodes
    OBVIOUS
<1>4. IsFiniteSet(list)
    BY <1>2, <1>3, FS_Subset
<1>. QED BY <1>4, FS_CardinalityType

(* The files that are found have consecutive sequences, from the tail on, *)
(* and there is no longer run of them in the list.                        *)
LEMMA FoundInList ==
    ASSUME NEW p, NEW list, list \subseteq Inodes
    PROVE  /\ FoundIn(p, list) \in Seq(list)
           /\ Len(FoundIn(p, list)) \in 0..Cardinality(list)
           /\ \A s \in 1..Len(FoundIn(p, list)) :
                 /\ FoundIn(p, list)[s] \in list
                 /\ file[FoundIn(p, list)[s]].seq = ViewRange(p).tail + s - 1
           /\ \A k \in 0..Cardinality(list) :
                 (\A s \in 1..k : \E i \in list : file[i].seq = ViewRange(p).tail + s - 1)
                     => k <= Len(FoundIn(p, list))
<1>. DEFINE K == {k \in 0..Cardinality(list) :
                    \A s \in 1..k : \E i \in list : file[i].seq = ViewRange(p).tail + s - 1}
            f(n) == [k \in 1..n |-> CHOOSE i \in list : file[i].seq = ViewRange(p).tail + k - 1]
<1>1. PICK c \in Nat : c = Cardinality(list)
    BY ListFinite
<1>2. 0 \in K /\ K \subseteq 0..c
    <2>1. 0 \in 0..Cardinality(list)
        BY <1>1
    <2>. QED BY <2>1, <1>1
<1>3. PICK n : n = Max(K)
    OBVIOUS
<1>4. n \in K /\ \A k \in K : k <= n
    <2>. HIDE DEF K
    <2>. QED BY <1>2, <1>3, MaxBounded
<1>5. n \in 0..c /\ n \in Nat
    BY <1>2, <1>4
<1>6. FoundIn(p, list) = f(n)
    BY <1>3 DEF FoundIn
<1>7. ASSUME NEW s \in 1..n
      PROVE  f(n)[s] \in list /\ file[f(n)[s]].seq = ViewRange(p).tail + s - 1
    <2>1. \E i \in list : file[i].seq = ViewRange(p).tail + s - 1
        BY <1>4
    <2>2. f(n)[s] = CHOOSE i \in list : file[i].seq = ViewRange(p).tail + s - 1
        OBVIOUS
    <2>. QED BY <2>1, <2>2
<1>8. PICK g : g = f(n)
    OBVIOUS
<1>9. g \in Seq(list) /\ Len(g) = n
    <2>1. g = [k \in 1..n |-> g[k]]
        BY <1>8
    <2>2. \A k \in 1..n : g[k] \in list
        BY <1>7, <1>8
    <2>. QED BY <2>1, <2>2, <1>5
<1>10. \A k \in 0..Cardinality(list) :
          (\A s \in 1..k : \E i \in list : file[i].seq = ViewRange(p).tail + s - 1) => k <= n
    BY <1>4
<1>11. \A s \in 1..n : g[s] \in list /\ file[g[s]].seq = ViewRange(p).tail + s - 1
    BY <1>7, <1>8
<1>12. FoundIn(p, list) = g
    BY <1>6, <1>8
<1>. HIDE DEF K, f
<1>. QED BY <1>1, <1>5, <1>9, <1>10, <1>11, <1>12

(* The fields of a map. *)
LEMMA MapOf ==
    ASSUME NEW m \in MapT
    PROVE  m.seq \in Nat /\ m.off \in Nat /\ m.hist \in Seq(Txns)
BY DEF MapT

(* The fields of a log view. *)
LEMMA ViewOf ==
    ASSUME NEW v \in ViewT
    PROVE  /\ v.seq \in Nat /\ v.off \in Nat /\ v.tail \in Nat /\ v.todo \in Nat
           /\ v.got \in Seq(Txns) /\ v.tries \in Nat /\ v.txn \in Nat
BY DEF ViewT

(* An allocated file is a file. *)
LEMMA Allocated ==
    ASSUME DiskTypes, NEW i \in 1..nfile
    PROVE  i \in Inodes /\ i \in Nat /\ i # 0 /\ i <= nfile
<1>1. nfile \in 1..MaxFiles /\ MaxFiles \in Nat
    BY LogAssumption DEF DiskTypes, Inodes
<1>. QED BY <1>1 DEF Inodes

(* The range that view_set() looks for has a beginning. *)
LEMMA RangeOK ==
    ASSUME TInv, NEW p \in Procs, head[p] \in 1..nfile
    PROVE  /\ ViewRange(p) \in ViewT
           /\ (view[p].tail # 0 \/ ~NoBeginning(p)) => ViewRange(p).tail # 0
           /\ view[p].tail # 0 => ViewRange(p) = view[p]
<1>1. view[p] \in ViewT /\ map[p] \in MapT
    BY DEF TInv, Types, MemTypes
<1>2. head[p] \in Inodes
    BY Allocated DEF TInv, Types
<1>3. FileOK(head[p]) /\ head[p] <= nfile /\ file[head[p]].seq \in Nat
    BY <1>2, FileOf, Allocated DEF TInv, Types
<1>4. map[p].seq \in Nat /\ map[p].off \in Nat /\ PosOK(map[p])
    BY <1>1, MapOf DEF TInv, ProcOK
<1>5. PICK a \in Nat, b \in Nat :
        /\ view[p].tail = 0 => ViewRange(p) = [view[p] EXCEPT !.seq = a, !.tail = a, !.off = b]
        /\ ~NoBeginning(p) => a # 0
    <2>. DEFINE h == file[head[p]]
                skip == <<h.prevSeq, h.prevOff>> = <<map[p].seq, map[p].off>>
    <2>1. PICK a : a = IF skip THEN h.seq ELSE map[p].seq
        OBVIOUS
    <2>2. PICK b : b = IF skip THEN 0 ELSE map[p].off
        OBVIOUS
    <2>3. a \in Nat /\ b \in Nat
        BY <2>1, <2>2, <1>3, <1>4
    <2>4. view[p].tail = 0 => ViewRange(p) = [view[p] EXCEPT !.seq = a, !.tail = a, !.off = b]
        BY <2>1, <2>2 DEF ViewRange
    <2>5. ~NoBeginning(p) => a # 0
        BY <2>1, <1>3, <1>4 DEF NoBeginning, FileOK, PosOK
    <2>. QED BY <2>3, <2>4, <2>5
<1>6. view[p].tail # 0 => ViewRange(p) = view[p]
    BY DEF ViewRange
<1>7. CASE view[p].tail # 0
    BY <1>7, <1>6, <1>1
<1>8. CASE view[p].tail = 0
    <2>1. PICK v \in ViewT : v = view[p]
        BY <1>1
    <2>2. ViewRange(p) = [v EXCEPT !.seq = a, !.tail = a, !.off = b]
        BY <1>8, <1>5, <2>1
    <2>3. ViewRange(p) \in ViewT /\ ViewRange(p).tail = a
        BY <2>2 DEF ViewT
    <2>. QED BY <2>3, <1>8, <1>5
<1>. QED BY <1>6, <1>7, <1>8
-----------------------------------------------------------------------------
(* Steps that leave the files and the process's hold on them alone *)

(* p keeps its handles, maps and offsets, and does not write. *)
Still(p) ==
    /\ FilesStay
    /\ map'[p] = map[p] /\ idx'[p] = idx[p]
    /\ head'[p] = head[p] /\ new'[p] = new[p]
    /\ files'[p] = files[p] /\ sync'[p] = sync[p]
    /\ pc[p] \notin NoLogPlaces
    /\ pc'[p] \notin NoLogPlaces \cup {"write2", "fsync", "mapf"}
    /\ pc'[p] \in Rotating => pc[p] \in Rotating

(* A step that moves p without touching its offsets and files. *)
LEMMA StillOK ==
    ASSUME TInv, Types', NEW p \in Procs, OthersStay(p), Still(p), PosOK(index)'
    PROVE  TInv'
<1>1. ProcOK(p) /\ Written' = Written /\ nfile' = nfile
    BY DEF TInv, Still, FilesStay, Written
<1>2. \A i \in Inodes : sync[p][i] \in Nat
    BY DEF TInv, Types, MemTypes
<1>3. Written \in Nat
    BY DEF TInv, Types, GhostTypes, CountT, Written, TxnSize
<1>4. PosOK(map[p])' /\ PosOK(idx[p])'
    BY <1>1 DEF ProcOK, PosOK, Still
<1>5. HandlesOK(p)'
    BY <1>1 DEF ProcOK, HandlesOK, Still
<1>6. SyncOK(p)'
    BY <1>1, <1>2, <1>3 DEF ProcOK, SyncOK, TxnSize, Still
<1>7. FindingOK(p)' /\ TxnOK(p)' /\ pc'[p] # "write2"
    BY DEF FindingOK, TxnOK, Still
<1>8. ProcOK(p)'
    BY <1>4, <1>5, <1>6, <1>7 DEF ProcOK
<1>. QED BY <1>7, <1>8, QuietOK DEF Still

(* dovecot.index keeps its position if it stays and nothing is written. *)
LEMMA IndexStays ==
    ASSUME TInv, FilesStay, index' = index
    PROVE  PosOK(index)'
BY DEF TInv, PosOK, Written, FilesStay

(* The lock is granted: no position moves. *)
LEMMA AcquireOK == ASSUME TInv, NEW p \in Procs, Acquire(p) PROVE TInv'
<1>. USE DEF Goto, Ident, FreeLock, Committed, SyncEnd, diskVars, ghostVars
<1>1. Types'
    BY InodesNat, NoTypes DEF Acquire, TInv, Types, DiskTypes, MemTypes, GhostTypes, Places, Ops
<1>2. OthersStay(p)
    BY DEF Acquire, TInv, Types, MemTypes, OthersStay
<1>3. Still(p) /\ index' = index
    BY DEF Acquire, TInv, Types, MemTypes, Still, FilesStay, NoLogPlaces, Rotating
<1>. QED BY <1>1, <1>2, <1>3, IndexStays, StillOK DEF Still

(* The locked file is the log. *)
LEMMA CheckSameOK == ASSUME TInv, NEW p \in Procs, CheckSame(p) PROVE TInv'
<1>. USE DEF Goto, Ident, FreeLock, Committed, SyncEnd, diskVars, ghostVars
<1>1. Types'
    BY InodesNat, NoTypes DEF CheckSame, TInv, Types, DiskTypes, MemTypes, GhostTypes, Places, Ops
<1>2. OthersStay(p)
    BY DEF CheckSame, TInv, Types, MemTypes, OthersStay
<1>3. Still(p) /\ index' = index
    BY DEF CheckSame, TInv, Types, MemTypes, Still, FilesStay, NoLogPlaces, Rotating
<1>. QED BY <1>1, <1>2, <1>3, IndexStays, StillOK DEF Still

(* A reset takes the .newlock. *)
LEMMA ResetBeginOK == ASSUME TInv, NEW p \in Procs, ResetBegin(p) PROVE TInv'
<1>. USE DEF Goto, Ident, FreeLock, Committed, SyncEnd, diskVars, ghostVars
<1>1. Types'
    BY InodesNat, NoTypes DEF ResetBegin, TInv, Types, DiskTypes, MemTypes, GhostTypes, Places, Ops
<1>2. OthersStay(p)
    BY DEF ResetBegin, TInv, Types, MemTypes, OthersStay
<1>3. Still(p) /\ index' = index
    BY DEF ResetBegin, TInv, Types, MemTypes, Still, FilesStay, NoLogPlaces, Rotating
<1>. QED BY <1>1, <1>2, <1>3, IndexStays, StillOK DEF Still

(* A read starts. *)
LEMMA RefreshOK == ASSUME TInv, NEW p \in Procs, Refresh(p) PROVE TInv'
<1>. USE DEF Goto, Ident, FreeLock, Committed, SyncEnd, diskVars, ghostVars
<1>1. Types'
    BY InodesNat, NoTypes DEF Refresh, TInv, Types, DiskTypes, MemTypes, GhostTypes, Places, Ops
<1>2. OthersStay(p)
    BY DEF Refresh, TInv, Types, MemTypes, OthersStay
<1>3. Still(p) /\ index' = index
    BY DEF Refresh, TInv, Types, MemTypes, Still, FilesStay, NoLogPlaces, Rotating
<1>. QED BY <1>1, <1>2, <1>3, IndexStays, StillOK DEF Still

(* There was nothing to write. *)
LEMMA WriteNothingOK == ASSUME TInv, NEW p \in Procs, WriteNothing(p) PROVE TInv'
<1>. USE DEF Goto, Ident, FreeLock, Committed, SyncEnd, diskVars, ghostVars
<1>1. Types'
    BY InodesNat, NoTypes DEF WriteNothing, TInv, Types, DiskTypes, MemTypes, GhostTypes, Places, Ops
<1>2. OthersStay(p)
    BY DEF WriteNothing, TInv, Types, MemTypes, OthersStay
<1>3. Still(p) /\ index' = index
    BY DEF WriteNothing, TInv, Types, MemTypes, Still, FilesStay, NoLogPlaces, Rotating
<1>. QED BY <1>1, <1>2, <1>3, IndexStays, StillOK DEF Still

(* A rotation takes the .newlock. *)
LEMMA RotateBeginOK == ASSUME TInv, NEW p \in Procs, RotateBegin(p) PROVE TInv'
<1>. USE DEF Goto, Ident, FreeLock, Committed, SyncEnd, diskVars, ghostVars
<1>1. Types'
    BY InodesNat, NoTypes DEF RotateBegin, TInv, Types, DiskTypes, MemTypes, GhostTypes, Places, Ops
<1>2. OthersStay(p)
    BY DEF RotateBegin, TInv, Types, MemTypes, OthersStay
<1>3. Still(p) /\ index' = index
    BY DEF RotateBegin, TInv, Types, MemTypes, Still, FilesStay, NoLogPlaces, Rotating
<1>. QED BY <1>1, <1>2, <1>3, IndexStays, StillOK DEF Still

(* A rotation finds another log under the name and stops. *)
LEMMA RotateBrokenOK == ASSUME TInv, NEW p \in Procs, RotateBroken(p) PROVE TInv'
<1>. USE DEF Goto, Ident, FreeLock, Committed, SyncEnd, diskVars, ghostVars
<1>1. Types'
    BY InodesNat, NoTypes DEF RotateBroken, TInv, Types, DiskTypes, MemTypes, GhostTypes, Places, Ops
<1>2. OthersStay(p)
    BY DEF RotateBroken, TInv, Types, MemTypes, OthersStay
<1>3. Still(p) /\ index' = index
    BY DEF RotateBroken, TInv, Types, MemTypes, Still, FilesStay, NoLogPlaces, Rotating
<1>. QED BY <1>1, <1>2, <1>3, IndexStays, StillOK DEF Still

(* The old .log.2 is removed. *)
LEMMA RotateUnlinkOK == ASSUME TInv, NEW p \in Procs, RotateUnlink(p) PROVE TInv'
<1>. USE DEF Goto, Ident, FreeLock, Committed, SyncEnd, diskVars, ghostVars
<1>1. Types'
    BY InodesNat, NoTypes DEF RotateUnlink, TInv, Types, DiskTypes, MemTypes, GhostTypes, Places, Ops
<1>2. OthersStay(p)
    BY DEF RotateUnlink, TInv, Types, MemTypes, OthersStay
<1>3. Still(p) /\ index' = index
    BY DEF RotateUnlink, TInv, Types, MemTypes, Still, FilesStay, NoLogPlaces, Rotating
<1>. QED BY <1>1, <1>2, <1>3, IndexStays, StillOK DEF Still

(* The log gets its second name. *)
LEMMA RotateLinkOK == ASSUME TInv, NEW p \in Procs, RotateLink(p) PROVE TInv'
<1>. USE DEF Goto, Ident, FreeLock, Committed, SyncEnd, diskVars, ghostVars
<1>1. Types'
    BY InodesNat, NoTypes DEF RotateLink, TInv, Types, DiskTypes, MemTypes, GhostTypes, Places, Ops
<1>2. OthersStay(p)
    BY DEF RotateLink, TInv, Types, MemTypes, OthersStay
<1>3. Still(p) /\ index' = index
    BY DEF RotateLink, TInv, Types, MemTypes, Still, FilesStay, NoLogPlaces, Rotating
<1>. QED BY <1>1, <1>2, <1>3, IndexStays, StillOK DEF Still

(* A sync ends without rewriting dovecot.index. *)
LEMMA SkipIndexOK == ASSUME TInv, NEW p \in Procs, SkipIndex(p) PROVE TInv'
<1>. USE DEF Goto, Ident, FreeLock, Committed, SyncEnd, diskVars, ghostVars
<1>1. Types'
    BY InodesNat, NoTypes DEF SkipIndex, TInv, Types, DiskTypes, MemTypes, GhostTypes, Places, Ops
<1>2. OthersStay(p)
    BY DEF SkipIndex, TInv, Types, MemTypes, OthersStay
<1>3. Still(p) /\ index' = index
    BY DEF SkipIndex, TInv, Types, MemTypes, Still, FilesStay, NoLogPlaces, Rotating
<1>. QED BY <1>1, <1>2, <1>3, IndexStays, StillOK DEF Still

(* The log is lost and the index has to be repaired. *)
LEMMA LostFsckOK == ASSUME TInv, NEW p \in Procs, LostFsck(p) PROVE TInv'
<1>. USE DEF Goto, Ident, diskVars, ghostVars
<1>1. PICK w : w = [NoView EXCEPT !.tries = 1]
    OBVIOUS
<1>2. w \in ViewT
    BY <1>1, ViewTries
<1>3. Types'
    BY <1>1, <1>2 DEF LostFsck, TInv, Types, DiskTypes, MemTypes, GhostTypes, Places, Ops
<1>4. OthersStay(p)
    BY DEF LostFsck, TInv, Types, MemTypes, OthersStay
<1>5. Still(p) /\ index' = index
    BY DEF LostFsck, Lost, TInv, Types, MemTypes, Still, FilesStay, NoLogPlaces, Rotating
<1>. QED BY <1>3, <1>4, <1>5, IndexStays, StillOK DEF Still

(* Counting a crash changes no other count. *)
LEMMA CountCrash ==
    ASSUME count \in CountT, count' = [count EXCEPT !.crashes = @ + 1]
    PROVE  count' \in CountT /\ count'.txns = count.txns
<1>1. PICK n \in Nat : n = count.crashes + 1
    BY DEF CountT
<1>2. count' = [count EXCEPT !.crashes = n]
    BY <1>1
<1>. QED BY <1>2 DEF CountT

(* Counting a torn write changes no other count. *)
LEMMA CountTorn ==
    ASSUME count \in CountT, count' = [count EXCEPT !.torn = @ + 1]
    PROVE  count' \in CountT /\ count'.txns = count.txns
<1>1. PICK n \in Nat : n = count.torn + 1
    BY DEF CountT
<1>2. count' = [count EXCEPT !.torn = n]
    BY <1>1
<1>. QED BY <1>2 DEF CountT

(* Counting a reset changes no other count. *)
LEMMA CountReset ==
    ASSUME count \in CountT, count' = [count EXCEPT !.resets = @ + 1]
    PROVE  count' \in CountT /\ count'.txns = count.txns
<1>1. PICK n \in Nat : n = count.resets + 1
    BY DEF CountT
<1>2. count' = [count EXCEPT !.resets = n]
    BY <1>1
<1>. QED BY <1>2 DEF CountT

(* An operation starts to wait for the lock. *)
LEMMA BeginOK == ASSUME TInv, NEW p \in Procs, Begin(p) PROVE TInv'
<1>. USE DEF Goto
<1>1. count' \in CountT /\ count'.txns = count.txns
    <2>1. count \in CountT
        BY DEF TInv, Types, GhostTypes
    <2>2. count' = count \/ count' = [count EXCEPT !.resets = @ + 1]
        BY DEF Begin
    <2>. QED BY <2>1, <2>2, CountReset
<1>2. path2' \in 0..nfile /\ op' \in [Procs -> Ops]
    <2>1. path2' = 0 \/ path2' = path2
        BY DEF Begin
    <2>2. path2 \in 0..nfile /\ nfile \in Nat
        BY InodesNat DEF TInv, Types, DiskTypes
    <2>3. \E o \in Ops : op' = [op EXCEPT ![p] = o]
        BY DEF Begin, Ops
    <2>4. op \in [Procs -> Ops]
        BY DEF TInv, Types, MemTypes
    <2>. QED BY <2>1, <2>2, <2>3, <2>4
<1>3. Types'
    BY <1>1, <1>2 DEF Begin, TInv, Types, DiskTypes, MemTypes, GhostTypes, Places
<1>4. OthersStay(p)
    BY DEF Begin, TInv, Types, MemTypes, OthersStay
<1>5. Still(p) /\ index' = index
    BY <1>1 DEF Begin, TInv, Types, MemTypes, Still, FilesStay, NoLogPlaces, Rotating
<1>. QED BY <1>3, <1>4, <1>5, IndexStays, StillOK DEF Still

(* A reset removes dovecot.index. *)
LEMMA UnlinkIndexOK == ASSUME TInv, NEW p \in Procs, UnlinkIndex(p) PROVE TInv'
<1>. USE DEF Goto, ghostVars
<1>1. Types'
    BY NoTypes DEF UnlinkIndex, TInv, Types, DiskTypes, MemTypes, GhostTypes, Places
<1>2. OthersStay(p)
    BY DEF UnlinkIndex, TInv, Types, MemTypes, OthersStay
<1>3. Still(p)
    BY DEF UnlinkIndex, TInv, Types, MemTypes, Still, FilesStay, NoLogPlaces, Rotating
<1>4. PosOK(index)'
    <2>1. Written' \in Nat
        BY <1>1 DEF Types, GhostTypes, CountT, Written, TxnSize
    <2>. QED BY <2>1 DEF UnlinkIndex, PosOK, NoMap
<1>. QED BY <1>1, <1>2, <1>3, <1>4, StillOK

(* dovecot.index gets the position of the map, which is within the log. *)
LEMMA WriteIndexOK == ASSUME TInv, NEW p \in Procs, WriteIndex(p) PROVE TInv'
<1>. USE DEF Goto, FreeLock, SyncEnd, ghostVars
<1>1. Types'
    BY InodesNat DEF WriteIndex, TInv, Types, DiskTypes, MemTypes, GhostTypes, Places, Ops
<1>2. OthersStay(p)
    BY DEF WriteIndex, TInv, Types, MemTypes, OthersStay
<1>3. Still(p)
    BY DEF WriteIndex, TInv, Types, MemTypes, Still, FilesStay, NoLogPlaces, Rotating
<1>4. PosOK(index)'
    BY DEF WriteIndex, TInv, ProcOK, PosOK, Written
<1>. QED BY <1>1, <1>2, <1>3, <1>4, StillOK

-----------------------------------------------------------------------------
(* Steps by which a process gives up what it has *)

(* What is left in memory and of the locks when p is gone. *)
LEMMA ForgetTypes ==
    ASSUME TInv, NEW p \in Procs, Forget(p)
    PROVE  /\ MemTypes'
           /\ lock' \in [Inodes -> Procs \cup {NoProc}]
           /\ newlock' \in Procs \cup {NoProc}
           /\ seen' \in [Procs -> Seq(Txns)]
           /\ OthersStay(p)
<1>1. [j \in Inodes |-> IF j = 0 THEN 0 ELSE 0] \in [Inodes -> Nat]
    OBVIOUS
<1>2. "closed" \in Places /\ "none" \in Ops /\ <<>> \in Seq(Txns)
    BY DEF Places, Ops
<1>3. OthersStay(p)
    BY DEF Forget, Goto, Only, Ident, TInv, Types, MemTypes, OthersStay
<1>. QED BY <1>1, <1>2, <1>3, NoTypes
     DEF Forget, Goto, Only, Ident, TInv, Types, MemTypes, DiskTypes, GhostTypes

(* A process without memory has nothing out of bounds. *)
LEMMA ForgetProc ==
    ASSUME TInv, NEW p \in Procs, Forget(p), nfile' \in Nat, count' \in CountT
    PROVE  ProcOK(p)' /\ pc'[p] = "closed"
<1>1. MemTypes
    BY DEF TInv, Types
<1>2. pc'[p] = "closed" /\ head'[p] = 0 /\ new'[p] = 0 /\ files'[p] = {}
    BY <1>1 DEF MemTypes, Forget, Goto
<1>3. map'[p] = NoMap /\ idx'[p] = NoMap /\ \A i \in Inodes : sync'[p][i] = 0
    BY <1>1 DEF MemTypes, Forget, Only, Ident
<1>4. Written' \in Nat
    BY DEF CountT, Written, TxnSize
<1>5. PosOK(map[p])' /\ PosOK(idx[p])'
    BY <1>3, <1>4 DEF PosOK, NoMap
<1>6. HandlesOK(p)'
    BY <1>2 DEF HandlesOK, NoLogPlaces, Rotating
<1>7. SyncOK(p)'
    BY <1>2, <1>3, <1>4 DEF SyncOK
<1>8. FindingOK(p)' /\ TxnOK(p)'
    BY <1>2 DEF FindingOK, TxnOK
<1>. QED BY <1>2, <1>5, <1>6, <1>7, <1>8 DEF ProcOK

(* A process forgets everything while the files stay. *)
LEMMA ForgetOK ==
    ASSUME TInv, NEW p \in Procs, Forget(p), count' \in CountT, FilesStay,
           UNCHANGED <<path, path2, index, history>>
    PROVE  TInv'
<1>1. nfile' \in Nat
    BY InodesNat DEF TInv, Types, DiskTypes, FilesStay
<1>2. Types'
    BY ForgetTypes DEF TInv, Types, DiskTypes, GhostTypes, FilesStay
<1>3. ProcOK(p)' /\ pc'[p] # "write2"
    BY <1>1, ForgetProc
<1>. QED BY <1>2, <1>3, ForgetTypes, IndexStays, QuietOK

(* Closing, dying and going on in memory. *)
LEMMA ForgettingOK ==
    ASSUME TInv, NEW p \in Procs,
           \/ Close(p) \/ Crash(p) \/ CrashInWrite(p) \/ CreateFail(p) \/ LogGone(p)
           \/ FindGone(p) \/ IndexGone(p) \/ IndexWriteFail(p)
    PROVE  TInv'
<1>. USE DEF Close, Crash, CrashInWrite, CreateFail, LogGone, FindGone, IndexGone, IndexWriteFail
<1>1. count \in CountT
    BY DEF TInv, Types, GhostTypes
<1>2. \/ count' = count
      \/ count' = [count EXCEPT !.crashes = @ + 1]
      \/ count' = [count EXCEPT !.torn = @ + 1]
    OBVIOUS
<1>3. count' \in CountT /\ count'.txns = count.txns
    BY <1>1, <1>2, CountCrash, CountTorn
<1>4. FilesStay
    BY <1>3 DEF FilesStay
<1>5. Forget(p) /\ UNCHANGED <<path, path2, index, history>>
    OBVIOUS
<1>. QED BY <1>3, <1>4, <1>5, ForgetOK

(* Every record of the files after the step was there before. *)
Shrinks ==
    /\ file' \in [Inodes -> FileT]
    /\ nfile' = nfile /\ count'.txns = count.txns
    /\ \A i \in Inodes :
         /\ file'[i].seq = file[i].seq
         /\ file'[i].prevSeq = file[i].prevSeq /\ file'[i].prevOff = file[i].prevOff
         /\ Len(file'[i].data) <= Len(file[i].data)
         /\ \A k \in 1..Len(file'[i].data) : file'[i].data[k] = file[i].data[k]

(* Cutting records off a file or marking it breaks nothing. *)
LEMMA ShrinksOK ==
    ASSUME TInv, NEW p \in Procs, Shrinks, pc'[p] # "write2"
    PROVE  FilesStep(p)
<1>1. Written' = Written
    BY DEF Shrinks, Written
<1>2. \A i \in Inodes : Len(file[i].data) \in Nat
    BY FileOf DEF TInv, Types
<1>3. \A i \in Inodes : Len(file'[i].data) \in Nat
    <2>1. \A i \in Inodes : file'[i] \in FileT
        BY DEF Shrinks
    <2>. QED BY <2>1, FileFields
<1>4. ASSUME NEW i \in Inodes PROVE FileOK(i)'
    <2>1. FileOK(i)
        BY DEF TInv
    <2>2. \A k \in 1..Len(file'[i].data) :
            k \in 1..Len(file[i].data) /\ file'[i].data[k] = file[i].data[k]
        BY <1>2, <1>3 DEF Shrinks
    <2>. QED BY <1>1, <2>1, <2>2 DEF FileOK, Shrinks
<1>5. \A i \in Inodes : \A k \in 1..Len(file'[i].data) :
         k <= Len(file[i].data) /\ file'[i].data[k] = file[i].data[k]
    BY <1>2, <1>3 DEF Shrinks
<1>6. nfile \in Nat /\ count.txns \in Nat
    BY InodesNat DEF TInv, Types, DiskTypes, GhostTypes, CountT
<1>7. \A i \in 1..nfile : i \in Inodes
    BY Allocated DEF TInv, Types
<1>. QED BY <1>4, <1>5, <1>6, <1>7 DEF FilesStep, Shrinks

(* A file is marked corrupted: its records and its sequence stay. *)
LEMMA Marked ==
    ASSUME TInv, NEW i \in Inodes, file' = [file EXCEPT ![i].ok = FALSE],
           nfile' = nfile, count' = count
    PROVE  Shrinks
<1>1. PICK g : g = [file[i] EXCEPT !.ok = FALSE]
    OBVIOUS
<1>2. file[i] \in FileT /\ file \in [Inodes -> FileT]
    BY DEF TInv, Types, DiskTypes
<1>3. PICK f \in FileT : f = file[i]
    BY <1>2
<1>4. g = [f EXCEPT !.ok = FALSE]
    BY <1>1, <1>3
<1>5. g \in FileT /\ g.seq = f.seq /\ g.prevSeq = f.prevSeq /\ g.prevOff = f.prevOff /\ g.data = f.data
    BY <1>4 DEF FileT
<1>6. file' = [file EXCEPT ![i] = g]
    BY <1>1
<1>7. \A j \in Inodes : Len(file[j].data) \in Nat
    BY FileOf DEF TInv, Types
<1>8. file' \in [Inodes -> FileT]
    BY <1>2, <1>5, <1>6
<1>9. \A j \in Inodes : file'[j] = IF j = i THEN g ELSE file[j]
    BY <1>2, <1>6
<1>10. Len(g.data) \in Nat /\ g.data = file[i].data
    BY <1>3, <1>5, <1>7
<1>. QED BY <1>3, <1>5, <1>7, <1>8, <1>9, <1>10 DEF Shrinks

(* A file is cut after n records. *)
LEMMA Cut ==
    ASSUME TInv, NEW i \in Inodes, NEW n \in Nat, n <= Len(file[i].data),
           file' = [file EXCEPT ![i].data = SubSeq(@, 1, n)],
           nfile' = nfile, count'.txns = count.txns
    PROVE  Shrinks
<1>1. PICK d : d = SubSeq(file[i].data, 1, n)
    OBVIOUS
<1>2. PICK g : g = [file[i] EXCEPT !.data = d]
    OBVIOUS
<1>3. file[i] \in FileT /\ file \in [Inodes -> FileT]
    BY DEF TInv, Types, DiskTypes
<1>4. PICK f \in FileT : f = file[i]
    BY <1>3
<1>5. PICK e \in Seq(Txns \X (1..TxnSize)) : e = f.data
    BY FileFields
<1>6. /\ d \in Seq(Txns \X (1..TxnSize))
      /\ Len(d) = n
      /\ \A k \in 1..Len(d) : d[k] = e[k]
    <2>1. d = SubSeq(e, 1, n) /\ n <= Len(e)
        BY <1>1, <1>4, <1>5
    <2>. QED BY <2>1
<1>7. g = [f EXCEPT !.data = d]
    BY <1>2, <1>4
<1>8. g \in FileT /\ g.seq = f.seq /\ g.prevSeq = f.prevSeq /\ g.prevOff = f.prevOff /\ g.data = d
    BY <1>6, <1>7 DEF FileT
<1>9. file' = [file EXCEPT ![i] = g]
    BY <1>1, <1>2
<1>10. \A j \in Inodes : Len(file[j].data) \in Nat
    BY FileOf DEF TInv, Types
<1>11. Len(e) \in Nat /\ n <= Len(e)
    BY <1>4, <1>5
<1>12. file' \in [Inodes -> FileT]
    BY <1>3, <1>8, <1>9
<1>13. ASSUME NEW j \in Inodes
       PROVE  /\ file'[j].seq = file[j].seq
              /\ file'[j].prevSeq = file[j].prevSeq /\ file'[j].prevOff = file[j].prevOff
              /\ Len(file'[j].data) <= Len(file[j].data)
              /\ \A k \in 1..Len(file'[j].data) : file'[j].data[k] = file[j].data[k]
    <2>1. CASE j = i
        <3>1. file'[j] = g
            BY <2>1, <1>3, <1>9
        <3>2. file[j] = f /\ file[j].data = e
            BY <2>1, <1>4, <1>5
        <3>. QED BY <3>1, <3>2, <1>6, <1>8, <1>11
    <2>2. CASE j # i
        <3>1. file'[j] = file[j]
            BY <2>2, <1>3, <1>9
        <3>. QED BY <3>1, <1>10
    <2>. QED BY <2>1, <2>2
<1>. QED BY <1>12, <1>13 DEF Shrinks

(* A file that is left alone. *)
LEMMA Uncut ==
    ASSUME TInv, file' = file, nfile' = nfile, count'.txns = count.txns
    PROVE  Shrinks
<1>1. \A j \in Inodes : Len(file[j].data) \in Nat
    BY FileOf DEF TInv, Types
<1>. QED BY <1>1 DEF Shrinks, TInv, Types, DiskTypes

(* A process that has a log has a head. *)
LEMMA HeadOK ==
    ASSUME TInv, NEW p \in Procs, pc[p] \notin NoLogPlaces
    PROVE  head[p] \in 1..nfile /\ head[p] \in Inodes /\ head[p] \in files[p]
<1>1. head[p] \in 1..nfile /\ head[p] \in files[p]
    BY DEF TInv, ProcOK, HandlesOK
<1>. QED BY <1>1, Allocated DEF TInv, Types

(* What follows sync_offset is cut off the head. *)
LEMMA CutAtSync ==
    ASSUME TInv, NEW p \in Procs, pc[p] \notin NoLogPlaces,
           file' = [file EXCEPT ![head[p]].data =
                      SubSeq(@, 1, Min({sync[p][head[p]], Len(@)}))],
           nfile' = nfile, count'.txns = count.txns
    PROVE  Shrinks
<1>1. head[p] \in Inodes
    BY HeadOK
<1>2. sync[p][head[p]] \in Nat /\ Len(file[head[p]].data) \in Nat
    BY <1>1, FileOf DEF TInv, Types, MemTypes
<1>3. PICK n : n = Min({sync[p][head[p]], Len(file[head[p]].data)})
    OBVIOUS
<1>4. n \in Nat /\ n <= Len(file[head[p]].data)
    BY <1>2, <1>3, MinOfTwo
<1>5. file' = [file EXCEPT ![head[p]].data = SubSeq(@, 1, n)]
    BY <1>3
<1>. QED BY <1>1, <1>4, <1>5, Cut

(* append_locked() of a transaction that could not be mapped. *)
LEMMA TruncatedOK ==
    ASSUME TInv, NEW p \in Procs, pc[p] \notin NoLogPlaces, file' = Truncated(p),
           nfile' = nfile, count'.txns = count.txns
    PROVE  Shrinks
<1>1. \/ file' = file
      \/ file' = [file EXCEPT ![head[p]].data =
                    SubSeq(@, 1, Min({sync[p][head[p]], Len(@)}))]
    BY DEF Truncated
<1>. QED BY <1>1, Uncut, CutAtSync

(* The operation ends without having done anything. *)
LEMMA GiveUpOK ==
    ASSUME TInv, NEW p \in Procs, GiveUp(p), pc[p] \notin NoLogPlaces, Shrinks,
           path' \in 0..nfile, bad' \in [Procs -> BOOLEAN]
    PROVE  TInv'
<1>. USE DEF GiveUp, Goto, FreeLock, ghostVars
<1>1. head[p] \in 1..nfile /\ head[p] \in Inodes
    BY HeadOK
<1>2. Types'
    BY <1>1, NoTypes DEF TInv, Types, DiskTypes, MemTypes, GhostTypes, Places, Ops, Shrinks
<1>3. OthersStay(p)
    BY DEF TInv, Types, MemTypes, OthersStay
<1>4. ProcOK(p) /\ Written' = Written /\ nfile' = nfile /\ Written \in Nat
    BY DEF TInv, Types, GhostTypes, CountT, TxnSize, Written
<1>5. pc'[p] = "idle" /\ files'[p] = {head[p]} /\ UNCHANGED <<head, new, sync, map, idx>>
    BY DEF TInv, Types, MemTypes
<1>6. \A i \in Inodes : sync[p][i] \in Nat
    BY DEF TInv, Types, MemTypes
<1>7. PosOK(map[p])' /\ PosOK(idx[p])'
    BY <1>4, <1>5 DEF ProcOK, PosOK
<1>8. HandlesOK(p)'
    BY <1>1, <1>4, <1>5 DEF ProcOK, HandlesOK, NoLogPlaces, Rotating
<1>9. SyncOK(p)'
    BY <1>4, <1>5, <1>6 DEF ProcOK, SyncOK, TxnSize
<1>10. FindingOK(p)' /\ TxnOK(p)'
    BY <1>5 DEF FindingOK, TxnOK
<1>11. ProcOK(p)'
    BY <1>7, <1>8, <1>9, <1>10 DEF ProcOK
<1>12. PosOK(index)'
    BY <1>4 DEF TInv, PosOK
<1>13. FilesStep(p)
    BY <1>5, ShrinksOK
<1>. QED BY <1>2, <1>3, <1>11, <1>12, <1>13, StepOK

(* An operation that ends without having done anything. *)
LEMMA GivingUpOK ==
    ASSUME TInv, NEW p \in Procs,
           \/ Timeout(p) \/ CheckUnusable(p) \/ SyncLockFail(p) \/ FindUnusable(p)
           \/ LostFail(p) \/ Trunc(p)
    PROVE  TInv'
<1>. USE DEF Timeout, CheckUnusable, SyncLockFail, FindUnusable, LostFail, Trunc
<1>1. GiveUp(p) /\ pc[p] \notin NoLogPlaces
    BY DEF NoLogPlaces, Finding, Lost
<1>2. path' \in 0..nfile /\ bad' \in [Procs -> BOOLEAN]
    <2>1. path \in 0..nfile /\ 0 \in 0..nfile /\ bad \in [Procs -> BOOLEAN]
        BY InodesNat DEF TInv, Types, DiskTypes, MemTypes
    <2>2. path' = path \/ path' = 0
        OBVIOUS
    <2>3. bad' = bad \/ bad' = [bad EXCEPT ![p] = TRUE]
        OBVIOUS
    <2>. QED BY <2>1, <2>2, <2>3
<1>3. nfile' = nfile /\ count' = count
    BY <1>1 DEF GiveUp, ghostVars
<1>4. \/ file' = file
      \/ file' = [file EXCEPT ![head[p]].ok = FALSE]
      \/ file' = Truncated(p)
    OBVIOUS
<1>5. Shrinks
    BY <1>1, <1>3, <1>4, HeadOK, Uncut, Marked, TruncatedOK
<1>. QED BY <1>1, <1>2, <1>5, GiveUpOK

(* log_buffer_move_to_memory() *)
LEMMA MovingOK ==
    ASSUME TInv, NEW p \in Procs, WriteFail(p) \/ FsyncFail(p)
    PROVE  TInv'
<1>. USE DEF WriteFail, FsyncFail, MoveToMemory
<1>1. count' \in CountT /\ count'.txns = count.txns
    <2>1. count \in CountT
        BY DEF TInv, Types, GhostTypes
    <2>. QED BY <2>1, CountCrash
<1>2. pc[p] \notin NoLogPlaces
    BY DEF NoLogPlaces
<1>3. Shrinks
    BY <1>1, <1>2, CutAtSync
<1>4. nfile' \in Nat
    BY InodesNat DEF TInv, Types, DiskTypes
<1>5. ProcOK(p)' /\ pc'[p] # "write2" /\ OthersStay(p)
    BY <1>1, <1>4, ForgetProc, ForgetTypes
<1>6. history' \in Seq(Txns \cup {Reset})
    <2>1. PICK h \in Seq(Txns \cup {Reset}) : h = history
        BY DEF TInv, Types, GhostTypes
    <2>2. SubSeq(h, 1, Len(h) - 1) \in Seq(Txns \cup {Reset})
        BY <2>1
    <2>. QED BY <2>1, <2>2
<1>7. Types'
    BY <1>1, <1>3, <1>6, ForgetTypes DEF TInv, Types, DiskTypes, GhostTypes, Shrinks
<1>8. PosOK(index)'
    BY <1>1 DEF TInv, PosOK, Written
<1>9. FilesStep(p)
    BY <1>3, <1>5, ShrinksOK
<1>. QED BY <1>5, <1>7, <1>8, <1>9, StepOK

-----------------------------------------------------------------------------
(* Steps that move the head or the map of a process *)

(* What is to be shown of a process that neither maps files nor writes. *)
LEMMA ProcNext ==
    ASSUME NEW p \in Procs, pc'[p] \notin {"write2", "fsync", "mapf"},
           PosOK(map[p])', PosOK(idx[p])', HandlesOK(p)',
           \A i \in Inodes : sync'[p][i] <= Written',
           MemTypes'
    PROVE  ProcOK(p)'
<1>1. \A i \in Inodes : sync'[p][i] \in Nat
    BY DEF MemTypes
<1>2. SyncOK(p)'
    BY <1>1 DEF SyncOK
<1>3. FindingOK(p)' /\ TxnOK(p)'
    BY DEF FindingOK, TxnOK
<1>. QED BY <1>2, <1>3 DEF ProcOK

(* Every sync_offset is within what has been written. *)
LEMMA SyncBound ==
    ASSUME TInv, NEW p \in Procs, NEW i \in Inodes
    PROVE  sync[p][i] \in Nat /\ sync[p][i] <= Written /\ Written \in Nat
<1>1. sync[p][i] \in Nat /\ Written \in Nat
    BY DEF TInv, Types, MemTypes, GhostTypes, CountT, Written, TxnSize
<1>2. SyncOK(p)
    BY DEF TInv, ProcOK
<1>. QED BY <1>1, <1>2 DEF SyncOK, TxnSize

(* Positions that are copied from one place to another stay in bounds. *)
LEMMA PosStays ==
    ASSUME TInv, NEW p \in Procs, count'.txns = count.txns
    PROVE  /\ Written' = Written
           /\ map'[p] = map[p] => PosOK(map[p])'
           /\ map'[p] = index => PosOK(map[p])'
           /\ idx'[p] = idx[p] => PosOK(idx[p])'
           /\ idx'[p] = index => PosOK(idx[p])'
           /\ index' = index => PosOK(index)'
BY DEF TInv, ProcOK, PosOK, Written

(* The log is opened. *)
LEMMA OpenLogOK == ASSUME TInv, NEW p \in Procs, OpenLog(p) PROVE TInv'
<1>. USE DEF OpenLog, Goto, diskVars, ghostVars
<1>1. path \in 1..nfile /\ path \in Inodes
    <2>1. path \in 1..nfile
        BY InodesNat DEF TInv, Types, DiskTypes
    <2>. QED BY <2>1, Allocated DEF TInv, Types
<1>2. Types'
    BY <1>1, InodesNat DEF TInv, Types, DiskTypes, MemTypes, GhostTypes, Places
<1>3. OthersStay(p) /\ FilesStay
    BY DEF TInv, Types, MemTypes, OthersStay, FilesStay
<1>4. /\ pc'[p] = "openidx" /\ head'[p] = path /\ files'[p] = {path}
      /\ UNCHANGED <<new, sync, map, idx, index, nfile, count>>
    BY DEF TInv, Types, MemTypes
<1>5. HandlesOK(p)'
    BY <1>1, <1>4 DEF TInv, ProcOK, HandlesOK, NoLogPlaces, Rotating
<1>6. ProcOK(p)'
    BY <1>2, <1>4, <1>5, PosStays, SyncBound, ProcNext DEF Types
<1>. QED BY <1>2, <1>3, <1>4, <1>6, PosStays, QuietOK

(* The log is found to be marked corrupted. *)
LEMMA OpenCorruptedOK == ASSUME TInv, NEW p \in Procs, OpenCorrupted(p) PROVE TInv'
<1>. USE DEF OpenCorrupted, Goto, diskVars, ghostVars
<1>1. Types'
    BY DEF TInv, Types, DiskTypes, MemTypes, GhostTypes, Places
<1>2. OthersStay(p) /\ FilesStay
    BY DEF TInv, Types, MemTypes, OthersStay, FilesStay
<1>3. /\ pc[p] = "closed" /\ pc'[p] = "unlinkbad"
      /\ UNCHANGED <<head, files, new, sync, map, idx, index, nfile, count>>
    BY DEF TInv, Types, MemTypes
<1>4. HandlesOK(p)'
    BY <1>3 DEF TInv, ProcOK, HandlesOK, NoLogPlaces, Rotating
<1>5. ProcOK(p)'
    BY <1>1, <1>3, <1>4, PosStays, SyncBound, ProcNext DEF Types
<1>. QED BY <1>1, <1>2, <1>3, <1>5, PosStays, QuietOK

(* There is no log, or its name is removed. *)
LEMMA OpenNoLogOK == ASSUME TInv, NEW p \in Procs, OpenNoLog(p) PROVE TInv'
<1>. USE DEF OpenNoLog, Goto, Ident, ghostVars
<1>1. Types'
    BY InodesNat DEF TInv, Types, DiskTypes, MemTypes, GhostTypes, Places
<1>2. OthersStay(p) /\ FilesStay
    BY DEF TInv, Types, MemTypes, OthersStay, FilesStay
<1>3. /\ pc[p] \in NoLogPlaces /\ pc'[p] = "create" /\ map'[p] = index /\ idx'[p] = index
      /\ UNCHANGED <<head, files, new, sync, index, nfile, count>>
    BY DEF TInv, Types, MemTypes, NoLogPlaces
<1>4. HandlesOK(p)'
    BY <1>3 DEF TInv, ProcOK, HandlesOK, NoLogPlaces, Rotating
<1>5. ProcOK(p)'
    BY <1>1, <1>3, <1>4, PosStays, SyncBound, ProcNext DEF Types
<1>. QED BY <1>1, <1>2, <1>3, <1>5, PosStays, QuietOK

(* The map starts as dovecot.index. *)
LEMMA OpenIndexOK == ASSUME TInv, NEW p \in Procs, OpenIndex(p) PROVE TInv'
<1>. USE DEF OpenIndex, Goto, Ident, diskVars, ghostVars
<1>1. Types'
    BY DEF TInv, Types, DiskTypes, MemTypes, GhostTypes, Places, Ops
<1>2. OthersStay(p) /\ FilesStay
    BY DEF TInv, Types, MemTypes, OthersStay, FilesStay
<1>3. /\ pc[p] = "openidx" /\ pc'[p] = "view" /\ map'[p] = index /\ idx'[p] = index
      /\ UNCHANGED <<head, files, new, sync, index, nfile, count>>
    BY DEF TInv, Types, MemTypes
<1>4. HandlesOK(p)'
    BY <1>3 DEF TInv, ProcOK, HandlesOK, NoLogPlaces, Rotating
<1>5. ProcOK(p)'
    BY <1>1, <1>3, <1>4, PosStays, SyncBound, ProcNext DEF Types
<1>. QED BY <1>1, <1>2, <1>3, <1>5, PosStays, QuietOK

(* The log that someone else created is used. *)
LEMMA CreateUseOK == ASSUME TInv, NEW p \in Procs, CreateUse(p) PROVE TInv'
<1>. USE DEF CreateUse, Goto, diskVars, ghostVars
<1>1. path \in 1..nfile /\ path \in Inodes
    <2>1. path \in 1..nfile
        BY InodesNat DEF TInv, Types, DiskTypes
    <2>. QED BY <2>1, Allocated DEF TInv, Types
<1>2. Types'
    BY <1>1, InodesNat DEF TInv, Types, DiskTypes, MemTypes, GhostTypes, Places, Ops
<1>3. OthersStay(p) /\ FilesStay
    BY DEF TInv, Types, MemTypes, OthersStay, FilesStay
<1>4. /\ pc'[p] = "view" /\ head'[p] = path /\ files'[p] = {path}
      /\ UNCHANGED <<new, sync, map, idx, index, nfile, count>>
    BY DEF TInv, Types, MemTypes
<1>5. HandlesOK(p)'
    BY <1>1, <1>4 DEF TInv, ProcOK, HandlesOK, NoLogPlaces, Rotating
<1>6. ProcOK(p)'
    BY <1>2, <1>4, <1>5, PosStays, SyncBound, ProcNext DEF Types
<1>. QED BY <1>2, <1>3, <1>4, <1>6, PosStays, QuietOK

(* Only one file of p is left open, synced up to off. *)
LEMMA OnlyType ==
    ASSUME TInv, NEW p \in Procs, NEW i, NEW off \in Nat, sync' = Only(p, i, off)
    PROVE  /\ sync' \in [Procs -> [Inodes -> Nat]]
           /\ \A q \in Procs : q # p => sync'[q] = sync[q]
           /\ \A j \in Inodes : sync'[p][j] = IF j = i THEN off ELSE 0
<1>1. PICK s : s = [j \in Inodes |-> IF j = i THEN off ELSE 0]
    OBVIOUS
<1>2. s \in [Inodes -> Nat]
    BY <1>1
<1>3. sync' = [sync EXCEPT ![p] = s] /\ sync \in [Procs -> [Inodes -> Nat]]
    BY <1>1 DEF Only, TInv, Types, MemTypes
<1>. QED BY <1>1, <1>2, <1>3

(* Reading a file starts at the position of the map, or at its beginning. *)
LEMMA FirstSyncOK ==
    ASSUME TInv, NEW p \in Procs, NEW i
    PROVE  FirstSync(p, i) \in Nat /\ FirstSync(p, i) <= Written
<1>1. map[p] \in MapT /\ PosOK(map[p]) /\ Written \in Nat
    BY DEF TInv, Types, MemTypes, ProcOK, GhostTypes, CountT, Written, TxnSize
<1>2. map[p].off \in Nat
    BY <1>1, MapOf
<1>. QED BY <1>1, <1>2 DEF FirstSync, PosOK

(* The log was rotated before the lock was granted. *)
LEMMA CheckChangedOK == ASSUME TInv, NEW p \in Procs, CheckChanged(p) PROVE TInv'
<1>. USE DEF CheckChanged, Goto, FreeLock, ghostVars
<1>1. path \in 1..nfile /\ path \in Inodes
    <2>1. path \in 1..nfile
        BY InodesNat DEF TInv, Types, DiskTypes
    <2>. QED BY <2>1, Allocated DEF TInv, Types
<1>2. PICK off \in Nat : off = FirstSync(p, path) /\ off <= Written
    BY FirstSyncOK
<1>3. sync' = Only(p, path, off)
    BY <1>2
<1>4. /\ sync' \in [Procs -> [Inodes -> Nat]]
      /\ \A q \in Procs : q # p => sync'[q] = sync[q]
      /\ \A j \in Inodes : sync'[p][j] = IF j = path THEN off ELSE 0
    BY <1>3, OnlyType
<1>5. Types'
    BY <1>1, <1>4, InodesNat DEF TInv, Types, DiskTypes, MemTypes, GhostTypes, Places
<1>6. OthersStay(p) /\ FilesStay
    BY <1>4 DEF TInv, Types, MemTypes, OthersStay, FilesStay
<1>7. /\ pc[p] = "check" /\ pc'[p] = "lock" /\ head'[p] = path /\ files'[p] = {path}
      /\ UNCHANGED <<new, map, idx, index, nfile, count>>
    BY DEF TInv, Types, MemTypes
<1>8. HandlesOK(p)'
    BY <1>1, <1>7 DEF TInv, ProcOK, HandlesOK, NoLogPlaces, Rotating
<1>9. \A j \in Inodes : sync'[p][j] <= Written
    BY <1>2, <1>4, SyncBound
<1>10. ProcOK(p)'
    BY <1>5, <1>7, <1>8, <1>9, PosStays, ProcNext DEF Types
<1>. QED BY <1>5, <1>6, <1>7, <1>10, PosStays, QuietOK

(* The locked head is read to its end. *)
LEMMA SyncLockOK == ASSUME TInv, NEW p \in Procs, SyncLock(p) PROVE TInv'
<1>. USE DEF SyncLock, Goto, diskVars, ghostVars
<1>1. head[p] \in Inodes
    BY HeadOK DEF NoLogPlaces
<1>2. PICK off \in Nat : off = Complete(head[p]) /\ off <= Written
    BY <1>1, CompleteOK
<1>3. sync' = Only(p, head[p], off)
    BY <1>2
<1>4. /\ sync' \in [Procs -> [Inodes -> Nat]]
      /\ \A q \in Procs : q # p => sync'[q] = sync[q]
      /\ \A j \in Inodes : sync'[p][j] = IF j = head[p] THEN off ELSE 0
    BY <1>3, OnlyType
<1>5. Types'
    BY <1>4 DEF TInv, Types, DiskTypes, MemTypes, GhostTypes, Places
<1>6. OthersStay(p) /\ FilesStay
    BY <1>4 DEF TInv, Types, MemTypes, OthersStay, FilesStay
<1>7. /\ pc[p] = "check" /\ pc'[p] \in {"view", "fsck"}
      /\ UNCHANGED <<head, files, new, map, idx, index, nfile, count>>
    BY DEF TInv, Types, MemTypes
<1>8. HandlesOK(p)'
    BY <1>7 DEF TInv, ProcOK, HandlesOK, NoLogPlaces, Rotating
<1>9. \A j \in Inodes : sync'[p][j] <= Written
    BY <1>2, <1>4, SyncBound
<1>10. ProcOK(p)'
    BY <1>5, <1>7, <1>8, <1>9, PosStays, ProcNext DEF Types
<1>. QED BY <1>5, <1>6, <1>7, <1>10, PosStays, QuietOK

(* The map starts over from dovecot.index. *)
LEMMA ReopenOK == ASSUME TInv, NEW p \in Procs, Reopen(p) PROVE TInv'
<1>. USE DEF Reopen, Goto, Ident, diskVars, ghostVars
<1>1. view[p] \in ViewT /\ view[p].tries \in Nat
    BY ViewOf DEF TInv, Types, MemTypes
<1>2. PICK n \in Nat : n = view[p].tries + 1
    BY <1>1
<1>3. PICK w : w = [NoView EXCEPT !.tries = n]
    OBVIOUS
<1>4. w \in ViewT
    BY <1>3, ViewTries
<1>5. view' = [view EXCEPT ![p] = w]
    BY <1>2, <1>3
<1>6. Types'
    BY <1>4, <1>5 DEF TInv, Types, DiskTypes, MemTypes, GhostTypes, Places
<1>7. OthersStay(p) /\ FilesStay
    BY DEF TInv, Types, MemTypes, OthersStay, FilesStay
<1>8. /\ pc[p] \in {"view", "lost"} /\ pc'[p] = "view"
      /\ map'[p] \in {map[p], index} /\ idx'[p] = index
      /\ UNCHANGED <<head, files, new, sync, index, nfile, count>>
    BY DEF TInv, Types, MemTypes, Lost
<1>9. HandlesOK(p)'
    BY <1>8 DEF TInv, ProcOK, HandlesOK, NoLogPlaces, Rotating
<1>10. ProcOK(p)'
    BY <1>6, <1>8, <1>9, PosStays, SyncBound, ProcNext DEF Types
<1>. QED BY <1>6, <1>7, <1>8, <1>10, PosStays, QuietOK

(* A newer log is found under the name and becomes the head. *)
LEMMA FindRefreshOK == ASSUME TInv, NEW p \in Procs, FindRefresh(p) PROVE TInv'
<1>. USE DEF FindRefresh, diskVars, ghostVars
<1>1. path \in 1..nfile /\ path \in Inodes
    <2>1. path \in 1..nfile
        BY InodesNat DEF TInv, Types, DiskTypes
    <2>. QED BY <2>1, Allocated DEF TInv, Types
<1>2. pc[p] = "view" /\ head[p] \in 1..nfile
    BY HeadOK DEF Finding, NoLogPlaces
<1>3. PICK off \in Nat : off = FirstSync(p, path) /\ off <= Written
    BY FirstSyncOK
<1>4. PICK w \in ViewT : w = ViewRange(p)
    BY <1>2, RangeOK
<1>5. PICK s : s = [sync[p] EXCEPT ![path] = off]
    OBVIOUS
<1>6. /\ s \in [Inodes -> Nat]
      /\ sync' = [sync EXCEPT ![p] = s]
      /\ \A j \in Inodes : s[j] = IF j = path THEN off ELSE sync[p][j]
    BY <1>1, <1>3, <1>5 DEF TInv, Types, MemTypes
<1>7. /\ files'[p] \in SUBSET Inodes /\ files' = [files EXCEPT ![p] = files'[p]]
      /\ files'[p] \subseteq files[p] \cup {path} /\ path \in files'[p]
    <2>1. PICK l : l = IF Found(p) = <<>> THEN {path} ELSE files[p] \cup {path}
        OBVIOUS
    <2>2. l \in SUBSET Inodes /\ l \subseteq files[p] \cup {path} /\ path \in l
        BY <2>1, <1>1 DEF TInv, Types, MemTypes
    <2>3. files' = [files EXCEPT ![p] = l]
        BY <2>1
    <2>. QED BY <2>2, <2>3 DEF TInv, Types, MemTypes
<1>8. Types'
    <2>1. /\ sync' \in [Procs -> [Inodes -> Nat]] /\ files' \in [Procs -> SUBSET Inodes]
          /\ view' \in [Procs -> ViewT]
        BY <1>4, <1>6, <1>7 DEF TInv, Types, MemTypes
    <2>2. /\ head' \in [Procs -> Nat] /\ bad' \in [Procs -> BOOLEAN]
          /\ UNCHANGED <<diskVars, pc, op, new, locked, map, idx, ghostVars>>
        BY <1>1, InodesNat DEF TInv, Types, MemTypes
    <2>. HIDE DEF FindRefresh
    <2>. QED BY <2>1, <2>2 DEF TInv, Types, DiskTypes, MemTypes, GhostTypes
<1>9. OthersStay(p) /\ FilesStay
    BY <1>6, <1>7 DEF TInv, Types, MemTypes, OthersStay, FilesStay
<1>10. pc' = pc /\ head'[p] = path /\ UNCHANGED <<new, map, idx, index, nfile, count>>
    BY DEF TInv, Types, MemTypes
<1>11. HandlesOK(p)'
    BY <1>1, <1>2, <1>7, <1>10 DEF TInv, ProcOK, HandlesOK, NoLogPlaces, Rotating
<1>12. \A j \in Inodes : sync'[p][j] <= Written
    BY <1>3, <1>6, SyncBound DEF TInv, Types, MemTypes
<1>13. ProcOK(p)'
    BY <1>2, <1>8, <1>10, <1>11, <1>12, PosStays, ProcNext DEF Types
<1>. QED BY <1>2, <1>8, <1>9, <1>10, <1>13, PosStays, QuietOK

(* mail_index_fsck_log_pos() makes up a position that is within the log. *)
LEMMA FsckedMapOK ==
    ASSUME TInv, NEW p \in Procs, head[p] \in 1..nfile
    PROVE  FsckedMap(p) \in MapT /\ PosOK(FsckedMap(p))
<1>1. head[p] \in Inodes /\ head[p] <= nfile
    BY Allocated DEF TInv, Types
<1>2. file[head[p]].seq \in Nat /\ file[head[p]].seq > 0
    BY <1>1, FileOf DEF TInv, Types, FileOK
<1>3. map[p] \in MapT /\ map[p].seq \in Nat /\ map[p].off \in Nat /\ map[p].off <= Written
    BY MapOf DEF TInv, Types, MemTypes, ProcOK, PosOK
<1>4. /\ sync[p][head[p]] \in Nat /\ sync[p][head[p]] <= Written /\ Written \in Nat
    BY <1>1, SyncBound
<1>5. PICK off : off = CASE map[p].seq < file[head[p]].seq -> 0
                         [] map[p].seq = file[head[p]].seq -> Min({map[p].off, sync[p][head[p]]})
                         [] OTHER -> sync[p][head[p]]
    OBVIOUS
<1>6. off \in Nat /\ off <= Written
    <2>1. PICK x : x = Min({map[p].off, sync[p][head[p]]})
        OBVIOUS
    <2>2. x \in Nat /\ x <= Written
        <3>1. x \in Nat /\ x <= map[p].off
            BY <2>1, <1>3, <1>4, MinOfTwo
        <3>. QED BY <3>1, <1>3, <1>4
    <2>3. off = CASE map[p].seq < file[head[p]].seq -> 0
                  [] map[p].seq = file[head[p]].seq -> x
                  [] OTHER -> sync[p][head[p]]
        BY <1>5, <2>1
    <2>. QED BY <2>2, <2>3, <1>2, <1>3, <1>4
<1>7. PICK m \in MapT : m = map[p]
    BY <1>3
<1>8. PICK s \in Nat : s = file[head[p]].seq
    BY <1>2
<1>9. FsckedMap(p) = [m EXCEPT !.seq = s, !.off = off]
    BY <1>5, <1>7, <1>8 DEF FsckedMap
<1>10. FsckedMap(p) \in MapT /\ FsckedMap(p).seq = s /\ FsckedMap(p).off = off
    BY <1>6, <1>9 DEF MapT
<1>. QED BY <1>2, <1>6, <1>8, <1>10 DEF PosOK

(* dovecot.index is repaired and read back. *)
LEMMA FsckOK == ASSUME TInv, NEW p \in Procs, Fsck(p) PROVE TInv'
<1>. USE DEF Fsck, Goto, Ident
<1>1. pc[p] = "fsck" /\ head[p] \in 1..nfile /\ head[p] \in Inodes
    BY HeadOK DEF NoLogPlaces
<1>2. PICK w : w = [NoView EXCEPT !.tries = 2]
    OBVIOUS
<1>3. w \in ViewT /\ view' = [view EXCEPT ![p] = w]
    BY <1>2, ViewTries
<1>4. PICK m \in MapT : m = FsckedMap(p) /\ PosOK(m)
    BY <1>1, FsckedMapOK
<1>5. index' \in {m, index} /\ index \in MapT /\ PosOK(index)
    BY <1>4 DEF TInv, Types, DiskTypes
<1>6. PICK x \in {m, index} : map' = [map EXCEPT ![p] = x]
    BY <1>4, <1>5
<1>7. idx' = [idx EXCEPT ![p] = index']
    OBVIOUS
<1>8. Types'
    <2>1. index' \in MapT /\ x \in MapT
        BY <1>4, <1>5, <1>6
    <2>2. lock' \in [Inodes -> Procs \cup {NoProc}]
        BY <1>1 DEF TInv, Types, DiskTypes, FreeLock
    <2>3. DiskTypes'
        BY <2>1, <2>2 DEF TInv, Types, DiskTypes
    <2>4. MemTypes'
        <3>1. /\ view' \in [Procs -> ViewT] /\ map' \in [Procs -> MapT]
              /\ idx' \in [Procs -> MapT]
            <4>1. map \in [Procs -> MapT] /\ idx \in [Procs -> MapT] /\ view \in [Procs -> ViewT]
                BY DEF TInv, Types, MemTypes
            <4>. HIDE DEF Fsck
            <4>. QED BY <1>3, <1>6, <1>7, <2>1, <4>1
        <3>2. pc' \in [Procs -> Places] /\ op' \in [Procs -> Ops]
            BY DEF TInv, Types, MemTypes, Places, Ops
        <3>3. locked' \in [Procs -> BOOLEAN] /\ UNCHANGED <<head, new, bad, files, sync>>
            <4>1. PICK b \in BOOLEAN : b = (op[p] = "sync")
                OBVIOUS
            <4>2. locked' = [locked EXCEPT ![p] = b]
                BY <4>1
            <4>. QED BY <4>1, <4>2 DEF TInv, Types, MemTypes
        <3>. HIDE DEF Fsck
        <3>. QED BY <3>1, <3>2, <3>3 DEF TInv, Types, MemTypes
    <2>. QED BY <2>3, <2>4 DEF TInv, Types, GhostTypes
<1>9. OthersStay(p) /\ FilesStay
    BY <1>6 DEF TInv, Types, MemTypes, OthersStay, FilesStay
<1>10. /\ pc'[p] = "view" /\ map'[p] = x /\ idx'[p] = index'
       /\ UNCHANGED <<head, files, new, sync, nfile, count>>
    BY <1>6, <1>7 DEF TInv, Types, MemTypes
<1>11. Written' = Written
    BY DEF Written
<1>12. PosOK(map[p])' /\ PosOK(idx[p])' /\ PosOK(index)'
    BY <1>4, <1>5, <1>6, <1>10, <1>11 DEF PosOK
<1>13. HandlesOK(p)'
    BY <1>1, <1>10 DEF TInv, ProcOK, HandlesOK, NoLogPlaces, Rotating
<1>14. ProcOK(p)'
    BY <1>8, <1>10, <1>11, <1>12, <1>13, SyncBound, ProcNext DEF Types
<1>. QED BY <1>8, <1>9, <1>10, <1>12, <1>14, QuietOK

(* The repair cannot lock the log, and marks it corrupted. *)
LEMMA FsckFailOK == ASSUME TInv, NEW p \in Procs, FsckFail(p) PROVE TInv'
<1>. USE DEF FsckFail, Goto, FreeLock, ghostVars
<1>1. pc[p] = "fsck" /\ head[p] \in 1..nfile /\ head[p] \in Inodes
    BY HeadOK DEF NoLogPlaces
<1>2. Shrinks
    BY <1>1, Marked
<1>3. Types'
    BY <1>1, <1>2, NoTypes DEF TInv, Types, DiskTypes, MemTypes, GhostTypes, Places, Shrinks
<1>4. OthersStay(p)
    BY DEF TInv, Types, MemTypes, OthersStay
<1>5. /\ pc'[p] = "trunc" /\ files'[p] = {head[p]}
      /\ UNCHANGED <<head, new, sync, map, idx, index, nfile, count>>
    BY DEF TInv, Types, MemTypes
<1>6. HandlesOK(p)'
    BY <1>1, <1>5 DEF TInv, ProcOK, HandlesOK, NoLogPlaces, Rotating
<1>7. ProcOK(p)'
    BY <1>3, <1>5, <1>6, PosStays, SyncBound, ProcNext DEF Types
<1>8. FilesStep(p)
    BY <1>2, <1>5, ShrinksOK
<1>. QED BY <1>3, <1>4, <1>5, <1>7, <1>8, PosStays, StepOK

(* sync_offset moves past the transaction that was written, and no further. *)
LEMMA FsyncedOK == ASSUME TInv, NEW p \in Procs, Fsynced(p) PROVE TInv'
<1>. USE DEF Fsynced, Committed, Goto, FreeLock, ghostVars
<1>1. pc[p] = "fsync" /\ head[p] \in 1..nfile /\ head[p] \in Inodes
    BY HeadOK DEF NoLogPlaces
<1>2. sync[p][head[p]] \in Nat /\ Written \in Nat
    BY <1>1, SyncBound
<1>3. PICK n \in Nat : n = sync[p][head[p]] + TxnSize
    BY <1>2 DEF TxnSize
<1>4. n <= Written
    BY <1>1, <1>3 DEF TInv, ProcOK, SyncOK
<1>5. PICK s : s = [sync[p] EXCEPT ![head[p]] = n]
    OBVIOUS
<1>6. /\ s \in [Inodes -> Nat]
      /\ sync' = [sync EXCEPT ![p] = s]
      /\ \A j \in Inodes : s[j] = IF j = head[p] THEN n ELSE sync[p][j]
    BY <1>1, <1>3, <1>5 DEF TInv, Types, MemTypes
<1>7. Types'
    <2>1. sync' \in [Procs -> [Inodes -> Nat]]
        BY <1>6 DEF TInv, Types, MemTypes
    <2>2. pc' \in [Procs -> Places] /\ op' \in [Procs -> Ops] /\ locked' \in [Procs -> BOOLEAN]
        BY DEF TInv, Types, MemTypes, Places, Ops
    <2>3. lock' \in [Inodes -> Procs \cup {NoProc}]
        BY <1>1 DEF TInv, Types, DiskTypes
    <2>4. UNCHANGED <<file, nfile, path, path2, index, newlock,
                      head, new, bad, files, map, idx, view, ghostVars>>
        OBVIOUS
    <2>. HIDE DEF Fsynced
    <2>. QED BY <2>1, <2>2, <2>3, <2>4 DEF TInv, Types, DiskTypes, MemTypes, GhostTypes
<1>8. OthersStay(p) /\ FilesStay
    BY <1>6 DEF TInv, Types, MemTypes, OthersStay, FilesStay
<1>9. /\ pc'[p] \in {"view", "unlinkidx"}
      /\ UNCHANGED <<head, files, new, map, idx, index, nfile, count>>
    BY DEF TInv, Types, MemTypes
<1>10. HandlesOK(p)'
    BY <1>1, <1>9 DEF TInv, ProcOK, HandlesOK, NoLogPlaces, Rotating
<1>11. \A j \in Inodes : sync'[p][j] <= Written
    BY <1>4, <1>6, SyncBound DEF TInv, Types, MemTypes
<1>12. ProcOK(p)'
    BY <1>7, <1>9, <1>10, <1>11, PosStays, ProcNext DEF Types
<1>. QED BY <1>7, <1>8, <1>9, <1>12, PosStays, QuietOK

(* A rotation fails and the new file is dropped. *)
LEMMA RotateFailOK == ASSUME TInv, NEW p \in Procs, RotateFail(p) PROVE TInv'
<1>. USE DEF RotateFail, Goto, FreeLock
<1>1. pc[p] = "rot4" /\ head[p] \in 1..nfile
    BY HeadOK DEF NoLogPlaces
<1>2. new[p] \in 1..nfile
    BY <1>1 DEF TInv, ProcOK, HandlesOK, Rotating
<1>3. new[p] \in Inodes
    BY <1>2, Allocated DEF TInv, Types
<1>4. count' \in CountT /\ count'.txns = count.txns
    <2>1. count \in CountT
        BY DEF TInv, Types, GhostTypes
    <2>. QED BY <2>1, CountCrash
<1>5. Types'
    BY <1>3, <1>4 DEF TInv, Types, DiskTypes, MemTypes, GhostTypes, Places
<1>6. OthersStay(p) /\ FilesStay
    BY <1>4 DEF TInv, Types, MemTypes, OthersStay, FilesStay
<1>7. /\ pc'[p] = "synced" /\ new'[p] = 0
      /\ UNCHANGED <<head, files, sync, map, idx, index, nfile>>
    BY DEF TInv, Types, MemTypes
<1>8. HandlesOK(p)'
    BY <1>1, <1>7, InodesNat DEF TInv, Types, DiskTypes, ProcOK, HandlesOK, NoLogPlaces, Rotating
<1>9. ProcOK(p)'
    BY <1>4, <1>5, <1>7, <1>8, PosStays, SyncBound, ProcNext DEF Types
<1>. QED BY <1>4, <1>5, <1>6, <1>7, <1>9, PosStays, QuietOK

-----------------------------------------------------------------------------
(* Steps that create a file, or write to one *)

(* A new file has only a header. *)
LEMMA Created ==
    ASSUME TInv, NEW p \in Procs, NEW h \in FileT, h.data = <<>>,
           h.seq > 0, h.prevSeq <= h.seq, h.prevOff <= Written,
           h.prevSeq = 0 => h.prevOff = 0,
           nfile < MaxFiles, nfile' = nfile + 1, file' = [file EXCEPT ![nfile'] = h],
           count' = count, pc'[p] # "write2"
    PROVE  /\ file' \in [Inodes -> FileT]
           /\ nfile' \in Inodes /\ nfile' \in Nat
           /\ FilesStep(p)
<1>1. nfile \in Nat /\ nfile' \in Inodes /\ nfile' \in Nat
    BY LogAssumption DEF TInv, Types, DiskTypes, Inodes
<1>2. file \in [Inodes -> FileT]
    BY DEF TInv, Types, DiskTypes
<1>3. file' \in [Inodes -> FileT]
    BY <1>1, <1>2
<1>4. \A i \in Inodes : file'[i] = IF i = nfile' THEN h ELSE file[i]
    BY <1>1, <1>2
<1>5. Written' = Written
    BY DEF Written
<1>6. ASSUME NEW i \in Inodes PROVE FileOK(i)'
    <2>1. CASE i = nfile'
        <3>1. file'[i] = h /\ Len(h.data) = 0
            BY <1>4, <2>1
        <3>. QED BY <3>1, <1>5 DEF FileOK
    <2>2. CASE i # nfile'
        <3>1. file'[i] = file[i] /\ FileOK(i)
            BY <1>4, <2>2 DEF TInv
        <3>2. i <= nfile' => i <= nfile
            BY <1>1, <2>2, InodesNat
        <3>. QED BY <3>1, <3>2, <1>5 DEF FileOK
    <2>. QED BY <2>1, <2>2
<1>7. ASSUME NEW i \in Inodes, NEW k \in 1..Len(file'[i].data)
      PROVE  k <= Len(file[i].data) /\ file'[i].data[k] = file[i].data[k]
    <2>1. i # nfile'
        <3>1. Len(h.data) = 0
            OBVIOUS
        <3>. QED BY <3>1, <1>4
    <2>2. file'[i] = file[i] /\ Len(file[i].data) \in Nat
        BY <2>1, <1>4, FileOf DEF TInv, Types
    <2>. QED BY <2>2
<1>8. \A i \in 1..nfile : file'[i].seq = file[i].seq
    <2>1. \A i \in 1..nfile : i \in Inodes /\ i # nfile'
        BY <1>1, Allocated DEF TInv, Types
    <2>. QED BY <2>1, <1>4
<1>9. count.txns \in Nat
    BY DEF TInv, Types, GhostTypes, CountT
<1>. QED BY <1>1, <1>3, <1>6, <1>7, <1>8, <1>9 DEF FilesStep

(* There is an inode left for a file that is to be created. *)
LEMMA RoomLeft == ASSUME TInv, Room PROVE nfile < MaxFiles
<1>1. PICK S : S = {p \in Procs : op[p] = "reset" \/ pc[p] = "rot1"}
    OBVIOUS
<1>2. S \in SUBSET Procs /\ IsFiniteSet(Procs)
    BY <1>1, LogAssumption
<1>3. Cardinality(S) \in Nat
    BY <1>2, FS_Subset, FS_CardinalityType
<1>4. nfile \in Nat /\ MaxFiles \in Nat
    BY InodesNat, LogAssumption DEF TInv, Types, DiskTypes
<1>5. nfile + Cardinality(S) < MaxFiles
    BY <1>1 DEF Room
<1>. QED BY <1>3, <1>4, <1>5

(* A log is created where there was none. *)
LEMMA CreateNewOK == ASSUME TInv, NEW p \in Procs, CreateNew(p) PROVE TInv'
<1>. USE DEF CreateNew, Goto, ghostVars
<1>1. map[p].seq \in Nat /\ map[p].off \in Nat /\ PosOK(map[p])
    BY MapOf DEF TInv, Types, MemTypes, ProcOK
<1>2. PICK s \in Nat : s = map[p].seq + 1
    BY <1>1
<1>3. PICK a \in Nat, b \in Nat : a = map[p].seq /\ b = map[p].off
    BY <1>1
<1>4. PICK h : h = [NoFile EXCEPT !.seq = s, !.prevSeq = a, !.prevOff = b]
    OBVIOUS
<1>5. /\ h \in FileT /\ h.data = <<>> /\ h.seq = s /\ h.prevSeq = a /\ h.prevOff = b
    <2>1. h = [seq |-> s, prevSeq |-> a, prevOff |-> b, data |-> <<>>, ok |-> TRUE]
        BY <1>4 DEF NoFile
    <2>2. <<>> \in Seq(Txns \X (1..TxnSize))
        OBVIOUS
    <2>. QED BY <2>1, <2>2 DEF FileT
<1>6. pc'[p] = "view"
    BY DEF TInv, Types, MemTypes
<1>7. nfile < MaxFiles
    BY RoomLeft
<1>8. /\ file' \in [Inodes -> FileT] /\ nfile' \in Inodes /\ nfile' \in Nat /\ FilesStep(p)
    <2>1. h.seq > 0 /\ h.prevSeq <= h.seq /\ h.prevOff <= Written /\ (h.prevSeq = 0 => h.prevOff = 0)
        BY <1>1, <1>2, <1>3, <1>5 DEF PosOK
    <2>2. file' = [file EXCEPT ![nfile'] = h] /\ nfile' = nfile + 1 /\ count' = count
        BY <1>2, <1>3, <1>4
    <2>. QED BY <1>5, <1>6, <1>7, <2>1, <2>2, Created
<1>9. nfile \in Nat /\ nfile' = nfile + 1
    BY InodesNat DEF TInv, Types, DiskTypes
<1>10. Types'
    <2>1. DiskTypes'
        BY <1>8, <1>9 DEF TInv, Types, DiskTypes
    <2>2. MemTypes'
        BY <1>8 DEF TInv, Types, MemTypes, Places, Ops
    <2>. QED BY <2>1, <2>2 DEF TInv, Types, GhostTypes
<1>11. OthersStay(p)
    BY DEF TInv, Types, MemTypes, OthersStay
<1>12. /\ head'[p] = nfile' /\ files'[p] = {nfile'} /\ UNCHANGED <<new, sync, map, idx, index, count>>
    BY DEF TInv, Types, MemTypes
<1>13. HandlesOK(p)'
    BY <1>6, <1>9, <1>12 DEF TInv, ProcOK, HandlesOK, NoLogPlaces, Rotating
<1>14. ProcOK(p)'
    BY <1>6, <1>10, <1>12, <1>13, PosStays, SyncBound, ProcNext DEF Types
<1>. QED BY <1>8, <1>10, <1>11, <1>12, <1>14, PosStays, StepOK

(* A rotation creates the next log, whose header names the end of the old   *)
(* one.                                                                     *)
LEMMA RotateCreateOK == ASSUME TInv, NEW p \in Procs, RotateCreate(p) PROVE TInv'
<1>. USE DEF RotateCreate, Goto, ghostVars
<1>0. pc[p] = "rot1" /\ head[p] \in 1..nfile /\ head[p] \in Inodes
    BY HeadOK DEF NoLogPlaces
<1>1. map[p].seq \in Nat /\ map[p].off \in Nat /\ PosOK(map[p])
    BY MapOf DEF TInv, Types, MemTypes, ProcOK
<1>2. PICK s \in Nat : s = Max({map[p].seq, file[head[p]].seq}) + 1 /\ s > map[p].seq
    <2>1. file[head[p]].seq \in Nat
        BY <1>0, FileOf DEF TInv, Types
    <2>2. PICK x : x = Max({map[p].seq, file[head[p]].seq})
        OBVIOUS
    <2>3. x \in Nat /\ map[p].seq <= x
        BY <2>1, <2>2, <1>1, MaxOfTwo
    <2>4. x + 1 \in Nat /\ x + 1 > map[p].seq
        BY <2>3, <1>1
    <2>. QED BY <2>2, <2>4
<1>3. PICK a \in Nat, b \in Nat :
         /\ a = IF StartsOver(p) THEN 0 ELSE map[p].seq
         /\ b = IF StartsOver(p) THEN 0 ELSE map[p].off
    BY <1>1
<1>4. PICK h : h = [NoFile EXCEPT !.seq = s, !.prevSeq = a, !.prevOff = b]
    OBVIOUS
<1>5. /\ h \in FileT /\ h.data = <<>> /\ h.seq = s /\ h.prevSeq = a /\ h.prevOff = b
    <2>1. h = [seq |-> s, prevSeq |-> a, prevOff |-> b, data |-> <<>>, ok |-> TRUE]
        BY <1>4 DEF NoFile
    <2>2. <<>> \in Seq(Txns \X (1..TxnSize))
        OBVIOUS
    <2>. QED BY <2>1, <2>2 DEF FileT
<1>6. pc'[p] \in {"rot2", "rot4"}
    BY DEF TInv, Types, MemTypes
<1>7. /\ file' \in [Inodes -> FileT] /\ nfile' \in Inodes /\ nfile' \in Nat /\ FilesStep(p)
    <2>1. Written \in Nat
        BY SyncBound, InodesNat
    <2>2. h.seq > 0 /\ h.prevSeq <= h.seq /\ h.prevOff <= Written /\ (h.prevSeq = 0 => h.prevOff = 0)
        BY <1>1, <1>2, <1>3, <1>5, <2>1 DEF PosOK
    <2>3. file' = [file EXCEPT ![nfile'] = h] /\ nfile' = nfile + 1 /\ count' = count
        BY <1>2, <1>3, <1>4 DEF NewHeader
    <2>. QED BY <1>5, <1>6, <2>2, <2>3, Created
<1>8. nfile \in Nat /\ nfile' = nfile + 1
    BY InodesNat DEF TInv, Types, DiskTypes
<1>9. Types'
    <2>1. DiskTypes'
        BY <1>7, <1>8 DEF TInv, Types, DiskTypes
    <2>2. MemTypes'
        BY <1>7 DEF TInv, Types, MemTypes, Places
    <2>. QED BY <2>1, <2>2 DEF TInv, Types, GhostTypes
<1>10. OthersStay(p)
    BY DEF TInv, Types, MemTypes, OthersStay
<1>11. /\ new'[p] = nfile' /\ UNCHANGED <<head, files, sync, map, idx, index, count>>
    BY DEF TInv, Types, MemTypes
<1>12. HandlesOK(p)'
    BY <1>0, <1>6, <1>8, <1>11 DEF TInv, ProcOK, HandlesOK, NoLogPlaces, Rotating
<1>13. ProcOK(p)'
    BY <1>6, <1>9, <1>11, <1>12, PosStays, SyncBound, ProcNext DEF Types
<1>. QED BY <1>7, <1>9, <1>10, <1>11, <1>13, PosStays, StepOK

(* The new log gets the name; the map of a rotation starts at its beginning. *)
LEMMA RotateRenameOK == ASSUME TInv, NEW p \in Procs, RotateRename(p) PROVE TInv'
<1>. USE DEF RotateRename, Goto
<1>1. pc[p] = "rot4" /\ head[p] \in 1..nfile /\ head[p] \in Inodes
    BY HeadOK DEF NoLogPlaces
<1>2. new[p] \in 1..nfile /\ new[p] \in Inodes /\ new[p] \in Nat
    <2>1. new[p] \in 1..nfile
        BY <1>1 DEF TInv, ProcOK, HandlesOK, Rotating
    <2>. QED BY <2>1, Allocated DEF TInv, Types
<1>3. PICK s \in Nat : s = file[new[p]].seq /\ s > 0
    BY <1>2, FileOf, Allocated DEF TInv, Types, FileOK
<1>4. PICK m : m = [map[p] EXCEPT !.seq = s, !.off = 0]
    OBVIOUS
<1>5. m \in MapT /\ m.seq = s /\ m.off = 0
    <2>1. PICK x \in MapT : x = map[p]
        BY DEF TInv, Types, MemTypes
    <2>2. m = [x EXCEPT !.seq = s, !.off = 0]
        BY <1>4, <2>1
    <2>. QED BY <2>2 DEF MapT
<1>6. map' = map \/ map' = [map EXCEPT ![p] = m]
    BY <1>3, <1>4 DEF TInv, Types, MemTypes
<1>7. /\ sync' \in [Procs -> [Inodes -> Nat]]
      /\ \A q \in Procs : q # p => sync'[q] = sync[q]
      /\ \A j \in Inodes : sync'[p][j] = 0
    <2>1. 0 \in Nat /\ sync' = Only(p, 0, 0)
        OBVIOUS
    <2>. QED BY <2>1, OnlyType
<1>8. history' \in Seq(Txns \cup {Reset})
    <2>1. PICK h \in Seq(Txns \cup {Reset}) : h = history
        BY DEF TInv, Types, GhostTypes
    <2>2. Append(h, Reset) \in Seq(Txns \cup {Reset})
        BY <2>1
    <2>3. history' = h \/ history' = Append(h, Reset)
        BY <2>1
    <2>. QED BY <2>1, <2>2, <2>3
<1>9. DiskTypes'
    BY <1>1, <1>2 DEF TInv, Types, DiskTypes, FreeLock
<1>10. MemTypes'
    <2>1. map' \in [Procs -> MapT] /\ op' \in [Procs -> Ops] /\ pc' \in [Procs -> Places]
        <3>1. op' \in [Procs -> Ops] /\ pc' \in [Procs -> Places]
            BY DEF TInv, Types, MemTypes, Ops, Places
        <3>2. map \in [Procs -> MapT]
            BY DEF TInv, Types, MemTypes
        <3>. HIDE DEF RotateRename
        <3>. QED BY <1>5, <1>6, <3>1, <3>2
    <2>2. /\ head' \in [Procs -> Nat] /\ new' \in [Procs -> Nat] /\ bad' \in [Procs -> BOOLEAN]
          /\ files' \in [Procs -> SUBSET Inodes] /\ UNCHANGED <<locked, idx, view>>
        BY <1>2 DEF TInv, Types, MemTypes
    <2>. HIDE DEF RotateRename
    <2>. QED BY <1>7, <2>1, <2>2 DEF TInv, Types, MemTypes
<1>11. Types'
    BY <1>8, <1>9, <1>10 DEF TInv, Types, GhostTypes
<1>12. OthersStay(p) /\ FilesStay
    BY <1>6, <1>7 DEF TInv, Types, MemTypes, OthersStay, FilesStay
<1>13. /\ pc'[p] \in {"view", "rotated"} /\ head'[p] = new[p] /\ files'[p] = {new[p]} /\ new'[p] = 0
       /\ UNCHANGED <<idx, index, nfile, count>>
    BY DEF TInv, Types, MemTypes
<1>14. HandlesOK(p)'
    BY <1>2, <1>13, InodesNat DEF TInv, Types, DiskTypes, HandlesOK, NoLogPlaces, Rotating
<1>15. Written \in Nat
    BY <1>1, SyncBound
<1>16. PosOK(map[p])'
    <2>1. CASE map' = map
        BY <2>1, <1>13, PosStays
    <2>2. CASE map' = [map EXCEPT ![p] = m]
        <3>1. map'[p] = m /\ Written' = Written
            BY <2>2, <1>13 DEF TInv, Types, MemTypes, Written
        <3>. QED BY <3>1, <1>3, <1>5, <1>15 DEF PosOK
    <2>. QED BY <2>1, <2>2, <1>6
<1>17. \A j \in Inodes : sync'[p][j] <= Written'
    BY <1>7, <1>13, <1>15, PosStays
<1>18. ProcOK(p)'
    BY <1>10, <1>13, <1>14, <1>16, <1>17, PosStays, ProcNext
<1>. QED BY <1>11, <1>12, <1>13, <1>18, PosStays, QuietOK

(* e is written to the end of file i. *)
Appends(p, i, e) ==
    /\ file' = [file EXCEPT ![i].data = Append(@, e)]
    /\ \A k \in 1..Len(file[i].data) : file[i].data[k] # e
    /\ e[1] <= count'.txns
    /\ count' \in CountT
    /\ count.txns <= count'.txns
    /\ nfile' = nfile
    /\ e = <<count'.txns, 1>> \/ (pc[p] = "write2" /\ e = <<view[p].txn, 2>>)
    /\ pc'[p] = "write2" => view'[p].txn > count.txns
OldOrNew(e) ==
    \A j \in Inodes : \A k \in 1..Len(file'[j].data) :
        \/ k \in 1..Len(file[j].data) /\ file'[j].data[k] = file[j].data[k]
        \/ file'[j].data[k] = e

(* A record is appended to one file: it is a new one, so none is there      *)
(* twice.                                                                   *)
LEMMA Appended ==
    ASSUME TInv, NEW p \in Procs, NEW i \in Inodes, NEW e \in Txns \X (1..TxnSize),
           Appends(p, i, e)
    PROVE  file' \in [Inodes -> FileT] /\ FilesStep(p) /\ OldOrNew(e)
<1>. USE DEF Appends
<1>1. file[i] \in FileT /\ file \in [Inodes -> FileT]
    BY DEF TInv, Types, DiskTypes
<1>2. PICK f \in FileT : f = file[i]
    BY <1>1
<1>3. PICK d \in Seq(Txns \X (1..TxnSize)) : d = f.data
    BY FileFields
<1>4. PICK a : a = Append(d, e)
    OBVIOUS
<1>5. /\ a \in Seq(Txns \X (1..TxnSize)) /\ Len(a) = Len(d) + 1 /\ Len(d) \in Nat
      /\ a[Len(d) + 1] = e
      /\ \A k \in 1..Len(d) : a[k] = d[k]
    BY <1>3, <1>4
<1>6. PICK g : g = [f EXCEPT !.data = a]
    OBVIOUS
<1>7. g \in FileT /\ g.seq = f.seq /\ g.prevSeq = f.prevSeq /\ g.prevOff = f.prevOff /\ g.data = a
    BY <1>5, <1>6 DEF FileT
<1>8. file' = [file EXCEPT ![i] = g]
    BY <1>2, <1>3, <1>4, <1>6
<1>9. file' \in [Inodes -> FileT]
    BY <1>1, <1>7, <1>8
<1>10. \A j \in Inodes : file'[j] = IF j = i THEN g ELSE file[j]
    BY <1>1, <1>8
<1>11. count.txns \in Nat /\ count'.txns \in Nat /\ Written \in Nat /\ Written' \in Nat /\ Written <= Written'
    BY DEF TInv, Types, GhostTypes, CountT, Written, TxnSize
<1>12. ASSUME NEW j \in Inodes, NEW k \in 1..Len(file'[j].data)
       PROVE  \/ k \in 1..Len(file[j].data) /\ file'[j].data[k] = file[j].data[k]
              \/ file'[j].data[k] = e
    <2>1. CASE j = i
        <3>1. file'[j].data = a /\ file[j].data = d
            BY <2>1, <1>2, <1>3, <1>7, <1>10
        <3>2. k \in 1..(Len(d) + 1)
            BY <3>1, <1>5
        <3>. QED BY <3>1, <3>2, <1>5
    <2>2. CASE j # i
        BY <2>2, <1>10
    <2>. QED BY <2>1, <2>2
<1>13. ASSUME NEW j \in Inodes PROVE FileOK(j)'
    <2>0. FileOK(j) /\ file[j].prevOff \in Nat
        BY FileOf DEF TInv, Types
    <2>1. /\ file'[j].seq = file[j].seq /\ file'[j].prevSeq = file[j].prevSeq
          /\ file'[j].prevOff = file[j].prevOff
        BY <1>2, <1>7, <1>10
    <2>2. ASSUME NEW k \in 1..Len(file'[j].data) PROVE file'[j].data[k][1] <= count'.txns
        <3>1. CASE k \in 1..Len(file[j].data) /\ file'[j].data[k] = file[j].data[k]
            <4>1. file[j].data[k][1] <= count.txns
                BY <3>1, <2>0 DEF FileOK
            <4>2. file[j].data[k][1] \in Int
                <5>. HIDE DEF Appends
                <5>1. file[j].data \in Seq(Txns \X (1..TxnSize))
                    BY FileOf DEF TInv, Types
                <5>2. PICK x \in Seq(Txns \X (1..TxnSize)) : x = file[j].data
                    BY <5>1
                <5>0. k \in 1..Len(x)
                    BY <5>2, <3>1
                <5>3. x[k] \in Txns \X (1..TxnSize)
                    BY <5>0
                <5>4. x[k][1] \in Txns
                    BY <5>3
                <5>5. PICK n \in Txns : n = x[k][1]
                    BY <5>4
                <5>6. n \in Int
                    BY DEF Txns
                <5>. QED BY <5>2, <5>5, <5>6
            <4>3. count.txns <= count'.txns
                OBVIOUS
            <4>. HIDE DEF Appends
            <4>4. PICK n \in Int : n = file[j].data[k][1]
                BY <4>2
            <4>5. n <= count'.txns
                BY <4>1, <4>3, <4>4, <1>11
            <4>. QED BY <3>1, <4>4, <4>5
        <3>2. CASE file'[j].data[k] = e
            BY <3>2
        <3>. QED BY <3>1, <3>2, <1>12
    <2>3. ASSUME NEW k \in 1..Len(file'[j].data), NEW l \in 1..Len(file'[j].data),
                 file'[j].data[k] = file'[j].data[l]
          PROVE  k = l
        <3>1. CASE j = i
            <4>1. file'[j].data = a /\ file[j].data = d
                BY <3>1, <1>2, <1>3, <1>7, <1>10
            <4>2. k \in 1..(Len(d) + 1) /\ l \in 1..(Len(d) + 1) /\ a[k] = a[l]
                BY <4>1, <1>5, <2>3
            <4>3. \A x \in 1..Len(d) : a[x] # e
                BY <4>1, <1>5, <3>1
            <4>. HIDE DEF Appends
            <4>4. \A x, y \in 1..Len(file[j].data) : file[j].data[x] = file[j].data[y] => x = y
                BY <2>0 DEF FileOK
            <4>5. \A x, y \in 1..Len(d) : d[x] = d[y] => x = y
                BY <4>1, <4>4
            <4>6. \A x, y \in 1..Len(d) : a[x] = a[y] => x = y
                BY <4>5, <1>5
            <4>7. PICK n \in Nat : n = Len(d)
                BY <1>5
            <4>8. /\ k \in 1..(n + 1) /\ l \in 1..(n + 1) /\ a[k] = a[l] /\ a[n + 1] = e
                  /\ \A x \in 1..n : a[x] # e
                  /\ \A x, y \in 1..n : a[x] = a[y] => x = y
                BY <4>2, <4>3, <4>6, <4>7, <1>5
            <4>9. (k \in 1..n \/ k = n + 1) /\ (l \in 1..n \/ l = n + 1)
                BY <4>8
            <4>10. CASE k = n + 1 /\ l = n + 1
                BY <4>10
            <4>11. CASE k \in 1..n /\ l \in 1..n
                BY <4>8, <4>11
            <4>12. CASE k \in 1..n /\ l = n + 1
                BY <4>8, <4>12
            <4>13. CASE k = n + 1 /\ l \in 1..n
                BY <4>8, <4>13
            <4>. QED BY <4>9, <4>10, <4>11, <4>12, <4>13
        <3>2. CASE j # i
            BY <3>2, <1>10, <2>0, <2>3 DEF FileOK
        <3>. QED BY <3>1, <3>2
    <2>4. nfile' = nfile
        OBVIOUS
    <2>. HIDE DEF Appends
    <2>5. file'[j].prevOff <= Written'
        BY <2>0, <2>1, <1>11 DEF FileOK
    <2>. QED BY <2>0, <2>1, <2>2, <2>3, <2>4, <2>5 DEF FileOK
<1>14. \A j \in 1..nfile : file'[j].seq = file[j].seq
    <2>1. \A j \in 1..nfile : j \in Inodes
        BY Allocated DEF TInv, Types
    <2>. QED BY <2>1, <1>2, <1>7, <1>10
<1>15. nfile \in Nat
    BY InodesNat DEF TInv, Types, DiskTypes
<1>16. \A j \in Inodes : \A k \in 1..Len(file'[j].data) :
          \/ k <= Len(file[j].data) /\ file'[j].data[k] = file[j].data[k]
          \/ file'[j].data[k] = <<count'.txns, 1>>
          \/ pc[p] = "write2" /\ file'[j].data[k] = <<view[p].txn, 2>>
    <2>1. \A j \in Inodes : Len(file[j].data) \in Nat
        BY FileOf DEF TInv, Types
    <2>. QED BY <1>12, <2>1
<1>17. FilesStep(p)
    BY <1>11, <1>13, <1>14, <1>15, <1>16 DEF FilesStep
<1>. QED BY <1>9, <1>12, <1>17 DEF OldOrNew

(* The first half of a new transaction is written. *)
LEMMA WritePartOK == ASSUME TInv, NEW p \in Procs, WritePart(p) PROVE TInv'
<1>. USE DEF WritePart, Goto
<1>1. pc[p] \in {"write", "synced"} /\ head[p] \in 1..nfile /\ head[p] \in Inodes
    BY HeadOK DEF NoLogPlaces
<1>2. PICK t \in Nat : t = count.txns + 1
    BY DEF TInv, Types, GhostTypes, CountT
<1>3. count' \in CountT /\ count'.txns = t /\ t \in Txns /\ count.txns \in Nat /\ count.txns < t
    <2>1. count.txns \in 0..MaxTxns /\ MaxTxns \in Nat /\ count \in CountT
        BY LogAssumption DEF TInv, Types, GhostTypes, CountT
    <2>2. t \in 0..MaxTxns /\ t \in Txns /\ count.txns < t
        BY <1>2, <2>1 DEF Txns
    <2>3. count' = [count EXCEPT !.txns = t]
        BY <1>2
    <2>. QED BY <2>1, <2>2, <2>3 DEF CountT
<1>4. PICK e : e = <<t, 1>>
    OBVIOUS
<1>5. e \in Txns \X (1..TxnSize) /\ e[1] = t
    BY <1>3, <1>4 DEF TxnSize
<1>6. file' = [file EXCEPT ![head[p]].data = Append(@, e)]
    BY <1>3, <1>4
<1>7. \A i \in Inodes : \A k \in 1..Len(file[i].data) : file[i].data[k][1] <= count.txns
    BY DEF TInv, FileOK
<1>8. \A k \in 1..Len(file[head[p]].data) : file[head[p]].data[k] # e
    <2>. HIDE DEF WritePart
    <2>1. \A k \in 1..Len(file[head[p]].data) : file[head[p]].data[k][1] <= count.txns
        BY <1>1, <1>7
    <2>2. ~(e[1] <= count.txns)
        BY <1>3, <1>5
    <2>. QED BY <2>1, <2>2
<1>9. pc'[p] = "write2" /\ UNCHANGED <<nfile, index, head, new, files, sync, map, idx>>
    BY DEF TInv, Types, MemTypes
<1>10. PICK w : w = [view[p] EXCEPT !.txn = t]
    OBVIOUS
<1>11. w \in ViewT /\ w.txn = t
    <2>1. PICK v \in ViewT : v = view[p]
        BY DEF TInv, Types, MemTypes
    <2>2. w = [v EXCEPT !.txn = t]
        BY <2>1, <1>10
    <2>. QED BY <2>2 DEF ViewT
<1>12. view' = [view EXCEPT ![p] = w] /\ view'[p] = w
    BY <1>3, <1>10 DEF TInv, Types, MemTypes
<1>13. file' \in [Inodes -> FileT] /\ FilesStep(p) /\ OldOrNew(e)
    <2>1. e[1] <= count'.txns /\ count.txns <= count'.txns /\ e = <<count'.txns, 1>>
        BY <1>3, <1>4, <1>5
    <2>2. pc'[p] = "write2" => view'[p].txn > count.txns
        BY <1>3, <1>11, <1>12
    <2>. HIDE DEF WritePart
    <2>3. Appends(p, head[p], e)
        BY <1>3, <1>6, <1>8, <1>9, <2>1, <2>2 DEF Appends
    <2>. QED BY <1>1, <1>5, <2>3, Appended
<1>14. Types'
    <2>1. pc' \in [Procs -> Places]
        BY DEF TInv, Types, MemTypes, Places
    <2>2. view' \in [Procs -> ViewT]
        BY <1>11, <1>12 DEF TInv, Types, MemTypes
    <2>3. UNCHANGED <<nfile, path, path2, index, lock, newlock,
                      op, head, new, locked, bad, files, sync, map, idx, history, seen>>
        OBVIOUS
    <2>. HIDE DEF WritePart
    <2>. QED BY <1>3, <1>13, <2>1, <2>2, <2>3 DEF TInv, Types, DiskTypes, MemTypes, GhostTypes
<1>15. OthersStay(p)
    BY <1>12 DEF TInv, Types, MemTypes, OthersStay
<1>16. Written \in Nat /\ Written' = Written + TxnSize
    BY <1>2, <1>3 DEF Written, TxnSize
<1>17. PosOK(map[p])' /\ PosOK(idx[p])' /\ PosOK(index)'
    <2>1. map[p].off \in Nat /\ idx[p].off \in Nat /\ index.off \in Nat
        BY MapOf DEF TInv, Types, MemTypes, DiskTypes
    <2>2. PosOK(map[p]) /\ PosOK(idx[p]) /\ PosOK(index)
        BY DEF TInv, ProcOK
    <2>. QED BY <1>9, <1>16, <2>1, <2>2 DEF PosOK, TxnSize
<1>18. HandlesOK(p)'
    BY <1>1, <1>9 DEF TInv, ProcOK, HandlesOK, NoLogPlaces, Rotating
<1>19. SyncOK(p)'
    BY <1>9, <1>16, SyncBound DEF SyncOK, TxnSize
<1>20. TxnOK(p)'
    <2>1. view'[p].txn = t /\ t \in 1..count'.txns
        BY <1>2, <1>3, <1>11, <1>12
    <2>2. ASSUME NEW i \in Inodes, NEW k \in 1..Len(file'[i].data)
          PROVE  file'[i].data[k] # <<t, 2>>
        <3>1. CASE k \in 1..Len(file[i].data) /\ file'[i].data[k] = file[i].data[k]
            <4>1. file[i].data[k][1] <= count.txns
                BY <3>1, <1>7
            <4>. QED BY <3>1, <4>1, <1>3
        <3>2. CASE file'[i].data[k] = e
            BY <3>2, <1>4
        <3>. QED BY <3>1, <3>2, <1>13 DEF OldOrNew
    <2>3. ASSUME NEW q \in Procs, pc'[q] = "write2", view'[q].txn = t PROVE q = p
        <3>. SUFFICES ASSUME q # p PROVE FALSE
            OBVIOUS
        <3>1. pc[q] = "write2" /\ view[q].txn = t
            BY <2>3, <1>15 DEF OthersStay
        <3>2. t \in 1..count.txns
            BY <3>1 DEF TInv, ProcOK, TxnOK
        <3>. QED BY <3>2, <1>3
    <2>. QED BY <2>1, <2>2, <2>3 DEF TxnOK
<1>21. ProcOK(p)'
    BY <1>9, <1>17, <1>18, <1>19, <1>20 DEF ProcOK, FindingOK
<1>. QED BY <1>13, <1>14, <1>15, <1>17, <1>21, StepOK

(* The second half is written, and is in no file yet. *)
LEMMA WriteRestOK == ASSUME TInv, NEW p \in Procs, WriteRest(p) PROVE TInv'
<1>. USE DEF WriteRest, Goto
<1>1. pc[p] = "write2" /\ head[p] \in 1..nfile /\ head[p] \in Inodes
    BY HeadOK DEF NoLogPlaces
<1>2. PICK t \in Nat : t = view[p].txn
    BY ViewOf DEF TInv, Types, MemTypes
<1>3. /\ t \in 1..count.txns /\ count.txns \in 0..MaxTxns /\ MaxTxns \in Nat /\ count \in CountT
      /\ \A i \in Inodes : \A k \in 1..Len(file[i].data) : file[i].data[k] # <<t, 2>>
    BY <1>1, <1>2, LogAssumption DEF TInv, Types, GhostTypes, CountT, ProcOK, TxnOK
<1>4. t \in Txns /\ t <= count.txns
    BY <1>3 DEF Txns
<1>5. PICK e : e = <<t, 2>>
    OBVIOUS
<1>6. e \in Txns \X (1..TxnSize) /\ e[1] = t
    BY <1>4, <1>5 DEF TxnSize
<1>7. file' = [file EXCEPT ![head[p]].data = Append(@, e)]
    BY <1>2, <1>5
<1>8. pc'[p] = "fsync" /\ UNCHANGED <<nfile, index, head, new, files, sync, map, idx, count>>
    BY DEF TInv, Types, MemTypes
<1>9. file' \in [Inodes -> FileT] /\ FilesStep(p)
    <2>1. e[1] <= count'.txns /\ count.txns <= count'.txns /\ count' \in CountT
        BY <1>3, <1>4, <1>6, <1>8
    <2>2. \A k \in 1..Len(file[head[p]].data) : file[head[p]].data[k] # e
        BY <1>1, <1>3, <1>5
    <2>3. pc[p] = "write2" /\ e = <<view[p].txn, 2>>
        BY <1>1, <1>2, <1>5
    <2>. HIDE DEF WriteRest
    <2>4. Appends(p, head[p], e)
        BY <1>7, <1>8, <2>1, <2>2, <2>3 DEF Appends
    <2>. QED BY <1>1, <1>6, <2>4, Appended
<1>10. history' \in Seq(Txns \cup {Reset})
    <2>1. PICK h \in Seq(Txns \cup {Reset}) : h = history
        BY DEF TInv, Types, GhostTypes
    <2>2. Append(h, t) \in Seq(Txns \cup {Reset})
        BY <1>4
    <2>. QED BY <2>1, <2>2, <1>2
<1>11. Types'
    <2>1. pc' \in [Procs -> Places]
        BY DEF TInv, Types, MemTypes, Places
    <2>2. view' \in [Procs -> ViewT]
        BY NoTypes DEF TInv, Types, MemTypes
    <2>3. UNCHANGED <<nfile, path, path2, index, lock, newlock,
                      op, head, new, locked, bad, files, sync, map, idx, seen, count>>
        OBVIOUS
    <2>. HIDE DEF WriteRest
    <2>. QED BY <1>9, <1>10, <2>1, <2>2, <2>3 DEF TInv, Types, DiskTypes, MemTypes, GhostTypes
<1>12. OthersStay(p)
    BY DEF TInv, Types, MemTypes, OthersStay
<1>13. HandlesOK(p)'
    BY <1>1, <1>8 DEF TInv, ProcOK, HandlesOK, NoLogPlaces, Rotating
<1>14. SyncOK(p)'
    BY <1>1, <1>8 DEF TInv, ProcOK, SyncOK, Written
<1>15. ProcOK(p)'
    BY <1>8, <1>13, <1>14, PosStays DEF ProcOK, FindingOK, TxnOK
<1>. QED BY <1>8, <1>9, <1>11, <1>12, <1>15, PosStays, StepOK

(* Some number of a non-empty set is the least. *)
LEMMA MinNat ==
    ASSUME NEW S, S \subseteq Nat, S # {}
    PROVE  Min(S) \in S
<1>1. PICK x \in S : \A y \in S : ~ (<<y, x>> \in OpToRel(<, Nat))
    BY WFMin, NatLessThanWellFounded
<1>2. \A y \in S : ~(y < x)
    BY <1>1 DEF OpToRel
<1>3. \E z \in S : \A y \in S : z =< y
    BY <1>2
<1>. QED BY <1>3 DEF Min

(* The file that is mapped next is one of the list. *)
LEMMA MappedFile ==
    ASSUME TInv, NEW p \in Procs, pc[p] = "mapf"
    PROVE  /\ Found(p)[view[p].todo] \in files[p]
           /\ Found(p)[view[p].todo] \in Inodes
           /\ view[p].todo \in Nat /\ view[p].todo # 0
           /\ file[Found(p)[view[p].todo]].seq = view[p].tail + view[p].todo - 1
<1>1. head[p] \in 1..nfile
    BY HeadOK DEF NoLogPlaces
<1>2. /\ view[p].tail # 0
      /\ view[p].todo \in 1..Cardinality(files[p])
      /\ \A s \in 1..view[p].todo : \E i \in files[p] : file[i].seq = view[p].tail + s - 1
    BY DEF TInv, ProcOK, FindingOK
<1>3. ViewRange(p) = view[p]
    BY <1>1, <1>2, RangeOK
<1>4. files[p] \subseteq Inodes
    BY DEF TInv, Types, MemTypes
<1>5. Cardinality(files[p]) \in Nat
    BY <1>4, ListFinite
<1>6. PICK n \in Nat : n = view[p].todo /\ n \in 0..Cardinality(files[p]) /\ n # 0
    BY <1>2, <1>5
<1>7. PICK f : f = FoundIn(p, files[p])
    OBVIOUS
<1>8. /\ Len(f) \in 0..Cardinality(files[p])
      /\ \A s \in 1..Len(f) : f[s] \in files[p] /\ file[f[s]].seq = ViewRange(p).tail + s - 1
      /\ \A k \in 0..Cardinality(files[p]) :
            (\A s \in 1..k : \E i \in files[p] : file[i].seq = ViewRange(p).tail + s - 1)
                => k <= Len(f)
    BY <1>4, <1>7, FoundInList
<1>9. n <= Len(f)
    BY <1>2, <1>3, <1>6, <1>8
<1>10. n \in 1..Len(f)
    BY <1>5, <1>6, <1>8, <1>9
<1>. QED BY <1>3, <1>4, <1>6, <1>7, <1>8, <1>10 DEF Found

(* A file does not fit the next one and is marked corrupted. *)
LEMMA MapFileFailOK == ASSUME TInv, NEW p \in Procs, MapFileFail(p) PROVE TInv'
<1>. USE DEF MapFileFail, Goto, ghostVars
<1>1. pc[p] = "mapf" /\ head[p] \in 1..nfile /\ head[p] \in Inodes
    BY HeadOK DEF NoLogPlaces
<1>2. PICK i \in Inodes : i = Found(p)[view[p].todo]
    BY <1>1, MappedFile
<1>3. Shrinks
    <2>1. file' = file \/ file' = [file EXCEPT ![i].ok = FALSE]
        BY <1>2
    <2>2. nfile' = nfile /\ count' = count
        OBVIOUS
    <2>. HIDE DEF MapFileFail
    <2>. QED BY <2>1, <2>2, Uncut, Marked
<1>4. bad' \in [Procs -> BOOLEAN]
    <2>1. PICK b \in BOOLEAN : b = (bad[p] \/ i = head[p])
        BY DEF TInv, Types, MemTypes
    <2>2. bad' = [bad EXCEPT ![p] = b]
        BY <1>2, <2>1
    <2>. HIDE DEF MapFileFail
    <2>. QED BY <2>2 DEF TInv, Types, MemTypes
<1>5. /\ files' = [files EXCEPT ![p] = {head[p]}] /\ pc' = [pc EXCEPT ![p] = "lost"]
      /\ UNCHANGED <<nfile, path, path2, index, lock, newlock,
                     op, head, new, locked, sync, map, idx, view, ghostVars>>
    OBVIOUS
<1>. HIDE DEF MapFileFail
<1>6. Types'
    BY <1>1, <1>3, <1>4, <1>5 DEF TInv, Types, DiskTypes, MemTypes, GhostTypes, Places, Shrinks
<1>7. OthersStay(p)
    BY <1>5 DEF TInv, Types, MemTypes, OthersStay
<1>8. pc'[p] = "lost" /\ files'[p] = {head[p]} /\ count' = count
    BY <1>5 DEF TInv, Types, MemTypes
<1>9. HandlesOK(p)'
    BY <1>1, <1>5, <1>8 DEF TInv, ProcOK, HandlesOK, NoLogPlaces, Rotating
<1>10. ProcOK(p)'
    BY <1>5, <1>6, <1>8, <1>9, PosStays, SyncBound, ProcNext DEF Types
<1>11. FilesStep(p)
    BY <1>3, <1>8, ShrinksOK
<1>. QED BY <1>5, <1>6, <1>7, <1>8, <1>10, <1>11, PosStays, StepOK

(* What the search for the files of a range leaves behind, whether it is   *)
(* over or goes on.                                                        *)
Searched(p, list) ==
    /\ view' \in [Procs -> ViewT]
    /\ \A q \in Procs : q # p => view'[q] = view[q] /\ files'[q] = files[q] /\ pc'[q] = pc[q]
    /\ pc' \in [Procs -> Places]
    /\ files' \in [Procs -> SUBSET Inodes]
    /\ files'[p] \subseteq list /\ head[p] \in files'[p]
    /\ pc'[p] \in {"view", "mapf", "lost"}
    /\ pc'[p] = "view" => view'[p].tail # 0
    /\ pc'[p] = "lost" => files'[p] = {head[p]}
    /\ pc'[p] = "mapf" =>
         /\ view'[p].tail # 0
         /\ view'[p].todo \in 1..Cardinality(files'[p])
         /\ \A s \in 1..view'[p].todo :
               \E i \in files'[p] : file[i].seq = view'[p].tail + s - 1

(* No file continues the range: it is complete, skips to a reset, or is     *)
(* lost.                                                                    *)
LEMMA NotFoundOK ==
    ASSUME TInv, NEW p \in Procs, Finding(p), NEW list, list \subseteq 1..nfile,
           head[p] \in list, NotFound(p, list)
    PROVE  Searched(p, list)
<1>1. pc[p] = "view" /\ head[p] \in 1..nfile
    BY HeadOK DEF Finding, NoLogPlaces
<1>2. PICK w \in ViewT : w = ViewRange(p) /\ w.tail # 0
    BY <1>1, RangeOK DEF Finding
<1>3. list \in SUBSET Inodes /\ list \subseteq Inodes
    BY Allocated DEF TInv, Types
<1>4. Cardinality(list) \in Nat
    BY <1>3, ListFinite
<1>5. PICK f : f = FoundIn(p, list)
    OBVIOUS
<1>6. /\ Len(f) \in 0..Cardinality(list)
      /\ \A s \in 1..Len(f) : f[s] \in list /\ file[f[s]].seq = w.tail + s - 1
      /\ f \in Seq(list)
    BY <1>2, <1>3, <1>5, FoundInList
<1>7. PICK n \in Nat : n = Len(f) /\ n <= Cardinality(list)
    BY <1>4, <1>6
<1>. DEFINE R == {file[i].seq : i \in {j \in list : /\ file[j].seq >= Wanted(p)
                                                    /\ file[j].prevSeq = 0}}
<1>8. \/ /\ f # <<>> /\ Goto(p, "mapf")
         /\ view' = [view EXCEPT ![p] = [w EXCEPT !.todo = n]]
         /\ files' = [files EXCEPT ![p] = list]
      \/ /\ R # {} /\ pc' = pc
         /\ view' = [view EXCEPT ![p] = [w EXCEPT !.tail = Min(R)]]
         /\ files' = [files EXCEPT ![p] = list]
      \/ /\ Goto(p, "lost") /\ view' = view
         /\ files' = [files EXCEPT ![p] = {head[p]}]
    BY <1>2, <1>5, <1>7 DEF NotFound
<1>9. CASE /\ f # <<>> /\ Goto(p, "mapf")
           /\ view' = [view EXCEPT ![p] = [w EXCEPT !.todo = n]]
           /\ files' = [files EXCEPT ![p] = list]
    <2>1. n # 0
        BY <1>6, <1>7, <1>9
    <2>2. PICK v : v = [w EXCEPT !.todo = n]
        OBVIOUS
    <2>3. v \in ViewT /\ v.tail = w.tail /\ v.todo = n
        BY <2>2 DEF ViewT
    <2>4. view' = [view EXCEPT ![p] = v]
        BY <1>9, <2>2
    <2>5. /\ pc' = [pc EXCEPT ![p] = "mapf"] /\ files' = [files EXCEPT ![p] = list]
          /\ pc' \in [Procs -> Places]
        BY <1>9 DEF Goto, TInv, Types, MemTypes, Places
    <2>6. view'[p] = v /\ files'[p] = list
        BY <2>4, <2>5 DEF TInv, Types, MemTypes
    <2>7. /\ view'[p].tail # 0
          /\ view'[p].todo \in 1..Cardinality(files'[p])
          /\ \A s \in 1..view'[p].todo :
                \E i \in files'[p] : file[i].seq = view'[p].tail + s - 1
        <3>1. view'[p].tail = w.tail /\ view'[p].todo = n /\ files'[p] = list
            BY <2>3, <2>6
        <3>2. n \in 1..Cardinality(list)
            BY <2>1, <1>4, <1>7
        <3>3. \A s \in 1..n : \E i \in list : file[i].seq = w.tail + s - 1
            <4>. SUFFICES ASSUME NEW s \in 1..n
                         PROVE  \E i \in list : file[i].seq = w.tail + s - 1
                OBVIOUS
            <4>1. f[s] \in list /\ file[f[s]].seq = w.tail + s - 1
                BY <1>6, <1>7
            <4>. QED BY <4>1
        <3>. QED BY <3>1, <3>2, <3>3, <1>2
    <2>. QED BY <2>3, <2>4, <2>5, <2>7, <1>3 DEF Searched, TInv, Types, MemTypes
<1>10. CASE /\ R # {} /\ pc' = pc
            /\ view' = [view EXCEPT ![p] = [w EXCEPT !.tail = Min(R)]]
            /\ files' = [files EXCEPT ![p] = list]
    <2>1. R \subseteq Nat /\ 0 \notin R
        <3>1. \A i \in list : file[i].seq \in Nat
            BY <1>3, FileOf DEF TInv, Types
        <3>2. \A i \in list : FileOK(i) /\ i <= nfile
            BY <1>3 DEF TInv
        <3>. QED BY <3>1, <3>2 DEF FileOK
    <2>2. PICK t \in Nat : t = Min(R) /\ t # 0
        <3>. HIDE DEF R
        <3>. QED BY <1>10, <2>1, MinNat
    <2>3. PICK v : v = [w EXCEPT !.tail = t]
        OBVIOUS
    <2>4. v \in ViewT /\ v.tail # 0
        BY <2>2, <2>3 DEF ViewT
    <2>5. view' = [view EXCEPT ![p] = v]
        BY <1>10, <2>2, <2>3
    <2>6. pc' = pc /\ files' = [files EXCEPT ![p] = list]
        BY <1>10
    <2>. HIDE DEF R
    <2>. QED BY <2>4, <2>5, <2>6, <1>1, <1>3 DEF Searched, TInv, Types, MemTypes
<1>11. CASE /\ Goto(p, "lost") /\ view' = view
            /\ files' = [files EXCEPT ![p] = {head[p]}]
    <2>1. {head[p]} \in SUBSET Inodes /\ {head[p]} \subseteq list
        BY <1>3
    <2>2. pc' = [pc EXCEPT ![p] = "lost"] /\ pc' \in [Procs -> Places]
        BY <1>11 DEF Goto, TInv, Types, MemTypes, Places
    <2>. HIDE DEF R
    <2>. QED BY <2>1, <2>2, <1>11 DEF Searched, TInv, Types, MemTypes
<1>. HIDE DEF R
<1>. QED BY <1>8, <1>9, <1>10, <1>11

(* The rest of a step that searches. *)
LEMMA SearchedOK ==
    ASSUME TInv, NEW p \in Procs, Finding(p), NEW list, list \subseteq 1..nfile, Searched(p, list),
           path2' \in 0..nfile, lock' \in [Inodes -> Procs \cup {NoProc}],
           UNCHANGED <<file, nfile, path, index, newlock,
                       op, head, new, locked, bad, sync, map, idx, ghostVars>>
    PROVE  TInv'
<1>. USE DEF ghostVars
<1>1. pc[p] = "view" /\ head[p] \in 1..nfile
    BY HeadOK DEF Finding, NoLogPlaces
<1>2. Types'
    BY DEF TInv, Types, DiskTypes, MemTypes, GhostTypes, Searched
<1>3. OthersStay(p) /\ FilesStay
    BY DEF Searched, OthersStay, FilesStay
<1>4. HandlesOK(p)'
    BY <1>1 DEF TInv, ProcOK, HandlesOK, NoLogPlaces, Rotating, Searched
<1>5. FindingOK(p)' /\ TxnOK(p)'
    BY DEF Searched, FindingOK, TxnOK
<1>6. SyncOK(p)'
    <2>1. \A i \in Inodes : sync[p][i] \in Nat /\ sync[p][i] <= Written
        BY SyncBound
    <2>. QED BY <2>1, PosStays DEF SyncOK, Searched
<1>7. ProcOK(p)'
    BY <1>4, <1>5, <1>6, PosStays DEF ProcOK
<1>8. pc'[p] # "write2"
    BY DEF Searched
<1>. QED BY <1>2, <1>3, <1>7, <1>8, PosStays, QuietOK

(* The files found are all there are. *)
LEMMA FindEndOK == ASSUME TInv, NEW p \in Procs, FindEnd(p) PROVE TInv'
<1>1. /\ Finding(p) /\ NotFound(p, files[p])
      /\ UNCHANGED <<diskVars, op, head, new, locked, bad, sync, map, idx, ghostVars>>
    BY DEF FindEnd
<1>2. files[p] \subseteq 1..nfile /\ head[p] \in files[p]
    BY <1>1, HeadOK DEF TInv, ProcOK, HandlesOK, Finding, NoLogPlaces
<1>3. Searched(p, files[p])
    BY <1>1, <1>2, NotFoundOK
<1>4. path2' \in 0..nfile /\ lock' \in [Inodes -> Procs \cup {NoProc}]
    BY <1>1 DEF diskVars, TInv, Types, DiskTypes
<1>. QED BY <1>1, <1>2, <1>3, <1>4, SearchedOK DEF diskVars

(* The predecessor of the head is looked for under .log.2. *)
LEMMA FindOldOK == ASSUME TInv, NEW p \in Procs, FindOld(p) PROVE TInv'
<1>. DEFINE reset == \E i \in files[p] : file[i].seq > Wanted(p) /\ file[i].prevSeq = 0
            opens == ~reset /\ path2 # 0
            dupe == opens /\ path2 \in files[p]
            broken == opens /\ ~dupe /\ ~Usable(p, path2)
            list == files[p] \cup (IF opens /\ ~dupe /\ ~broken THEN {path2} ELSE {})
<1>1. /\ Finding(p)
      /\ path2' = IF broken THEN 0 ELSE path2
      /\ lock' = IF dupe /\ LockMethod = "fcntl" THEN FreeLock(p, path2) ELSE lock
      /\ UNCHANGED <<file, nfile, path, index, newlock,
                     op, head, new, locked, bad, sync, map, idx, ghostVars>>
    BY DEF FindOld
<1>2. \/ /\ files' = [files EXCEPT ![p] = list]
         /\ view' = [view EXCEPT ![p] = ViewRange(p)]
         /\ UNCHANGED pc
      \/ NotFound(p, list)
    BY DEF FindOld
<1>3. pc[p] = "view" /\ files[p] \subseteq 1..nfile /\ head[p] \in files[p] /\ head[p] \in 1..nfile
    BY <1>1, HeadOK DEF TInv, ProcOK, HandlesOK, Finding, NoLogPlaces
<1>4. path2 \in 0..nfile /\ nfile \in Nat
    BY InodesNat DEF TInv, Types, DiskTypes
<1>5. list \subseteq 1..nfile /\ head[p] \in list
    BY <1>3, <1>4
<1>6. path2' \in 0..nfile
    BY <1>1, <1>4
<1>7. lock' \in [Inodes -> Procs \cup {NoProc}]
    BY <1>1 DEF FreeLock, TInv, Types, DiskTypes
<1>. HIDE DEF list, reset, opens, dupe, broken
<1>8. CASE NotFound(p, list)
    BY <1>1, <1>5, <1>6, <1>7, <1>8, NotFoundOK, SearchedOK
<1>9. CASE /\ files' = [files EXCEPT ![p] = list]
           /\ view' = [view EXCEPT ![p] = ViewRange(p)]
           /\ UNCHANGED pc
    <2>1. PICK w \in ViewT : w = ViewRange(p) /\ w.tail # 0
        BY <1>1, <1>3, RangeOK DEF Finding
    <2>2. list \in SUBSET Inodes
        BY <1>5, Allocated DEF TInv, Types
    <2>3. Searched(p, list)
        BY <2>1, <2>2, <1>3, <1>5, <1>9 DEF Searched, TInv, Types, MemTypes
    <2>. QED BY <2>3, <1>1, <1>5, <1>6, <1>7, SearchedOK
<1>. QED BY <1>2, <1>8, <1>9

(* What reading file i gets. *)
LEMMA GotType ==
    ASSUME TInv, NEW p \in Procs, NEW i \in Inodes, NEW from \in Nat, from <= Complete(i)
    PROVE  TxnsOf(i, from, Complete(i)) \o view[p].got \in Seq(Txns)
<1>1. Complete(i) \in Nat /\ Complete(i) <= Size(i)
    BY CompleteOK
<1>2. PICK a \in Seq(Txns) : a = TxnsOf(i, from, Complete(i))
    BY <1>1, TxnsType
<1>3. PICK b \in Seq(Txns) : b = view[p].got
    BY ViewOf DEF TInv, Types, MemTypes
<1>. QED BY <1>2, <1>3

(* The map has reached the end of the head. *)
LEMMA MapDoneOK ==
    ASSUME TInv, NEW p \in Procs, pc[p] = "mapf",
           NEW off \in Nat, off <= Written, NEW contents \in Seq(Txns),
           MapDone(p, off, contents),
           UNCHANGED <<diskVars, head, new, locked, bad, idx, history, gap, loss, count>>
    PROVE  TInv'
<1>1. head[p] \in 1..nfile /\ head[p] \in Inodes
    BY HeadOK DEF NoLogPlaces
<1>2. PICK s \in Nat : s = file[head[p]].seq /\ s # 0
    <2>1. file[head[p]].seq \in Nat /\ FileOK(head[p]) /\ head[p] <= nfile
        BY <1>1, FileOf, Allocated DEF TInv, Types
    <2>. QED BY <2>1 DEF FileOK
<1>3. PICK m : m = [seq |-> s, off |-> off, hist |-> contents]
    OBVIOUS
<1>4. m \in MapT /\ m.off = off /\ m.seq = s
    BY <1>3 DEF MapT
<1>5. map' = [map EXCEPT ![p] = m] /\ map' \in [Procs -> MapT] /\ map'[p] = m
    <2>1. map' = [map EXCEPT ![p] = m]
        BY <1>2, <1>3 DEF MapDone
    <2>. QED BY <2>1, <1>4 DEF TInv, Types, MemTypes
<1>6. PICK place \in {"idle", "synced", "rot1", "write"} : pc' = [pc EXCEPT ![p] = place]
    <2>1. PICK place : place = CASE op[p] = "read" -> "idle"
                                 [] op[p] = "sync" -> "synced"
                                 [] op[p] = "reset" -> "rot1"
                                 [] OTHER -> "write"
        OBVIOUS
    <2>2. place \in {"idle", "synced", "rot1", "write"}
        BY <2>1
    <2>3. pc' = [pc EXCEPT ![p] = place]
        BY <2>1 DEF MapDone, Goto
    <2>. QED BY <2>2, <2>3
<1>7. /\ sync' = Only(p, head[p], off)
      /\ view' = [view EXCEPT ![p] = NoView]
      /\ files' = [files EXCEPT ![p] = {head[p]}]
      /\ seen' = [seen EXCEPT ![p] = contents]
      /\ op' = op \/ op' = [op EXCEPT ![p] = "none"]
    BY DEF MapDone
<1>8. /\ sync' \in [Procs -> [Inodes -> Nat]]
      /\ \A q \in Procs : q # p => sync'[q] = sync[q]
      /\ \A j \in Inodes : sync'[p][j] = IF j = head[p] THEN off ELSE 0
    BY <1>7, OnlyType
<1>9. Types'
    <2>1. pc' \in [Procs -> Places]
        BY <1>6 DEF TInv, Types, MemTypes, Places
    <2>2. op' \in [Procs -> Ops]
        BY <1>7 DEF TInv, Types, MemTypes, Ops
    <2>3. view' \in [Procs -> ViewT] /\ files' \in [Procs -> SUBSET Inodes]
        BY <1>1, <1>7, NoTypes DEF TInv, Types, MemTypes
    <2>4. seen' \in [Procs -> Seq(Txns)]
        BY <1>7 DEF TInv, Types, GhostTypes
    <2>. QED BY <2>1, <2>2, <2>3, <2>4, <1>5, <1>8
             DEF TInv, Types, DiskTypes, MemTypes, GhostTypes, diskVars
<1>10. OthersStay(p) /\ FilesStay
    BY <1>5, <1>6, <1>7, <1>8 DEF TInv, Types, MemTypes, OthersStay, FilesStay, diskVars
<1>11. /\ pc'[p] \in {"idle", "synced", "rot1", "write"} /\ files'[p] = {head[p]}
       /\ UNCHANGED <<head, new, idx, index, nfile, count>>
    BY <1>6, <1>7 DEF TInv, Types, MemTypes, diskVars
<1>12. HandlesOK(p)'
    BY <1>1, <1>11 DEF TInv, ProcOK, HandlesOK, NoLogPlaces, Rotating
<1>13. PosOK(map[p])'
    BY <1>2, <1>4, <1>5, <1>11, PosStays DEF PosOK
<1>14. \A j \in Inodes : sync'[p][j] <= Written
    BY <1>8, SyncBound
<1>15. ProcOK(p)'
    BY <1>9, <1>11, <1>12, <1>13, <1>14, PosStays, ProcNext DEF Types
<1>. QED BY <1>9, <1>10, <1>11, <1>15, PosStays, QuietOK

(* One file of the range is mapped. *)
LEMMA MapFileOK == ASSUME TInv, NEW p \in Procs, MapFile(p) PROVE TInv'
<1>1. pc[p] = "mapf" /\ head[p] \in 1..nfile /\ head[p] \in Inodes
    BY HeadOK DEF NoLogPlaces, MapFile
<1>2. PICK i \in Inodes : i = Found(p)[view[p].todo]
    BY <1>1, MappedFile
<1>3. PICK end \in Nat : end = Complete(i) /\ end <= Written
    BY CompleteOK
<1>4. view[p] \in ViewT /\ view[p].off \in Nat /\ view[p].todo \in Nat /\ view[p].todo # 0
    BY <1>1, MappedFile, ViewOf DEF TInv, Types, MemTypes
<1>5. PICK from \in Nat : from = IF file[i].seq = view[p].seq THEN view[p].off ELSE 0
    BY <1>4
<1>6. PICK got : got = TxnsOf(i, from, end) \o view[p].got
    OBVIOUS
<1>7. from <= end => got \in Seq(Txns)
    BY <1>3, <1>6, GotType
<1>8. UNCHANGED <<diskVars, head, new, locked, bad, idx, history, gap, loss, count>>
    BY DEF MapFile
<1>9. \/ /\ pc' = [pc EXCEPT ![p] = "lost"]
         /\ files' = [files EXCEPT ![p] = {head[p]}]
         /\ sync' = [sync EXCEPT ![p][i] = end]
         /\ UNCHANGED <<op, map, view, seen>>
      \/ /\ from <= end
         /\ \E reset \in BOOLEAN :
              MapDone(p, IF i = head[p] THEN end ELSE sync[p][head[p]],
                      IF reset THEN got ELSE map[p].hist \o got)
      \/ /\ from <= end
         /\ view[p].todo # 1
         /\ view' = [view EXCEPT ![p].todo = @ - 1, ![p].got = got]
         /\ sync' = [sync EXCEPT ![p][i] = end]
         /\ UNCHANGED <<pc, op, files, map, seen>>
    <2>. DEFINE resets == file[i].prevSeq = 0 /\ (view[p].todo > 1 \/ from = 0)
    <2>1. resets \in BOOLEAN
        OBVIOUS
    <2>2. IF from > end
              THEN /\ Goto(p, "lost")
                   /\ files' = [files EXCEPT ![p] = {head[p]}]
                   /\ sync' = [sync EXCEPT ![p][i] = end]
                   /\ UNCHANGED <<op, map, view, seen>>
              ELSE IF resets \/ view[p].todo = 1
              THEN MapDone(p, IF i = head[p] THEN end ELSE sync[p][head[p]],
                           IF resets THEN got ELSE map[p].hist \o got)
              ELSE /\ view' = [view EXCEPT ![p].todo = @ - 1, ![p].got = got]
                   /\ sync' = [sync EXCEPT ![p][i] = end]
                   /\ UNCHANGED <<pc, op, files, map, seen>>
        BY <1>2, <1>3, <1>5, <1>6, Zenon DEF MapFile
    <2>3. ~(from > end) => from <= end
        OBVIOUS
    <2>. HIDE DEF resets
    <2>. QED BY <2>1, <2>2, <2>3, Zenon DEF Goto
<1>10. PICK s : s = [sync[p] EXCEPT ![i] = end]
    OBVIOUS
<1>11. /\ s \in [Inodes -> Nat]
       /\ \A j \in Inodes : s[j] = IF j = i THEN end ELSE sync[p][j]
    BY <1>10 DEF TInv, Types, MemTypes
<1>12. \A j \in Inodes : s[j] <= Written
    BY <1>3, <1>11, SyncBound
<1>13. CASE /\ pc' = [pc EXCEPT ![p] = "lost"]
            /\ files' = [files EXCEPT ![p] = {head[p]}]
            /\ sync' = [sync EXCEPT ![p][i] = end]
            /\ UNCHANGED <<op, map, view, seen>>
    <2>1. /\ pc' = [pc EXCEPT ![p] = "lost"]
          /\ files' = [files EXCEPT ![p] = {head[p]}]
          /\ sync' = [sync EXCEPT ![p] = s]
          /\ UNCHANGED <<op, map, view, seen>>
        BY <1>10, <1>13
    <2>2. Types'
        BY <2>1, <1>1, <1>8, <1>11
           DEF TInv, Types, DiskTypes, MemTypes, GhostTypes, diskVars, Places
    <2>3. OthersStay(p) /\ FilesStay
        BY <2>1, <1>8 DEF TInv, Types, MemTypes, OthersStay, FilesStay, diskVars
    <2>4. /\ pc'[p] = "lost" /\ files'[p] = {head[p]} /\ sync'[p] = s
          /\ UNCHANGED <<head, new, map, idx, index, nfile, count>>
        BY <2>1, <1>8 DEF TInv, Types, MemTypes, diskVars
    <2>5. HandlesOK(p)'
        BY <2>4, <1>1 DEF TInv, ProcOK, HandlesOK, NoLogPlaces, Rotating
    <2>6. ProcOK(p)'
        BY <2>2, <2>4, <2>5, <1>12, PosStays, ProcNext DEF Types
    <2>. QED BY <2>2, <2>3, <2>4, <2>6, PosStays, QuietOK
<1>14. CASE /\ from <= end
            /\ \E reset \in BOOLEAN :
                 MapDone(p, IF i = head[p] THEN end ELSE sync[p][head[p]],
                         IF reset THEN got ELSE map[p].hist \o got)
    <2>1. PICK reset \in BOOLEAN :
              MapDone(p, IF i = head[p] THEN end ELSE sync[p][head[p]],
                      IF reset THEN got ELSE map[p].hist \o got)
        BY <1>14
    <2>2. PICK off \in Nat : off = (IF i = head[p] THEN end ELSE sync[p][head[p]]) /\ off <= Written
        BY <1>1, <1>3, SyncBound
    <2>3. PICK contents \in Seq(Txns) : contents = IF reset THEN got ELSE map[p].hist \o got
        <3>1. got \in Seq(Txns)
            BY <1>7, <1>14
        <3>2. PICK h \in Seq(Txns) : h = map[p].hist
            BY MapOf DEF TInv, Types, MemTypes
        <3>3. h \o got \in Seq(Txns)
            BY <3>1
        <3>. QED BY <3>1, <3>2, <3>3
    <2>4. MapDone(p, off, contents)
        BY <2>1, <2>2, <2>3
    <2>. QED BY <2>2, <2>3, <2>4, <1>1, <1>8, MapDoneOK
<1>15. CASE /\ from <= end
            /\ view[p].todo # 1
            /\ view' = [view EXCEPT ![p].todo = @ - 1, ![p].got = got]
            /\ sync' = [sync EXCEPT ![p][i] = end]
            /\ UNCHANGED <<pc, op, files, map, seen>>
    <2>0. got \in Seq(Txns)
        BY <1>7, <1>15
    <2>1. PICK n \in Nat : n = view[p].todo - 1 /\ n # 0
        BY <1>4, <1>15
    <2>2. PICK v \in ViewT : v = view[p]
        BY <1>4
    <2>3. PICK w : w = [v EXCEPT !.todo = n, !.got = got]
        OBVIOUS
    <2>4. w \in ViewT /\ w.todo = n /\ w.tail = v.tail
        BY <2>0, <2>3 DEF ViewT
    <2>5. /\ view' = [view EXCEPT ![p] = w]
          /\ sync' = [sync EXCEPT ![p] = s]
          /\ UNCHANGED <<pc, op, files, map, seen>>
        BY <2>1, <2>2, <2>3, <1>10, <1>15 DEF TInv, Types, MemTypes
    <2>6. Types'
        BY <2>4, <2>5, <1>8, <1>11
           DEF TInv, Types, DiskTypes, MemTypes, GhostTypes, diskVars
    <2>7. OthersStay(p) /\ FilesStay
        BY <2>5, <1>8 DEF TInv, Types, MemTypes, OthersStay, FilesStay, diskVars
    <2>8. /\ view'[p] = w /\ sync'[p] = s /\ pc'[p] = "mapf"
          /\ UNCHANGED <<file, pc, files, head, new, map, idx, index, nfile, count>>
        BY <2>5, <1>1, <1>8 DEF TInv, Types, MemTypes, diskVars
    <2>9. HandlesOK(p)'
        BY <2>8 DEF TInv, ProcOK, HandlesOK
    <2>10. FindingOK(p)'
        <3>1. /\ view[p].tail # 0
              /\ view[p].todo \in 1..Cardinality(files[p])
              /\ \A k \in 1..view[p].todo : \E j \in files[p] : file[j].seq = view[p].tail + k - 1
            BY <1>1 DEF TInv, ProcOK, FindingOK
        <3>2. Cardinality(files[p]) \in Nat
            <4>1. files[p] \subseteq Inodes
                BY DEF TInv, Types, MemTypes
            <4>. QED BY <4>1, ListFinite
        <3>3. n \in 1..Cardinality(files[p]) /\ \A k \in 1..n : k \in 1..view[p].todo
            BY <2>1, <3>1, <3>2
        <3>4. w.tail # 0 /\ w.todo = n /\ w.tail = view[p].tail
            BY <2>2, <2>4, <3>1
        <3>. QED BY <2>8, <3>1, <3>3, <3>4 DEF FindingOK
    <2>11. SyncOK(p)'
        <3>1. \A j \in Inodes : s[j] \in Nat /\ s[j] <= Written /\ Written \in Nat
            BY <1>11, <1>12, SyncBound
        <3>. QED BY <2>8, <3>1, PosStays DEF SyncOK
    <2>12. ProcOK(p)'
        BY <2>8, <2>9, <2>10, <2>11, PosStays DEF ProcOK, TxnOK
    <2>. QED BY <2>6, <2>7, <2>8, <2>12, PosStays, QuietOK
<1>. QED BY <1>9, <1>13, <1>14, <1>15

-----------------------------------------------------------------------------
(* The whole specification *)

(* An empty log, nobody has it open. *)
LEMMA InitOK == Init => TInv
<1>. SUFFICES ASSUME Init PROVE TInv
    OBVIOUS
<1>. USE DEF Init, Ident
<1>1. PICK f : f = [NoFile EXCEPT !.seq = 1]
    OBVIOUS
<1>2. /\ f \in FileT /\ f.seq = 1 /\ f.prevSeq = 0 /\ f.prevOff = 0 /\ f.data = <<>>
      /\ NoFile.seq = 0 /\ NoFile.prevSeq = 0 /\ NoFile.prevOff = 0 /\ NoFile.data = <<>>
    BY <1>1, NoTypes DEF FileT, NoFile
<1>3. file = [i \in Inodes |-> IF i = 1 THEN f ELSE NoFile] /\ file \in [Inodes -> FileT]
    BY <1>1, <1>2, NoTypes
<1>4. count \in CountT /\ count.txns = 0
    BY LogAssumption DEF CountT
<1>5. NoMap \in MapT /\ NoMap.seq = 0 /\ NoMap.off = 0
    BY NoTypes DEF NoMap
<1>6. Types
    <2>1. DiskTypes
        <3>1. /\ nfile = 1 /\ path = 1 /\ path2 = 0 /\ index = NoMap
              /\ lock = [i \in Inodes |-> NoProc] /\ newlock = NoProc
            OBVIOUS
        <3>. HIDE DEF Init
        <3>2. 1 \in 0..1 /\ 0 \in 0..1
            OBVIOUS
        <3>. QED BY <3>1, <3>2, <1>3, <1>5, InodesNat DEF DiskTypes
    <2>2. MemTypes
        BY <1>5, NoTypes DEF MemTypes, Places, Ops
    <2>3. GhostTypes
        <3>1. <<>> \in Seq(Txns \cup {Reset}) /\ <<>> \in Seq(Txns)
            OBVIOUS
        <3>. QED BY <1>4, <3>1 DEF GhostTypes
    <2>. QED BY <2>1, <2>2, <2>3 DEF Types
<1>7. Written = 0
    BY <1>4 DEF Written, TxnSize
<1>8. PosOK(NoMap)
    BY <1>5, <1>7 DEF PosOK
<1>9. ASSUME NEW i \in Inodes PROVE FileOK(i)
    <2>1. file[i].data = <<>> /\ file[i].prevSeq = 0 /\ file[i].prevOff = 0
        BY <1>2, <1>3
    <2>2. file[i].seq \in Nat /\ (i <= nfile => file[i].seq = 1)
        BY <1>2, <1>3, InodesNat
    <2>3. Len(file[i].data) = 0
        BY <2>1
    <2>4. 1..Len(file[i].data) = {}
        BY <2>3
    <2>. QED BY <1>7, <2>1, <2>2, <2>4 DEF FileOK
<1>10. ASSUME NEW p \in Procs PROVE ProcOK(p)
    <2>1. HandlesOK(p)
        BY DEF HandlesOK, NoLogPlaces, Rotating
    <2>2. SyncOK(p)
        BY <1>7 DEF SyncOK
    <2>. QED BY <1>8, <2>1, <2>2 DEF ProcOK, FindingOK, TxnOK
<1>. QED BY <1>6, <1>8, <1>9, <1>10 DEF TInv

(* Nothing happens. *)
LEMMA StutterOK == ASSUME TInv, UNCHANGED vars PROVE TInv'
<1>. USE DEF vars, diskVars, memVars, ghostVars
<1>1. Types'
    BY DEF TInv, Types, DiskTypes, MemTypes, GhostTypes
<1>2. Written' = Written
    BY DEF Written
<1>3. \A i \in Inodes : FileOK(i)'
    BY <1>2 DEF TInv, FileOK
<1>4. ASSUME NEW p \in Procs PROVE ProcOK(p)'
    BY <1>2 DEF TInv, ProcOK, PosOK, HandlesOK, SyncOK, FindingOK, TxnOK
<1>. QED BY <1>1, <1>2, <1>3, <1>4 DEF TInv, PosOK

(* Every step keeps the invariant. *)
LEMMA NextOK == ASSUME TInv, Next PROVE TInv'
<1>1. PICK p \in Procs : Work(p) \/ Other(p)
    BY DEF Next
<1>2. CASE Other(p)
    BY <1>2, OpenLogOK, OpenCorruptedOK, BeginOK, RefreshOK, ForgettingOK, MovingOK, RotateFailOK
       DEF Other
<1>3. CASE \/ OpenNoLog(p) \/ CreateUse(p) \/ CreateNew(p) \/ CreateFail(p) \/ OpenIndex(p)
           \/ Acquire(p) \/ Timeout(p) \/ CheckChanged(p) \/ CheckUnusable(p) \/ LogGone(p)
           \/ CheckSame(p) \/ ResetBegin(p) \/ SyncLock(p) \/ SyncLockFail(p)
    BY <1>3, OpenNoLogOK, CreateUseOK, CreateNewOK, ForgettingOK, OpenIndexOK, AcquireOK,
       GivingUpOK, CheckChangedOK, CheckSameOK, ResetBeginOK, SyncLockOK
<1>4. CASE \/ FindRefresh(p) \/ FindUnusable(p) \/ FindGone(p)
           \/ FindEnd(p) \/ FindOld(p) \/ MapFile(p) \/ MapFileFail(p)
           \/ Reopen(p) \/ LostFsck(p) \/ LostFail(p) \/ IndexGone(p)
           \/ Fsck(p) \/ FsckFail(p) \/ Trunc(p)
    BY <1>4, FindRefreshOK, GivingUpOK, ForgettingOK, FindEndOK, FindOldOK, MapFileOK,
       MapFileFailOK, ReopenOK, LostFsckOK, FsckOK, FsckFailOK
<1>5. CASE \/ WriteNothing(p) \/ WritePart(p) \/ WriteRest(p) \/ Fsynced(p) \/ UnlinkIndex(p)
           \/ RotateBegin(p) \/ RotateCreate(p) \/ RotateBroken(p) \/ RotateUnlink(p)
           \/ RotateLink(p) \/ RotateRename(p) \/ WriteIndex(p) \/ SkipIndex(p)
    BY <1>5, WriteNothingOK, WritePartOK, WriteRestOK, FsyncedOK, UnlinkIndexOK, RotateBeginOK,
       RotateCreateOK, RotateBrokenOK, RotateUnlinkOK, RotateLinkOK, RotateRenameOK,
       WriteIndexOK, SkipIndexOK
<1>. QED BY <1>1, <1>2, <1>3, <1>4, <1>5 DEF Work

(* The inductive invariant of the log: every position, in a map, in         *)
(* dovecot.index, in a file header or as a sync_offset, is within what has  *)
(* been written; no half of a transaction is in a file twice, whoever is    *)
(* interrupted while writing; heads and open files are allocated files; and *)
(* a list of files to be mapped has a file for every step that is left.     *)
THEOREM LogInvariant == Spec => []TInv
<1>1. TInv /\ [Next]_vars => TInv'
    BY NextOK, StutterOK
<1>. QED BY <1>1, InitOK, PTL DEF Spec

(* The invariant is stronger than the types the runs check. *)
LEMMA TypesFit == TInv => TypeOK
<1>. SUFFICES ASSUME TInv PROVE TypeOK
    OBVIOUS
<1>1. Written \in Nat /\ Written <= TxnSize * MaxTxns /\ TxnSize * MaxTxns \in Nat
    BY LogAssumption DEF TInv, Types, GhostTypes, CountT, Written, TxnSize
<1>2. \A n \in Nat : n <= Written => n \in Offsets
    BY <1>1 DEF Offsets
<1>3. \A m \in MapT : PosOK(m) => IsMap(m)
    BY <1>2, MapOf DEF PosOK, IsMap
<1>4. ASSUME NEW i \in Inodes
      PROVE  /\ file[i].data \in Seq(Txns \X (1..TxnSize))
             /\ file[i].prevSeq \in 0..file[i].seq
             /\ file[i].prevOff \in Offsets
    <2>1. FileOK(i)
        BY DEF TInv
    <2>2. /\ file[i].seq \in Nat /\ file[i].prevSeq \in Nat /\ file[i].prevOff \in Nat
          /\ file[i].data \in Seq(Txns \X (1..TxnSize))
        BY FileOf DEF TInv, Types
    <2>. QED BY <1>2, <2>1, <2>2 DEF FileOK
<1>5. IsMap(index)
    BY <1>3 DEF TInv, Types, DiskTypes
<1>6. ASSUME NEW p \in Procs
      PROVE  /\ head[p] \in 0..nfile /\ new[p] \in 0..nfile /\ files[p] \subseteq 1..nfile
             /\ head[p] # 0 => head[p] \in files[p]
             /\ sync[p] \in [Inodes -> Offsets]
             /\ IsMap(map[p]) /\ IsMap(idx[p])
             /\ view[p].got \in Seq(Txns)
             /\ seen[p] \in Seq(Txns)
    <2>1. /\ head[p] \in 0..nfile /\ new[p] \in 0..nfile /\ files[p] \subseteq 1..nfile
          /\ head[p] # 0 => head[p] \in files[p]
        BY DEF TInv, ProcOK, HandlesOK
    <2>2. sync[p] \in [Inodes -> Offsets]
        <3>1. sync[p] \in [Inodes -> Nat]
            BY DEF TInv, Types, MemTypes
        <3>2. \A i \in Inodes : sync[p][i] \in Offsets
            BY <1>2, SyncBound
        <3>. QED BY <3>1, <3>2
    <2>3. IsMap(map[p]) /\ IsMap(idx[p])
        BY <1>3 DEF TInv, Types, MemTypes, ProcOK
    <2>4. view[p].got \in Seq(Txns)
        BY ViewOf DEF TInv, Types, MemTypes
    <2>5. seen[p] \in Seq(Txns)
        BY DEF TInv, Types, GhostTypes
    <2>. QED BY <2>1, <2>2, <2>3, <2>4, <2>5
<1>7. nfile \in Inodes /\ {path, path2} \subseteq 0..nfile
    BY DEF TInv, Types, DiskTypes
<1>8. lock \in [Inodes -> Procs \cup {NoProc}] /\ newlock \in Procs \cup {NoProc}
    BY DEF TInv, Types, DiskTypes
<1>9. pc \in [Procs -> Places] /\ op \in [Procs -> Ops] /\ history \in Seq(Txns \cup {Reset})
    BY DEF TInv, Types, MemTypes, GhostTypes
<1>. QED BY <1>4, <1>5, <1>6, <1>7, <1>8, <1>9 DEF TypeOK

(* The state keeps its types, for any number of processes, files,           *)
(* transactions, crashes, torn writes and I/O errors: positions that are    *)
(* read back, copied, cut off or made up by fsck never leave the log.       *)
THEOREM TypesHold == Spec => []TypeOK
BY LogInvariant, TypesFit, PTL

-----------------------------------------------------------------------------
(* The log implements the locking protocol of LogLock *)

(* No log file is marked corrupted, and no reset is caught in an index     *)
(* that has to be repaired: mail_index_fsck() drops the lock of the log    *)
(* under the operation that called it, and only a sync keeps it.           *)
ResetsIntact == \A p \in Procs : op[p] = "reset" => pc[p] # "fsck"
Sound == ~Damaged /\ ResetsIntact

(* i is the log, or an older file. *)
Newest(i) == i \in 1..nfile /\ (i # path => file[i].seq < file[path].seq)

NamesOK ==
    /\ path \in 1..nfile
    /\ path2 # 0 => Newest(path2)
    /\ \A i \in Inodes : i > nfile => lock[i] = NoProc

(* Between two operations only the head is open. *)
OpenOK(p) ==
    /\ pc[p] \notin {"unlinkbad", "create"}
    /\ \A i \in files[p] : Newest(i)
    /\ pc[p] \notin {"closed", "view", "mapf"} => files[p] = {head[p]}
    /\ pc[p] = "view" /\ view[p].tail = 0 => files[p] = {head[p]}

(* What has to be known of an operation to see who has the lock. *)
PlacesOK(p) ==
    /\ pc[p] \in {"closed", "openidx", "idle", "lock"} => ~locked[p]
    /\ pc[p] \in {"check", "fsck"} => locked[p]
    /\ op[p] = "read" => ~locked[p] /\ pc[p] \notin {"lock", "check"}
    /\ op[p] \in {"sync", "reset"} => locked[p] \/ pc[p] = "lock"
    /\ pc[p] \in {"synced", "rotated"} => op[p] = "sync"
    /\ pc[p] \in Rotating \cup {"rot1"} => op[p] \in {"sync", "reset"}

(* log->head->locked is true: the lock is there, and on the right file. *)
OwnerOK(p) ==
    /\ locked[p] => lock[head[p]] = p
    /\ locked[p] /\ pc[p] # "check" => head[p] = path
    /\ \A i \in Inodes : lock[i] = p =>
          (locked[p] /\ i = head[p]) \/ (pc[p] \in Rotating /\ i = new[p])

(* A new log is locked and newer than the one it will replace. *)
NewOK(p) ==
    IF pc[p] \in Rotating
    THEN lock[new[p]] = p /\ file[new[p]].seq > file[path].seq
    ELSE new[p] = 0

LProc(p) == OpenOK(p) /\ PlacesOK(p) /\ OwnerOK(p) /\ NewOK(p)

LInv == NamesOK /\ \A p \in Procs : LProc(p)

(* The step of p leaves the name, the files and the locks of others alone. *)
LFrame(p) ==
    /\ OthersStay(p)
    /\ path' = path
    /\ nfile <= nfile'
    /\ \A i \in 1..nfile : file'[i].seq = file[i].seq
    /\ \A i \in Inodes : lock'[i] = lock[i] \/ {lock[i], lock'[i]} \subseteq {p, NoProc}

(* A file that is older than the log stays so. *)
LEMMA NewestStays ==
    ASSUME TInv, TInv', LInv, NEW p \in Procs, LFrame(p), NEW i, Newest(i)
    PROVE  Newest(i)'
<1>1. nfile \in Nat /\ nfile' \in Nat
    BY InodesNat DEF TInv, Types, DiskTypes
<1>2. path \in 1..nfile
    BY DEF LInv, NamesOK
<1>. QED BY <1>1, <1>2 DEF LFrame, Newest

(* What is known of the other processes stays. *)
LEMMA LOthers ==
    ASSUME TInv, TInv', LInv, NEW p \in Procs, LFrame(p), NEW q \in Procs, q # p
    PROVE  LProc(q)'
<1>1. /\ pc'[q] = pc[q] /\ op'[q] = op[q] /\ head'[q] = head[q] /\ new'[q] = new[q]
      /\ locked'[q] = locked[q] /\ files'[q] = files[q] /\ view'[q] = view[q]
    BY DEF LFrame, OthersStay
<1>2. LProc(q)
    BY DEF LInv
<1>3. \A i \in Inodes : lock'[i] = q <=> lock[i] = q
    BY LogAssumption DEF LFrame
<1>4. OpenOK(q)'
    <2>1. \A i \in files[q] : Newest(i)
        BY <1>2 DEF LProc, OpenOK
    <2>2. \A i \in files[q] : Newest(i)'
        BY <2>1, NewestStays
    <2>. QED BY <1>1, <1>2, <2>2 DEF LProc, OpenOK
<1>5. PlacesOK(q)'
    BY <1>1, <1>2 DEF LProc, PlacesOK
<1>6. OwnerOK(q)'
    <2>1. locked[q] => head[q] \in Inodes
        <3>1. locked[q] => pc[q] \notin NoLogPlaces
            BY <1>2 DEF LProc, PlacesOK, OpenOK, NoLogPlaces
        <3>. QED BY <3>1, HeadOK
    <2>2. path' = path
        BY DEF LFrame
    <2>. QED BY <1>1, <1>2, <1>3, <2>1, <2>2 DEF LProc, OwnerOK
<1>7. NewOK(q)'
    <2>1. pc[q] \in Rotating => new[q] \in 1..nfile
        BY DEF TInv, ProcOK, HandlesOK
    <2>2. \A i \in 1..nfile : i \in Inodes
        BY Allocated DEF TInv, Types
    <2>3. path \in 1..nfile /\ path' = path
        BY DEF LInv, NamesOK, LFrame
    <2>4. \A i \in 1..nfile : file'[i].seq = file[i].seq
        BY DEF LFrame
    <2>. QED BY <1>1, <1>2, <1>3, <2>1, <2>2, <2>3, <2>4 DEF LProc, NewOK
<1>. QED BY <1>4, <1>5, <1>6, <1>7 DEF LProc

(* A step is checked at the process that takes it. *)
LEMMA LStep ==
    ASSUME TInv, TInv', LInv, NEW p \in Procs, LFrame(p),
           path2' \in {0, path} \/ path2' = path2,
           \A i \in Inodes : i > nfile' => lock'[i] = NoProc,
           LProc(p)'
    PROVE  LInv'
<1>1. \A q \in Procs : LProc(q)'
    BY LOthers
<1>2. Newest(path)
    BY DEF LInv, NamesOK, Newest
<1>3. path2' # 0 => Newest(path2')
    BY <1>2 DEF LInv, NamesOK
<1>4. path2' # 0 => Newest(path2)'
    <2>. SUFFICES ASSUME path2' # 0 PROVE Newest(path2)'
        OBVIOUS
    <2>1. PICK i : i = path2'
        OBVIOUS
    <2>2. Newest(i)'
        BY <1>3, <2>1, NewestStays
    <2>. QED BY <2>1, <2>2 DEF Newest
<1>5. (path \in 1..nfile)'
    <2>1. Newest(path)'
        <3>1. PICK i : i = path
            OBVIOUS
        <3>2. Newest(i)'
            BY <1>2, <3>1, NewestStays
        <3>. QED BY <3>1, <3>2 DEF Newest, LFrame
    <2>. QED BY <2>1 DEF Newest
<1>. QED BY <1>1, <1>4, <1>5 DEF LInv, NamesOK

-----------------------------------------------------------------------------
(* What a process is to LogLock *)

lockPc == [p \in Procs |-> LockPlace(p)]

(* Which place of LogLock each place of the log is. *)
LEMMA PlaceIs ==
    ASSUME NEW p \in Procs, locked[p] \in BOOLEAN
    PROVE  /\ pc[p] = "closed" /\ ~locked[p] => LockPlace(p) = "closed"
           /\ pc[p] = "lock" => LockPlace(p) = "lock"
           /\ pc[p] = "check" => LockPlace(p) = "check"
           /\ pc[p] \in Rotating => LockPlace(p) = "rot"
           /\ pc[p] \notin NoLogPlaces \cup Rotating \cup {"lock", "check"} =>
                LockPlace(p) = IF locked[p] THEN "crit" ELSE "idle"
<1>1. CASE locked[p] = TRUE
    BY <1>1 DEF LockPlace, Rotating, NoLogPlaces
<1>2. CASE locked[p] = FALSE
    BY <1>2 DEF LockPlace, Rotating, NoLogPlaces
<1>. QED BY <1>1, <1>2

(* The same after a step. *)
LEMMA PlaceNext ==
    ASSUME NEW p \in Procs, locked'[p] \in BOOLEAN
    PROVE  /\ pc'[p] = "closed" /\ ~locked'[p] => LockPlace(p)' = "closed"
           /\ pc'[p] = "lock" => LockPlace(p)' = "lock"
           /\ pc'[p] = "check" => LockPlace(p)' = "check"
           /\ pc'[p] \in Rotating => LockPlace(p)' = "rot"
           /\ pc'[p] \notin NoLogPlaces \cup Rotating \cup {"lock", "check"} =>
                LockPlace(p)' = IF locked'[p] THEN "crit" ELSE "idle"
<1>1. CASE locked'[p] = TRUE
    BY <1>1 DEF LockPlace, Rotating, NoLogPlaces
<1>2. CASE locked'[p] = FALSE
    BY <1>2 DEF LockPlace, Rotating, NoLogPlaces
<1>. QED BY <1>1, <1>2

(* Only the place of the process that takes the step changes. *)
LEMMA PcMoves ==
    ASSUME NEW p \in Procs, OthersStay(p)
    PROVE  /\ lockPc' = [lockPc EXCEPT ![p] = LockPlace(p)']
           /\ lockPc[p] = LockPlace(p)
<1>1. \A q \in Procs : q # p => LockPlace(q)' = LockPlace(q)
    BY DEF OthersStay, LockPlace
<1>2. lockPc' = [q \in Procs |-> LockPlace(q)']
    BY DEF lockPc
<1>. QED BY <1>1, <1>2 DEF lockPc

(* A step within a place of LogLock is no step of it. *)
LEMMA SimStutter ==
    ASSUME NEW p \in Procs, OthersStay(p), LockPlace(p)' = LockPlace(p),
           UNCHANGED <<path, nfile, lock, head, new>>
    PROVE  UNCHANGED Lock!vars
<1>1. lockPc' = lockPc
    BY PcMoves DEF lockPc
<1>. QED BY <1>1 DEF Lock!vars, lockPc

-----------------------------------------------------------------------------
(* Kinds of steps *)

Safe == TInv /\ TInv' /\ LInv
Implements == LInv' /\ [Lock!Next]_(Lock!vars)

Working == Places \ ({"closed", "unlinkbad", "create", "lock", "check"} \cup Rotating)

(* What every case below needs. *)
LEMMA LBasics ==
    ASSUME Safe, NEW p \in Procs
    PROVE  /\ locked[p] \in BOOLEAN /\ locked'[p] \in BOOLEAN
           /\ pc[p] \in Places /\ pc'[p] \in Places
           /\ LProc(p)
           /\ nfile \in Nat /\ nfile' \in Nat /\ path \in 1..nfile /\ path \in Inodes
           /\ pc[p] # "closed" =>
                /\ head[p] \in 1..nfile /\ head[p] \in Inodes /\ head[p] \in files[p]
<1>1. path \in 1..nfile /\ LProc(p)
    BY DEF Safe, LInv, NamesOK
<1>2. path \in Inodes
    BY <1>1, Allocated DEF Safe, TInv, Types
<1>3. pc[p] # "closed" => pc[p] \notin NoLogPlaces
    BY <1>1 DEF LProc, OpenOK, NoLogPlaces
<1>4. pc[p] # "closed" => head[p] \in 1..nfile /\ head[p] \in Inodes /\ head[p] \in files[p]
    BY <1>3, HeadOK DEF Safe
<1>5. nfile \in Nat /\ nfile' \in Nat
    BY InodesNat DEF Safe, TInv, Types, DiskTypes
<1>6. locked[p] \in BOOLEAN /\ locked'[p] \in BOOLEAN /\ pc[p] \in Places /\ pc'[p] \in Places
    BY DEF Safe, TInv, Types, MemTypes
<1>. QED BY <1>1, <1>2, <1>4, <1>5, <1>6

(* p goes on: it neither locks nor unlocks, and its head stays. *)
GoesOn(p) ==
    /\ OthersStay(p)
    /\ UNCHANGED <<path, nfile, lock, head, new, locked>>
    /\ \A i \in 1..nfile : file'[i].seq = file[i].seq
    /\ path2' \in {0, path} \/ path2' = path2
    /\ {pc[p], pc'[p]} \subseteq Working \/ {pc[p], pc'[p]} \subseteq Rotating
    /\ \A i \in files'[p] : Newest(i)
    /\ pc'[p] \notin {"view", "mapf"} => files'[p] = {head[p]}
    /\ pc'[p] = "view" /\ view'[p].tail = 0 => files'[p] = {head[p]}
    /\ PlacesOK(p)'

(* Going on is no step of LogLock. *)
LEMMA GoesOnImplements ==
    ASSUME Safe, NEW p \in Procs, GoesOn(p)
    PROVE  Implements
<1>1. LFrame(p)
    <2>1. nfile \in Nat
        BY LBasics
    <2>. QED BY <2>1 DEF GoesOn, LFrame
<1>2. \A i \in files'[p] : Newest(i)'
    BY <1>1, NewestStays DEF GoesOn, Safe
<1>3. OpenOK(p)'
    BY <1>2 DEF GoesOn, OpenOK, Working, Rotating
<1>4. /\ locked'[p] = locked[p] /\ head'[p] = head[p] /\ new'[p] = new[p]
      /\ lock' = lock /\ path' = path
      /\ pc'[p] # "check" /\ pc[p] # "check" /\ (pc'[p] \in Rotating <=> pc[p] \in Rotating)
    BY DEF GoesOn, Working, Rotating
<1>5. OwnerOK(p)'
    BY <1>4, LBasics DEF LProc, OwnerOK
<1>6. NewOK(p)'
    <2>1. path \in 1..nfile /\ NewOK(p)
        BY LBasics DEF LProc
    <2>2. pc[p] \in Rotating => new[p] \in 1..nfile
        BY DEF Safe, TInv, ProcOK, HandlesOK
    <2>3. \A i \in 1..nfile : file'[i].seq = file[i].seq
        BY DEF GoesOn
    <2>. QED BY <1>4, <2>1, <2>2, <2>3 DEF NewOK
<1>7. \A i \in Inodes : i > nfile' => lock'[i] = NoProc
    BY DEF GoesOn, Safe, LInv, NamesOK
<1>8. LProc(p)'
    BY <1>3, <1>5, <1>6 DEF LProc, GoesOn
<1>9. LInv'
    BY <1>1, <1>7, <1>8, LStep DEF GoesOn, Safe
<1>10. LockPlace(p)' = LockPlace(p)
    BY <1>4, LBasics, PlaceIs, PlaceNext DEF GoesOn, Working, NoLogPlaces
<1>11. UNCHANGED Lock!vars
    BY <1>10, SimStutter DEF GoesOn
<1>. QED BY <1>9, <1>11 DEF Implements

(* p is done with the log, or gives up waiting for it: if it has locked    *)
(* the head it unlocks it.                                                 *)
Releases(p) ==
    /\ OthersStay(p)
    /\ UNCHANGED <<path, path2, nfile, head, new>>
    /\ \A i \in 1..nfile : file'[i].seq = file[i].seq
    /\ lock' = FreeLock(p, head[p])
    /\ ~locked'[p]
    /\ pc[p] \in Working \cup {"lock"}
    /\ pc'[p] \in {"idle", "view", "unlinkidx"}
    /\ pc[p] = "lock" => pc'[p] = "idle"
    /\ op'[p] \notin {"sync", "reset"}
    /\ files'[p] \in {files[p], {head[p]}}
    /\ files[p] = {head[p]} \/ files'[p] = {head[p]}

(* It is Timeout, Unlock or, without the lock, no step of LogLock. *)
LEMMA ReleasesImplements ==
    ASSUME Safe, NEW p \in Procs, Releases(p)
    PROVE  Implements
<1>1. /\ head[p] \in 1..nfile /\ head[p] \in Inodes /\ head[p] \in files[p] /\ LProc(p)
      /\ nfile \in Nat /\ locked[p] \in BOOLEAN
    BY LBasics DEF Releases, Working
<1>2. lock \in [Inodes -> Procs \cup {NoProc}]
    BY DEF Safe, TInv, Types, DiskTypes
<1>3. \A i \in Inodes : lock'[i] = IF i = head[p] /\ lock[i] = p THEN NoProc ELSE lock[i]
    BY <1>1, <1>2 DEF Releases, FreeLock
<1>4. LFrame(p)
    BY <1>1, <1>3 DEF Releases, LFrame
<1>5. files'[p] = {head[p]} /\ Newest(head[p])
    BY <1>1 DEF Releases, LProc, OpenOK
<1>6. OpenOK(p)'
    <2>1. PICK i : i = head[p]
        OBVIOUS
    <2>2. Newest(i)'
        BY <1>4, <1>5, <2>1, NewestStays DEF Safe
    <2>3. files'[p] = {i} /\ head'[p] = i
        BY <1>5, <2>1 DEF Releases
    <2>. QED BY <2>2, <2>3 DEF OpenOK, Releases
<1>7. PlacesOK(p)'
    BY DEF Releases, PlacesOK, Rotating
<1>8. pc[p] \notin Rotating
    BY DEF Releases, Working, Rotating
<1>9. \A i \in Inodes : lock'[i] # p
    BY <1>1, <1>3, <1>8, LogAssumption DEF LProc, OwnerOK
<1>10. OwnerOK(p)'
    BY <1>9 DEF Releases, OwnerOK
<1>11. NewOK(p)'
    BY <1>1, <1>8 DEF Releases, LProc, NewOK, Rotating
<1>12. \A i \in Inodes : i > nfile' => lock'[i] = NoProc
    BY <1>3 DEF Releases, Safe, LInv, NamesOK
<1>13. LProc(p)'
    BY <1>6, <1>7, <1>10, <1>11 DEF LProc
<1>14. LInv'
    BY <1>4, <1>12, <1>13, LStep DEF Releases, Safe
<1>15. LockPlace(p)' = "idle"
    BY LBasics, PlaceNext DEF Releases, Rotating, NoLogPlaces
<1>16. CASE pc[p] = "lock"
    <2>1. ~locked[p] /\ LockPlace(p) = "lock"
        BY <1>1, <1>16, PlaceIs DEF LProc, PlacesOK
    <2>2. lock' = lock
        BY <1>1, <1>8, <2>1 DEF LProc, OwnerOK, Releases, FreeLock
    <2>3. Lock!Timeout(p)
        BY <1>15, <2>1, <2>2, PcMoves DEF Lock!Timeout, lockPc, Releases
    <2>. QED BY <1>14, <2>3 DEF Implements, Lock!Next, Lock!Step
<1>17. CASE pc[p] # "lock" /\ locked[p]
    <2>1. LockPlace(p) = "crit"
        BY <1>1, <1>17, PlaceIs DEF Releases, Working, NoLogPlaces
    <2>2. lock' = [lock EXCEPT ![head[p]] = NoProc]
        BY <1>1, <1>17 DEF LProc, OwnerOK, Releases, FreeLock
    <2>3. Lock!Unlock(p)
        BY <1>15, <2>1, <2>2, PcMoves DEF Lock!Unlock, lockPc, Releases
    <2>. QED BY <1>14, <2>3 DEF Implements, Lock!Next, Lock!Step
<1>18. CASE pc[p] # "lock" /\ ~locked[p]
    <2>1. LockPlace(p) = "idle"
        BY <1>1, <1>18, PlaceIs DEF Releases, Working, NoLogPlaces
    <2>2. lock' = lock
        BY <1>1, <1>8, <1>18 DEF LProc, OwnerOK, Releases, FreeLock
    <2>3. UNCHANGED Lock!vars
        BY <1>15, <2>1, <2>2, SimStutter DEF Releases
    <2>. QED BY <1>14, <2>3 DEF Implements
<1>. QED BY <1>16, <1>17, <1>18

(* A process that closes the index, or dies, leaves its locks to the kernel. *)
LEMMA ForgetImplements ==
    ASSUME Safe, NEW p \in Procs, pc[p] # "closed", Forget(p),
           UNCHANGED <<path, path2, nfile>>,
           \A i \in 1..nfile : file'[i].seq = file[i].seq
    PROVE  Implements
<1>. USE DEF Forget, Goto
<1>1. LProc(p) /\ nfile \in Nat
    BY LBasics
<1>2. lock \in [Inodes -> Procs \cup {NoProc}]
    BY DEF Safe, TInv, Types, DiskTypes
<1>3. \A i \in Inodes : lock'[i] = IF lock[i] = p THEN NoProc ELSE lock[i]
    OBVIOUS
<1>4. OthersStay(p)
    BY ForgetTypes DEF Safe
<1>5. LFrame(p)
    BY <1>1, <1>3, <1>4 DEF LFrame
<1>6. /\ pc'[p] = "closed" /\ op'[p] = "none" /\ head'[p] = 0 /\ new'[p] = 0
      /\ ~locked'[p] /\ files'[p] = {}
    BY DEF Safe, TInv, Types, MemTypes
<1>7. OpenOK(p)'
    BY <1>6 DEF OpenOK
<1>8. PlacesOK(p)'
    BY <1>6 DEF PlacesOK, Rotating
<1>9. OwnerOK(p)'
    BY <1>3, <1>6, LogAssumption DEF OwnerOK
<1>10. NewOK(p)'
    BY <1>6 DEF NewOK, Rotating
<1>11. \A i \in Inodes : i > nfile' => lock'[i] = NoProc
    BY <1>3 DEF Safe, LInv, NamesOK
<1>12. LProc(p)'
    BY <1>7, <1>8, <1>9, <1>10 DEF LProc
<1>13. LInv'
    BY <1>5, <1>11, <1>12, LStep DEF Safe
<1>14. LockPlace(p)' = "closed"
    BY <1>6, LBasics, PlaceNext
<1>15. LockPlace(p) # "closed"
    <2>1. pc[p] \notin NoLogPlaces
        BY <1>1 DEF LProc, OpenOK, NoLogPlaces
    <2>2. CASE pc[p] \in Rotating \cup {"lock", "check"}
        BY <2>2, LBasics, PlaceIs
    <2>3. CASE pc[p] \notin Rotating \cup {"lock", "check"}
        BY <2>1, <2>3, LBasics, PlaceIs
    <2>. QED BY <2>2, <2>3
<1>16. lockPc' = [lockPc EXCEPT ![p] = "closed"] /\ lockPc[p] # "closed"
    BY <1>4, <1>14, <1>15, PcMoves
<1>17. Lock!Crash(p)
    BY <1>16 DEF Lock!Crash, lockPc
<1>. QED BY <1>13, <1>17 DEF Implements, Lock!Next, Lock!Step

(* p's head becomes the file that the name leads to. *)
LEMMA OpenLogImplements == ASSUME Safe, NEW p \in Procs, OpenLog(p) PROVE Implements
<1>. USE DEF OpenLog, Goto, diskVars, ghostVars
<1>1. LProc(p) /\ nfile \in Nat /\ path \in 1..nfile /\ locked[p] \in BOOLEAN
    BY LBasics
<1>2. OthersStay(p) /\ ~locked[p] /\ new[p] = 0
    BY <1>1 DEF Safe, TInv, Types, MemTypes, OthersStay, LProc, PlacesOK, NewOK, Rotating
<1>3. LFrame(p)
    BY <1>1, <1>2 DEF LFrame
<1>4. /\ pc'[p] = "openidx" /\ op' = op /\ head'[p] = path /\ new' = new /\ locked' = locked
      /\ files'[p] = {path} /\ lock' = lock /\ nfile' = nfile /\ path2' = path2 /\ path' = path
    BY DEF Safe, TInv, Types, MemTypes
<1>5. OpenOK(p)'
    BY <1>1, <1>4 DEF OpenOK, Newest
<1>6. PlacesOK(p)'
    BY <1>1, <1>2, <1>4 DEF LProc, PlacesOK, Rotating
<1>7. OwnerOK(p)'
    BY <1>1, <1>2, <1>4 DEF LProc, OwnerOK, Rotating
<1>8. NewOK(p)'
    BY <1>2, <1>4 DEF NewOK, Rotating
<1>9. \A i \in Inodes : i > nfile' => lock'[i] = NoProc
    BY <1>4 DEF Safe, LInv, NamesOK
<1>10. LInv'
    BY <1>3, <1>4, <1>5, <1>6, <1>7, <1>8, <1>9, LStep DEF Safe, LProc
<1>11. LockPlace(p) = "closed" /\ LockPlace(p)' = "idle"
    BY <1>2, <1>4, LBasics, PlaceIs, PlaceNext DEF Rotating, NoLogPlaces
<1>12. lockPc' = [lockPc EXCEPT ![p] = "idle"] /\ lockPc[p] = "closed"
    BY <1>2, <1>11, PcMoves
<1>13. Lock!Open(p)
    BY <1>12 DEF Lock!Open, lockPc
<1>. QED BY <1>10, <1>13 DEF Implements, Lock!Next, Lock!Step

(* p starts to wait for the lock of its head. *)
Waits(p) ==
    /\ OthersStay(p)
    /\ UNCHANGED <<path, nfile, file, lock, head, new, locked, files>>
    /\ path2' \in {0, path} \/ path2' = path2
    /\ pc[p] \in Working /\ ~locked[p] /\ files[p] = {head[p]}
    /\ pc'[p] = "lock" /\ op'[p] # "read"

(* Starting to wait is Begin of LogLock. *)
LEMMA WaitsImplements == ASSUME Safe, NEW p \in Procs, Waits(p) PROVE Implements
<1>. USE DEF Waits
<1>1. LProc(p) /\ nfile \in Nat /\ locked[p] \in BOOLEAN
    BY LBasics
<1>2. LFrame(p)
    BY <1>1 DEF LFrame
<1>3. OpenOK(p)'
    BY <1>1, <1>2, NewestStays DEF Safe, LProc, OpenOK
<1>4. PlacesOK(p)'
    BY DEF PlacesOK, Rotating
<1>5. OwnerOK(p)' /\ NewOK(p)'
    BY <1>1 DEF LProc, OwnerOK, NewOK, Rotating, Working
<1>6. \A i \in Inodes : i > nfile' => lock'[i] = NoProc
    BY DEF Safe, LInv, NamesOK
<1>7. LInv'
    BY <1>2, <1>3, <1>4, <1>5, <1>6, LStep DEF Safe, LProc
<1>8. LockPlace(p) = "idle" /\ LockPlace(p)' = "lock"
    BY LBasics, PlaceIs, PlaceNext DEF Working, NoLogPlaces
<1>9. lockPc' = [lockPc EXCEPT ![p] = "lock"] /\ lockPc[p] = "idle"
    BY <1>8, PcMoves
<1>10. Lock!Begin(p)
    BY <1>9 DEF Lock!Begin, lockPc
<1>. QED BY <1>7, <1>10 DEF Implements, Lock!Next, Lock!Step

(* The lock of the head is granted: Acquire of LogLock. *)
LEMMA AcquireImplements == ASSUME Safe, NEW p \in Procs, Acquire(p) PROVE Implements
<1>. USE DEF Acquire, Goto, ghostVars
<1>1. LProc(p) /\ nfile \in Nat /\ head[p] \in 1..nfile /\ head[p] \in Inodes /\ ~locked[p]
    BY LBasics DEF LProc, PlacesOK
<1>2. lock \in [Inodes -> Procs \cup {NoProc}]
    BY DEF Safe, TInv, Types, DiskTypes
<1>3. \A i \in Inodes : lock'[i] = IF i = head[p] THEN p ELSE lock[i]
    BY <1>2
<1>4. OthersStay(p)
    BY DEF Safe, TInv, Types, MemTypes, OthersStay
<1>5. LFrame(p)
    BY <1>1, <1>3, <1>4 DEF LFrame
<1>6. /\ pc[p] = "lock" /\ pc'[p] = "check" /\ locked'[p] = TRUE
      /\ UNCHANGED <<op, head, new, files, view, nfile, path, path2>>
    BY DEF Safe, TInv, Types, MemTypes
<1>7. OpenOK(p)'
    BY <1>1, <1>5, <1>6, NewestStays DEF Safe, LProc, OpenOK
<1>8. PlacesOK(p)'
    BY <1>1, <1>6 DEF PlacesOK, LProc, Rotating
<1>9. OwnerOK(p)'
    BY <1>1, <1>3, <1>6 DEF LProc, OwnerOK, Rotating
<1>10. NewOK(p)'
    BY <1>1, <1>6 DEF LProc, NewOK, Rotating
<1>11. \A i \in Inodes : i > nfile' => lock'[i] = NoProc
    BY <1>1, <1>3, <1>6 DEF Safe, LInv, NamesOK
<1>12. LInv'
    BY <1>5, <1>6, <1>7, <1>8, <1>9, <1>10, <1>11, LStep DEF Safe, LProc
<1>13. LockPlace(p) = "lock" /\ LockPlace(p)' = "check"
    BY <1>6, LBasics, PlaceIs, PlaceNext
<1>14. lockPc' = [lockPc EXCEPT ![p] = "check"] /\ lockPc[p] = "lock"
    BY <1>4, <1>13, PcMoves
<1>15. Lock!Acquire(p)
    BY <1>14 DEF Lock!Acquire, lockPc
<1>. QED BY <1>12, <1>15 DEF Implements, Lock!Next, Lock!Step

(* The log is the locked file. *)
Enters(p) ==
    /\ OthersStay(p)
    /\ UNCHANGED <<path, path2, nfile, file, lock, head, new, locked, files, op>>
    /\ pc[p] = "check" /\ path = head[p]
    /\ pc'[p] \in {"view", "rot1", "fsck"}
    /\ pc'[p] = "rot1" => op[p] = "reset"

(* Finding the log where it was is CheckSame of LogLock. *)
LEMMA EntersImplements == ASSUME Safe, NEW p \in Procs, Enters(p) PROVE Implements
<1>. USE DEF Enters
<1>1. LProc(p) /\ nfile \in Nat /\ locked[p] \in BOOLEAN
    BY LBasics
<1>2. LFrame(p)
    BY <1>1 DEF LFrame
<1>3. OpenOK(p)'
    BY <1>1, <1>2, NewestStays DEF Safe, LProc, OpenOK
<1>4. PlacesOK(p)'
    BY <1>1 DEF LProc, PlacesOK, Rotating
<1>5. OwnerOK(p)' /\ NewOK(p)'
    BY <1>1 DEF LProc, OwnerOK, NewOK, Rotating, Working
<1>6. \A i \in Inodes : i > nfile' => lock'[i] = NoProc
    BY DEF Safe, LInv, NamesOK
<1>7. LInv'
    BY <1>2, <1>3, <1>4, <1>5, <1>6, LStep DEF Safe, LProc
<1>8. locked[p]
    BY <1>1 DEF LProc, PlacesOK
<1>9. LockPlace(p) = "check" /\ LockPlace(p)' = "crit"
    BY <1>8, LBasics, PlaceIs, PlaceNext DEF Rotating, NoLogPlaces
<1>10. lockPc' = [lockPc EXCEPT ![p] = "crit"] /\ lockPc[p] = "check"
    BY <1>9, PcMoves
<1>11. Lock!CheckSame(p)
    BY <1>10 DEF Lock!CheckSame, lockPc
<1>. QED BY <1>7, <1>11 DEF Implements, Lock!Next, Lock!Step

(* The log was rotated before the lock was granted. *)
LEMMA CheckChangedImplements == ASSUME Safe, NEW p \in Procs, CheckChanged(p) PROVE Implements
<1>. USE DEF CheckChanged, Goto, ghostVars
<1>1. /\ LProc(p) /\ nfile \in Nat /\ path \in 1..nfile
      /\ head[p] \in 1..nfile /\ head[p] \in Inodes /\ locked[p]
    BY LBasics DEF LProc, PlacesOK
<1>2. lock \in [Inodes -> Procs \cup {NoProc}] /\ lock[head[p]] = p
    BY <1>1 DEF Safe, TInv, Types, DiskTypes, LProc, OwnerOK
<1>3. lock' = [lock EXCEPT ![head[p]] = NoProc]
    BY <1>2 DEF FreeLock
<1>4. \A i \in Inodes : lock'[i] = IF i = head[p] THEN NoProc ELSE lock[i]
    BY <1>2, <1>3
<1>5. /\ pc[p] = "check" /\ pc'[p] = "lock" /\ locked'[p] = FALSE /\ head'[p] = path
      /\ files'[p] = {path} /\ UNCHANGED <<file, op, new, view, nfile, path, path2>>
    BY DEF Safe, TInv, Types, MemTypes
<1>6. OthersStay(p)
    <2>1. \A q \in Procs : q # p => sync'[q] = sync[q]
        BY DEF Only, Safe, TInv, Types, MemTypes
    <2>. QED BY <2>1 DEF Safe, TInv, Types, MemTypes, OthersStay
<1>7. LFrame(p)
    BY <1>1, <1>2, <1>4, <1>5, <1>6 DEF LFrame
<1>8. OpenOK(p)'
    BY <1>1, <1>5 DEF OpenOK, Newest
<1>9. PlacesOK(p)'
    BY <1>1, <1>5 DEF PlacesOK, LProc, Rotating
<1>10. \A i \in Inodes : lock'[i] # p
    BY <1>1, <1>4, <1>5, LogAssumption DEF LProc, OwnerOK, Rotating
<1>11. OwnerOK(p)'
    BY <1>5, <1>10 DEF OwnerOK
<1>12. NewOK(p)'
    BY <1>1, <1>5 DEF LProc, NewOK, Rotating
<1>13. \A i \in Inodes : i > nfile' => lock'[i] = NoProc
    BY <1>4, <1>5 DEF Safe, LInv, NamesOK
<1>14. LInv'
    BY <1>5, <1>7, <1>8, <1>9, <1>11, <1>12, <1>13, LStep DEF Safe, LProc
<1>15. LockPlace(p) = "check" /\ LockPlace(p)' = "lock"
    BY <1>5, LBasics, PlaceIs, PlaceNext
<1>16. lockPc' = [lockPc EXCEPT ![p] = "lock"] /\ lockPc[p] = "check"
    BY <1>6, <1>15, PcMoves
<1>17. Lock!CheckChanged(p)
    BY <1>3, <1>16 DEF Lock!CheckChanged, lockPc
<1>. QED BY <1>14, <1>17 DEF Implements, Lock!Next, Lock!Step

(* A reader follows the name. *)
LEMMA FindRefreshImplements == ASSUME Safe, NEW p \in Procs, FindRefresh(p) PROVE Implements
<1>. USE DEF FindRefresh, diskVars, ghostVars
<1>1. /\ LProc(p) /\ nfile \in Nat /\ path \in 1..nfile /\ pc[p] = "view" /\ ~locked[p]
      /\ head[p] \in 1..nfile
    BY LBasics DEF Finding
<1>2. ViewRange(p).tail # 0
    BY <1>1, RangeOK DEF Finding, Safe
<1>3. PICK l : l = IF Found(p) = <<>> THEN {path} ELSE files[p] \cup {path}
    OBVIOUS
<1>4. /\ head'[p] = path /\ files'[p] = l /\ view'[p] = ViewRange(p)
      /\ UNCHANGED <<file, lock, pc, op, new, locked, nfile, path, path2>>
    BY <1>3 DEF Safe, TInv, Types, MemTypes
<1>5. OthersStay(p)
    BY DEF Safe, TInv, Types, MemTypes, OthersStay
<1>. HIDE DEF FindRefresh
<1>6. LFrame(p)
    BY <1>1, <1>4, <1>5 DEF LFrame
<1>7. OpenOK(p)'
    <2>1. \A i \in l : Newest(i)
        BY <1>1, <1>3 DEF LProc, OpenOK, Newest
    <2>2. \A i \in l : Newest(i)'
        BY <1>6, <2>1, NewestStays DEF Safe
    <2>. QED BY <1>1, <1>2, <1>4, <2>2 DEF OpenOK
<1>8. PlacesOK(p)'
    BY <1>1, <1>4 DEF PlacesOK, LProc, Rotating
<1>9. OwnerOK(p)' /\ NewOK(p)'
    BY <1>1, <1>4 DEF LProc, OwnerOK, NewOK, Rotating
<1>10. \A i \in Inodes : i > nfile' => lock'[i] = NoProc
    BY <1>4 DEF Safe, LInv, NamesOK
<1>11. LInv'
    BY <1>4, <1>6, <1>7, <1>8, <1>9, <1>10, LStep DEF Safe, LProc
<1>12. LockPlace(p) = "idle" /\ LockPlace(p)' = "idle"
    BY <1>1, <1>4, LBasics, PlaceIs, PlaceNext DEF Rotating, NoLogPlaces
<1>13. lockPc' = lockPc /\ lockPc[p] = "idle"
    BY <1>5, <1>12, PcMoves DEF lockPc
<1>14. head' = [head EXCEPT ![p] = path]
    BY DEF FindRefresh
<1>15. Lock!Refresh(p)
    BY <1>4, <1>13, <1>14 DEF Lock!Refresh, lockPc
<1>. QED BY <1>11, <1>15 DEF Implements, Lock!Next, Lock!Step

(* The new log is created and locked. *)
LEMMA RotateCreateImplements == ASSUME Safe, NEW p \in Procs, RotateCreate(p) PROVE Implements
<1>. USE DEF RotateCreate, Goto, ghostVars
<1>1. /\ LProc(p) /\ nfile \in Nat /\ path \in 1..nfile /\ pc[p] = "rot1"
      /\ head[p] \in 1..nfile /\ head[p] \in Inodes
    BY LBasics
<1>2. locked[p] /\ head[p] = path /\ lock[path] = p /\ op[p] \in {"sync", "reset"}
    BY <1>1 DEF LProc, PlacesOK, OwnerOK, Rotating
<1>3. lock \in [Inodes -> Procs \cup {NoProc}] /\ file \in [Inodes -> FileT]
    BY DEF Safe, TInv, Types, DiskTypes
<1>4. PICK n \in Inodes : n = nfile + 1
    BY LogAssumption, <1>1 DEF Inodes
<1>5. nfile' = n /\ lock' = [lock EXCEPT ![n] = p] /\ new' = [new EXCEPT ![p] = n]
    BY <1>4
<1>6. PICK h : h = NewHeader(p)
    OBVIOUS
<1>7. file' = [file EXCEPT ![n] = h]
    BY <1>4, <1>5, <1>6
<1>8. h.seq > file[path].seq
    <2>1. PICK s : s = Max({map[p].seq, file[head[p]].seq})
        OBVIOUS
    <2>2. map[p].seq \in Nat /\ file[head[p]].seq \in Nat
        BY <1>1, FileOf, MapOf DEF Safe, TInv, Types, MemTypes
    <2>3. s \in Nat /\ file[head[p]].seq <= s
        BY <2>1, <2>2, MaxOfTwo
    <2>4. h.seq = s + 1
        BY <1>6, <2>1 DEF NewHeader, NoFile
    <2>. QED BY <1>2, <2>2, <2>3, <2>4
<1>9. PICK place \in {"rot2", "rot4"} : pc' = [pc EXCEPT ![p] = place]
    <2>1. PICK place : place = IF op[p] = "reset" \/ path = 0 THEN "rot4" ELSE "rot2"
        OBVIOUS
    <2>. QED BY <2>1
<1>10. UNCHANGED <<path, path2, index, newlock,
                   op, head, locked, bad, files, sync, map, idx, view, ghostVars>>
    OBVIOUS
<1>. HIDE DEF RotateCreate
<1>11. /\ pc'[p] \in Rotating /\ new'[p] = n
       /\ \A i \in Inodes : lock'[i] = IF i = n THEN p ELSE lock[i]
       /\ \A i \in Inodes : file'[i] = IF i = n THEN h ELSE file[i]
    BY <1>3, <1>5, <1>7, <1>9 DEF Safe, TInv, Types, MemTypes, Rotating
<1>12. OthersStay(p)
    BY <1>5, <1>9, <1>10 DEF Safe, TInv, Types, MemTypes, OthersStay
<1>13. \A i \in 1..nfile : i \in Inodes /\ i # n
    BY <1>1, <1>4, Allocated DEF Safe, TInv, Types
<1>14. lock[n] = NoProc
    BY <1>1, <1>4 DEF Safe, LInv, NamesOK
<1>15. LFrame(p)
    BY <1>1, <1>4, <1>5, <1>10, <1>11, <1>12, <1>13, <1>14 DEF LFrame
<1>16. OpenOK(p)'
    <2>1. \A i \in files[p] : Newest(i)'
        BY <1>1, <1>15, NewestStays DEF Safe, LProc, OpenOK
    <2>. QED BY <1>1, <1>10, <1>11, <2>1 DEF OpenOK, LProc, Rotating
<1>17. PlacesOK(p)'
    BY <1>2, <1>10, <1>11 DEF PlacesOK, Rotating
<1>18. OwnerOK(p)'
    <2>1. \A i \in Inodes : lock'[i] = p => i = head[p] \/ i = n
        BY <1>1, <1>11 DEF LProc, OwnerOK, Rotating
    <2>. QED BY <1>1, <1>2, <1>10, <1>11, <2>1 DEF OwnerOK
<1>19. NewOK(p)'
    BY <1>1, <1>8, <1>10, <1>11, <1>13 DEF NewOK
<1>20. \A i \in Inodes : i > nfile' => lock'[i] = NoProc
    <2>1. \A i \in Inodes : i > n => i > nfile /\ i # n
        BY <1>1, <1>4, InodesNat
    <2>. QED BY <1>5, <1>11, <2>1 DEF Safe, LInv, NamesOK
<1>21. LInv'
    BY <1>10, <1>15, <1>16, <1>17, <1>18, <1>19, <1>20, LStep DEF Safe, LProc
<1>22. LockPlace(p) = "crit" /\ LockPlace(p)' = "rot"
    BY <1>1, <1>2, <1>11, LBasics, PlaceIs, PlaceNext DEF Rotating, NoLogPlaces
<1>23. lockPc' = [lockPc EXCEPT ![p] = "rot"] /\ lockPc[p] = "crit"
    BY <1>12, <1>22, PcMoves
<1>24. n \in Inodes \ (1..nfile) /\ 1..nfile' = (1..nfile) \cup {n}
    BY <1>1, <1>4, <1>5
<1>25. Lock!RotateCreate(p)
    BY <1>5, <1>10, <1>23, <1>24 DEF Lock!RotateCreate, lockPc
<1>. QED BY <1>21, <1>25 DEF Implements, Lock!Next, Lock!Step

(* The rename did not work out. *)
LEMMA RotateFailImplements == ASSUME Safe, NEW p \in Procs, RotateFail(p) PROVE Implements
<1>. USE DEF RotateFail, Goto, ghostVars
<1>1. /\ LProc(p) /\ nfile \in Nat /\ path \in 1..nfile /\ pc[p] = "rot4" /\ op[p] = "sync"
      /\ head[p] \in 1..nfile /\ head[p] \in Inodes
    BY LBasics
<1>2. /\ locked[p] /\ head[p] = path /\ lock[path] = p /\ lock[new[p]] = p
      /\ file[new[p]].seq > file[path].seq
    BY <1>1 DEF LProc, PlacesOK, OwnerOK, NewOK, Rotating
<1>3. new[p] \in 1..nfile /\ new[p] \in Inodes
    <2>1. new[p] \in 1..nfile
        BY <1>1 DEF Safe, TInv, ProcOK, HandlesOK, Rotating
    <2>. QED BY <2>1, Allocated DEF Safe, TInv, Types
<1>4. new[p] # head[p]
    <2>1. file[path].seq \in Nat
        BY LBasics, FileOf DEF Safe, TInv, Types
    <2>. QED BY <1>2, <2>1
<1>5. lock \in [Inodes -> Procs \cup {NoProc}]
    BY DEF Safe, TInv, Types, DiskTypes
<1>6. lock' = [lock EXCEPT ![new[p]] = NoProc]
    BY <1>2 DEF FreeLock
<1>7. \A i \in Inodes : lock'[i] = IF i = new[p] THEN NoProc ELSE lock[i]
    BY <1>5, <1>6
<1>8. /\ pc'[p] = "synced" /\ new'[p] = 0
      /\ UNCHANGED <<file, op, head, locked, files, view, nfile, path, path2>>
    BY DEF Safe, TInv, Types, MemTypes
<1>9. OthersStay(p)
    BY DEF Safe, TInv, Types, MemTypes, OthersStay
<1>10. LFrame(p)
    BY <1>1, <1>2, <1>7, <1>8, <1>9 DEF LFrame
<1>11. OpenOK(p)'
    <2>1. \A i \in files[p] : Newest(i)'
        BY <1>1, <1>10, NewestStays DEF Safe, LProc, OpenOK
    <2>. QED BY <1>1, <1>8, <2>1 DEF OpenOK, LProc
<1>12. PlacesOK(p)'
    BY <1>1, <1>2, <1>8 DEF PlacesOK, Rotating
<1>13. OwnerOK(p)'
    <2>1. \A i \in Inodes : lock'[i] = p => i = head[p]
        BY <1>1, <1>7, LogAssumption DEF LProc, OwnerOK
    <2>. QED BY <1>1, <1>2, <1>4, <1>7, <1>8, <2>1 DEF OwnerOK
<1>14. NewOK(p)'
    BY <1>8 DEF NewOK, Rotating
<1>15. \A i \in Inodes : i > nfile' => lock'[i] = NoProc
    BY <1>7, <1>8 DEF Safe, LInv, NamesOK
<1>16. LInv'
    BY <1>8, <1>10, <1>11, <1>12, <1>13, <1>14, <1>15, LStep DEF Safe, LProc
<1>17. LockPlace(p) = "rot" /\ LockPlace(p)' = "crit"
    BY <1>1, <1>2, <1>8, LBasics, PlaceIs, PlaceNext DEF Rotating, NoLogPlaces
<1>18. lockPc' = [lockPc EXCEPT ![p] = "crit"] /\ lockPc[p] = "rot"
    BY <1>9, <1>17, PcMoves
<1>19. Lock!RotateFail(p)
    BY <1>6, <1>18 DEF Lock!RotateFail, lockPc
<1>. QED BY <1>16, <1>19 DEF Implements, Lock!Next, Lock!Step

(* The new log takes the name.  Nobody else can have the old one locked,   *)
(* and every other file that is open is older than the new one.            *)
LEMMA RotateRenameImplements == ASSUME Safe, NEW p \in Procs, RotateRename(p) PROVE Implements
<1>. USE DEF RotateRename, Goto
<1>1. /\ LProc(p) /\ nfile \in Nat /\ path \in 1..nfile /\ path \in Inodes /\ pc[p] = "rot4"
      /\ head[p] \in 1..nfile /\ head[p] \in Inodes
    BY LBasics
<1>2. /\ locked[p] /\ head[p] = path /\ lock[path] = p /\ lock[new[p]] = p
      /\ file[new[p]].seq > file[path].seq /\ op[p] \in {"sync", "reset"}
    BY <1>1 DEF LProc, PlacesOK, OwnerOK, NewOK, Rotating
<1>3. new[p] \in 1..nfile /\ new[p] \in Inodes
    <2>1. new[p] \in 1..nfile
        BY <1>1 DEF Safe, TInv, ProcOK, HandlesOK, Rotating
    <2>. QED BY <2>1, Allocated DEF Safe, TInv, Types
<1>4. \A i \in Inodes : file[i].seq \in Nat
    BY FileOf DEF Safe, TInv, Types
<1>5. new[p] # path
    BY <1>1, <1>2, <1>4
<1>6. lock \in [Inodes -> Procs \cup {NoProc}]
    BY DEF Safe, TInv, Types, DiskTypes
<1>7. lock' = [lock EXCEPT ![path] = NoProc]
    BY <1>2 DEF FreeLock
<1>8. \A i \in Inodes : lock'[i] = IF i = path THEN NoProc ELSE lock[i]
    BY <1>6, <1>7
<1>9. /\ pc'[p] \in {"view", "rotated"} /\ new'[p] = 0 /\ head'[p] = new[p]
      /\ files'[p] = {new[p]} /\ path' = new[p]
      /\ pc'[p] = "view" => op'[p] = "fill"
      /\ pc'[p] = "rotated" => op'[p] = "sync"
      /\ UNCHANGED <<file, locked, nfile, path2>>
    BY <1>2 DEF Safe, TInv, Types, MemTypes
<1>10. head' = [head EXCEPT ![p] = new[p]] /\ new' = [new EXCEPT ![p] = 0]
    OBVIOUS
<1>11. OthersStay(p)
    <2>1. \A q \in Procs : q # p => sync'[q] = sync[q]
        BY DEF Only, Safe, TInv, Types, MemTypes
    <2>2. \A q \in Procs : q # p => map'[q] = map[q] /\ op'[q] = op[q] /\ pc'[q] = pc[q]
        BY DEF Safe, TInv, Types, MemTypes
    <2>. QED BY <2>1, <2>2 DEF Safe, TInv, Types, MemTypes, OthersStay
<1>. HIDE DEF RotateRename
<1>12. ASSUME NEW i, Newest(i) PROVE Newest(i)'
    <2>1. i \in Inodes /\ i \in 1..nfile
        BY <1>12, Allocated DEF Newest, Safe, TInv, Types
    <2>2. i # new[p] => file[i].seq < file[new[p]].seq
        BY <1>1, <1>2, <1>3, <1>4, <1>12, <2>1 DEF Newest
    <2>. QED BY <1>9, <2>1, <2>2 DEF Newest
<1>13. ASSUME NEW q \in Procs, q # p PROVE LProc(q)'
    <2>1. /\ pc'[q] = pc[q] /\ op'[q] = op[q] /\ head'[q] = head[q] /\ new'[q] = new[q]
          /\ locked'[q] = locked[q] /\ files'[q] = files[q] /\ view'[q] = view[q]
        BY <1>11, <1>13 DEF OthersStay
    <2>2. LProc(q)
        BY DEF Safe, LInv
    <2>3. \A i \in Inodes : lock'[i] = q <=> lock[i] = q
        BY <1>2, <1>8, <1>13, LogAssumption
    <2>4. locked[q] => pc[q] = "check"
        BY <1>2, <1>13, <2>2 DEF LProc, OwnerOK
    <2>5. pc[q] \notin Rotating
        BY <2>2, <2>4 DEF LProc, PlacesOK, Rotating
    <2>6. OpenOK(q)'
        BY <1>12, <2>1, <2>2 DEF LProc, OpenOK
    <2>7. PlacesOK(q)'
        BY <2>1, <2>2 DEF LProc, PlacesOK
    <2>8. locked[q] => head[q] \in Inodes
        BY <2>4, LBasics
    <2>9. OwnerOK(q)'
        BY <2>1, <2>2, <2>3, <2>4, <2>8 DEF LProc, OwnerOK
    <2>10. NewOK(q)'
        BY <2>1, <2>2, <2>5 DEF LProc, NewOK
    <2>. QED BY <2>6, <2>7, <2>9, <2>10 DEF LProc
<1>14. LProc(p)'
    <2>1. OpenOK(p)'
        BY <1>3, <1>9 DEF OpenOK, Newest
    <2>2. PlacesOK(p)'
        BY <1>2, <1>9 DEF PlacesOK, Rotating
    <2>3. \A i \in Inodes : lock'[i] = p => i = new[p]
        BY <1>1, <1>2, <1>8, LogAssumption DEF LProc, OwnerOK
    <2>4. OwnerOK(p)'
        BY <1>2, <1>3, <1>5, <1>8, <1>9, <2>3 DEF OwnerOK
    <2>5. NewOK(p)'
        BY <1>9 DEF NewOK, Rotating
    <2>. QED BY <2>1, <2>2, <2>4, <2>5 DEF LProc
<1>15. NamesOK'
    <2>1. path2' # 0 => Newest(path2)'
        <3>. SUFFICES ASSUME path2' # 0 PROVE Newest(path2)'
            OBVIOUS
        <3>1. PICK i : i = path2 /\ Newest(i)
            BY <1>9 DEF Safe, LInv, NamesOK
        <3>2. Newest(i)'
            BY <1>12, <3>1
        <3>. QED BY <1>9, <3>1, <3>2 DEF Newest
    <2>. QED BY <1>3, <1>8, <1>9, <2>1 DEF NamesOK, Safe, LInv
<1>16. LInv'
    BY <1>13, <1>14, <1>15 DEF LInv
<1>17. LockPlace(p) = "rot" /\ LockPlace(p)' = "crit"
    BY <1>1, <1>2, <1>9, LBasics, PlaceIs, PlaceNext DEF Rotating, NoLogPlaces
<1>18. lockPc' = [lockPc EXCEPT ![p] = "crit"] /\ lockPc[p] = "rot"
    BY <1>11, <1>17, PcMoves
<1>19. Lock!RotateRename(p)
    BY <1>2, <1>7, <1>9, <1>10, <1>18 DEF Lock!RotateRename, lockPc
<1>. QED BY <1>16, <1>19 DEF Implements, Lock!Next, Lock!Step

-----------------------------------------------------------------------------
(* The steps of the log, kind by kind *)

(* Records are written to a file and cut off, but its header stays. *)
LEMMA HeadersStay ==
    ASSUME TInv, NEW i \in Inodes, NEW e, file' = [file EXCEPT ![i].data = Append(@, e)]
    PROVE  \A j \in 1..nfile : file'[j].seq = file[j].seq
<1>1. PICK f \in FileT : f = file[i]
    BY DEF TInv, Types, DiskTypes
<1>2. PICK g : g = [f EXCEPT !.data = Append(f.data, e)]
    OBVIOUS
<1>3. g.seq = f.seq
    <2>1. PICK a : a = Append(f.data, e)
        OBVIOUS
    <2>2. g = [f EXCEPT !.data = a]
        BY <1>2, <2>1
    <2>. QED BY <2>2 DEF FileT
<1>4. file' = [file EXCEPT ![i] = g]
    BY <1>1, <1>2
<1>5. file \in [Inodes -> FileT]
    BY DEF TInv, Types, DiskTypes
<1>6. \A j \in Inodes : file'[j] = IF j = i THEN g ELSE file[j]
    BY <1>4, <1>5
<1>7. \A j \in 1..nfile : j \in Inodes
    BY Allocated DEF TInv, Types
<1>. QED BY <1>1, <1>3, <1>6, <1>7

(* Marking a file or cutting it leaves its sequence. *)
LEMMA ShrinksSeq ==
    ASSUME TInv, Shrinks
    PROVE  \A j \in 1..nfile : file'[j].seq = file[j].seq
<1>1. \A j \in 1..nfile : j \in Inodes
    BY Allocated DEF TInv, Types
<1>. QED BY <1>1 DEF Shrinks

(* Steps that leave files, locks and handles alone: .log.2 and the .newlock *)
(* are no concern of LogLock.                                               *)
LEMMA QuietImplements ==
    ASSUME Safe, NEW p \in Procs,
           \/ OpenIndex(p) \/ Refresh(p) \/ UnlinkIndex(p) \/ RotateBegin(p)
           \/ RotateBroken(p) \/ RotateUnlink(p) \/ RotateLink(p)
    PROVE  Implements
<1>. USE DEF OpenIndex, Refresh, UnlinkIndex, RotateBegin, RotateBroken, RotateUnlink, RotateLink,
             Goto, diskVars, ghostVars
<1>1. LProc(p)
    BY LBasics
<1>2. OthersStay(p)
    BY DEF Safe, TInv, Types, MemTypes, OthersStay
<1>3. /\ UNCHANGED <<path, nfile, lock, head, new, locked, file, files>>
      /\ path2' \in {0, path} \/ path2' = path2
    OBVIOUS
<1>4. \/ pc[p] = "openidx" /\ pc'[p] = "view" /\ op'[p] = "read"
      \/ pc[p] = "idle" /\ pc'[p] = "view" /\ op'[p] = "read"
      \/ pc[p] = "unlinkidx" /\ pc'[p] = "view" /\ op'[p] = op[p]
      \/ pc[p] = "synced" /\ pc'[p] = "rot1" /\ op'[p] = op[p]
      \/ pc[p] = "rot1" /\ pc'[p] = "synced" /\ op'[p] = op[p] /\ op[p] # "reset"
      \/ pc[p] = "rot2" /\ pc'[p] = "rot3" /\ op'[p] = op[p]
      \/ pc[p] = "rot3" /\ pc'[p] = "rot4" /\ op'[p] = op[p]
    BY DEF Safe, TInv, Types, MemTypes
<1>. HIDE DEF OpenIndex, Refresh, UnlinkIndex, RotateBegin, RotateBroken, RotateUnlink, RotateLink
<1>5. files[p] = {head[p]} /\ \A i \in files[p] : Newest(i)
    BY <1>1, <1>4 DEF LProc, OpenOK
<1>6. PlacesOK(p)'
    BY <1>1, <1>3, <1>4 DEF LProc, PlacesOK, Rotating
<1>7. {pc[p], pc'[p]} \subseteq Working \/ {pc[p], pc'[p]} \subseteq Rotating
    BY <1>4 DEF Working, Rotating, Places
<1>8. GoesOn(p)
    BY <1>2, <1>3, <1>5, <1>6, <1>7 DEF GoesOn
<1>. QED BY <1>8, GoesOnImplements

(* Writing to the head leaves its header. *)
LEMMA WriteImplements ==
    ASSUME Safe, NEW p \in Procs, WritePart(p) \/ WriteRest(p)
    PROVE  Implements
<1>. USE DEF WritePart, WriteRest, Goto
<1>1. LProc(p) /\ head[p] \in Inodes
    BY LBasics
<1>2. OthersStay(p)
    BY DEF Safe, TInv, Types, MemTypes, OthersStay
<1>3. UNCHANGED <<path, path2, nfile, lock, head, new, locked, files, op>>
    OBVIOUS
<1>4. \E e : file' = [file EXCEPT ![head[p]].data = Append(@, e)]
    OBVIOUS
<1>5. \A i \in 1..nfile : file'[i].seq = file[i].seq
    <2>1. PICK e : file' = [file EXCEPT ![head[p]].data = Append(@, e)]
        BY <1>4
    <2>. HIDE DEF WritePart, WriteRest
    <2>. QED BY <1>1, <2>1, HeadersStay DEF Safe
<1>6. pc[p] \in {"write", "synced", "write2"} /\ pc'[p] \in {"write2", "fsync"}
    BY DEF Safe, TInv, Types, MemTypes
<1>. HIDE DEF WritePart, WriteRest
<1>7. files[p] = {head[p]} /\ \A i \in files[p] : Newest(i)
    BY <1>1, <1>6 DEF LProc, OpenOK
<1>8. PlacesOK(p)'
    BY <1>1, <1>3, <1>6 DEF LProc, PlacesOK, Rotating
<1>9. {pc[p], pc'[p]} \subseteq Working
    BY <1>6 DEF Working, Rotating, Places
<1>10. GoesOn(p)
    BY <1>2, <1>3, <1>5, <1>6, <1>7, <1>8, <1>9 DEF GoesOn
<1>. QED BY <1>10, GoesOnImplements

(* Starting over from dovecot.index keeps the lock, if there is one. *)
LEMMA ReopenImplements == ASSUME Safe, NEW p \in Procs, Reopen(p) PROVE Implements
<1>. USE DEF Reopen, Goto, Ident, diskVars, ghostVars
<1>1. LProc(p)
    BY LBasics
<1>2. OthersStay(p)
    BY DEF Safe, TInv, Types, MemTypes, OthersStay
<1>3. UNCHANGED <<path, path2, nfile, lock, head, new, locked, file, files, op>>
    OBVIOUS
<1>4. pc[p] = "lost" \/ (pc[p] = "view" /\ view[p].tail = 0)
    BY DEF Lost
<1>5. pc'[p] = "view"
    BY DEF Safe, TInv, Types, MemTypes
<1>. HIDE DEF Reopen
<1>6. files[p] = {head[p]} /\ \A i \in files[p] : Newest(i)
    BY <1>1, <1>4 DEF LProc, OpenOK
<1>7. PlacesOK(p)'
    BY <1>1, <1>3, <1>4, <1>5 DEF LProc, PlacesOK, Rotating
<1>8. {pc[p], pc'[p]} \subseteq Working
    BY <1>4, <1>5 DEF Working, Rotating, Places
<1>9. GoesOn(p)
    BY <1>2, <1>3, <1>5, <1>6, <1>7, <1>8 DEF GoesOn
<1>. QED BY <1>9, GoesOnImplements

(* The repair needs the lock: who has it goes on, others start to wait. *)
LEMMA LostFsckImplements == ASSUME Safe, NEW p \in Procs, LostFsck(p) PROVE Implements
<1>. USE DEF LostFsck, Goto, diskVars, ghostVars
<1>1. LProc(p) /\ locked[p] \in BOOLEAN
    BY LBasics
<1>2. OthersStay(p)
    BY DEF Safe, TInv, Types, MemTypes, OthersStay
<1>3. UNCHANGED <<path, path2, nfile, lock, head, new, locked, file, files>>
    OBVIOUS
<1>4. pc[p] = "lost" \/ (pc[p] = "view" /\ view[p].tail = 0)
    BY DEF Lost
<1>5. /\ locked[p] => pc'[p] = "fsck" /\ op' = op
      /\ ~locked[p] => pc'[p] = "lock" /\ op'[p] = "fsck"
    BY DEF Safe, TInv, Types, MemTypes
<1>. HIDE DEF LostFsck
<1>6. files[p] = {head[p]} /\ \A i \in files[p] : Newest(i)
    BY <1>1, <1>4 DEF LProc, OpenOK
<1>7. pc[p] \in Working
    BY <1>4 DEF Working, Rotating, Places
<1>8. CASE locked[p]
    <2>1. PlacesOK(p)'
        BY <1>1, <1>3, <1>4, <1>5, <1>8 DEF LProc, PlacesOK, Rotating
    <2>2. pc'[p] \in Working
        BY <1>5, <1>8 DEF Working, Rotating, Places
    <2>3. GoesOn(p)
        BY <1>2, <1>3, <1>5, <1>6, <1>7, <1>8, <2>1, <2>2 DEF GoesOn
    <2>. QED BY <2>3, GoesOnImplements
<1>9. CASE ~locked[p]
    <2>1. Waits(p)
        BY <1>2, <1>3, <1>5, <1>6, <1>7, <1>9 DEF Waits
    <2>. QED BY <2>1, WaitsImplements
<1>. QED BY <1>8, <1>9

(* A commit, a sync or a reset starts. *)
LEMMA BeginImplements == ASSUME Safe, NEW p \in Procs, Begin(p) PROVE Implements
<1>. USE DEF Begin, Goto
<1>1. LProc(p) /\ locked[p] \in BOOLEAN
    BY LBasics
<1>2. OthersStay(p)
    BY DEF Safe, TInv, Types, MemTypes, OthersStay
<1>3. /\ UNCHANGED <<path, nfile, lock, head, new, locked, file, files>>
      /\ path2' = 0 \/ path2' = path2
    OBVIOUS
<1>4. pc[p] = "idle" /\ pc'[p] = "lock" /\ op'[p] # "read"
    BY DEF Safe, TInv, Types, MemTypes
<1>. HIDE DEF Begin
<1>5. files[p] = {head[p]} /\ ~locked[p]
    BY <1>1, <1>4 DEF LProc, OpenOK, PlacesOK
<1>6. Waits(p)
    BY <1>2, <1>3, <1>4, <1>5 DEF Waits, Working, Places, Rotating
<1>. QED BY <1>6, WaitsImplements

(* A commit, a reset or a sync has the log. *)
LEMMA EnterImplements ==
    ASSUME Safe, NEW p \in Procs, CheckSame(p) \/ ResetBegin(p) \/ SyncLock(p)
    PROVE  Implements
<1>. USE DEF CheckSame, ResetBegin, SyncLock, Goto, diskVars, ghostVars
<1>1. OthersStay(p)
    <2>1. \A q \in Procs : q # p => sync'[q] = sync[q]
        BY DEF Only, Safe, TInv, Types, MemTypes
    <2>. QED BY <2>1 DEF Safe, TInv, Types, MemTypes, OthersStay
<1>2. UNCHANGED <<path, path2, nfile, file, lock, head, new, locked, files, op>>
    OBVIOUS
<1>3. /\ pc[p] = "check" /\ path = head[p] /\ pc'[p] \in {"view", "rot1", "fsck"}
      /\ pc'[p] = "rot1" => op[p] = "reset"
    BY DEF Safe, TInv, Types, MemTypes
<1>4. Enters(p)
    BY <1>1, <1>2, <1>3 DEF Enters
<1>. QED BY <1>4, EntersImplements

(* The process closes the index, gives it up or dies. *)
LEMMA ForgettersImplement ==
    ASSUME Safe, NEW p \in Procs,
           \/ Close(p) \/ Crash(p) \/ CrashInWrite(p) \/ IndexGone(p) \/ IndexWriteFail(p)
    PROVE  Implements
<1>1. /\ Forget(p) /\ pc[p] # "closed" /\ UNCHANGED <<path, path2, nfile>> /\ file' = file
    BY DEF Close, Crash, CrashInWrite, IndexGone, IndexWriteFail, Lost
<1>. QED BY <1>1, ForgetImplements

(* A failed write is cut off and the process leaves the log. *)
LEMMA MoversImplement ==
    ASSUME Safe, NEW p \in Procs, WriteFail(p) \/ FsyncFail(p)
    PROVE  Implements
<1>1. MoveToMemory(p) /\ pc[p] \in {"write2", "fsync"}
    BY DEF WriteFail, FsyncFail
<1>2. Forget(p) /\ UNCHANGED <<path, path2, nfile>>
    BY <1>1 DEF MoveToMemory
<1>3. count'.txns = count.txns
    <2>1. count \in CountT
        BY DEF Safe, TInv, Types, GhostTypes
    <2>2. count' = [count EXCEPT !.crashes = @ + 1]
        BY <1>1 DEF MoveToMemory
    <2>. QED BY <2>1, <2>2 DEF CountT
<1>4. Shrinks
    BY <1>1, <1>2, <1>3, CutAtSync DEF MoveToMemory, Safe, NoLogPlaces
<1>. QED BY <1>1, <1>2, <1>4, ShrinksSeq, ForgetImplements DEF Safe

(* The operation ends without having done anything. *)
LEMMA GiveUpImplements ==
    ASSUME Safe, NEW p \in Procs, GiveUp(p), path' = path, Shrinks,
           pc[p] \in {"lock", "view", "lost", "trunc"}
    PROVE  Implements
<1>. USE DEF GiveUp, Goto
<1>1. OthersStay(p)
    BY DEF Safe, TInv, Types, MemTypes, OthersStay
<1>2. /\ UNCHANGED <<path, path2, nfile, head, new>> /\ lock' = FreeLock(p, head[p])
      /\ pc'[p] = "idle" /\ op'[p] = "none" /\ files'[p] = {head[p]}
    BY DEF Safe, TInv, Types, MemTypes
<1>3. ~locked'[p]
    BY DEF Safe, TInv, Types, MemTypes
<1>. HIDE DEF GiveUp
<1>4. \A i \in 1..nfile : file'[i].seq = file[i].seq
    BY ShrinksSeq DEF Safe
<1>5. pc[p] \in Working \cup {"lock"}
    BY DEF Working, Places, Rotating
<1>6. Releases(p)
    BY <1>1, <1>2, <1>3, <1>4, <1>5 DEF Releases
<1>. QED BY <1>6, ReleasesImplements

(* Giving up without damage leaves the name where it is. *)
LEMMA GiversUpImplement ==
    ASSUME Safe, ~Damaged, NEW p \in Procs,
           Timeout(p) \/ FindUnusable(p) \/ LostFail(p) \/ Trunc(p)
    PROVE  Implements
<1>1. GiveUp(p) /\ pc[p] \in {"lock", "view", "lost", "trunc"}
    BY DEF Timeout, FindUnusable, LostFail, Trunc, Lost, Finding
<1>2. path' = path
    <2>1. file[path].ok
        BY LBasics DEF Damaged
    <2>. QED BY <2>1 DEF Timeout, FindUnusable, LostFail, Trunc
<1>3. nfile' = nfile /\ count'.txns = count.txns
    BY <1>1 DEF GiveUp, ghostVars
<1>4. file' = file \/ file' = Truncated(p)
    BY DEF Timeout, FindUnusable, LostFail, Trunc
<1>5. Shrinks
    BY <1>1, <1>3, <1>4, Uncut, TruncatedOK DEF Safe, NoLogPlaces
<1>. QED BY <1>1, <1>2, <1>5, GiveUpImplements

(* mail_index_fsck() keeps the lock in a sync, and drops it otherwise. *)
LEMMA FsckImplements ==
    ASSUME Safe, NEW p \in Procs, Fsck(p), op[p] # "reset"
    PROVE  Implements
<1>. USE DEF Fsck, Goto
<1>1. LProc(p) /\ locked[p] \in BOOLEAN
    BY LBasics
<1>2. OthersStay(p)
    BY DEF Safe, TInv, Types, MemTypes, OthersStay
<1>3. UNCHANGED <<path, path2, nfile, head, new, file, files>>
    OBVIOUS
<1>4. /\ pc[p] = "fsck" /\ pc'[p] = "view"
      /\ op'[p] = IF op[p] = "fsck" THEN "read" ELSE op[p]
    BY DEF Safe, TInv, Types, MemTypes
<1>6. lock' = IF op[p] = "sync" THEN lock ELSE FreeLock(p, head[p])
    OBVIOUS
<1>7. locked' = [locked EXCEPT ![p] = (op[p] = "sync")]
    OBVIOUS
<1>. HIDE DEF Fsck
<1>8. files[p] = {head[p]} /\ \A i \in files[p] : Newest(i)
    BY <1>1, <1>4 DEF LProc, OpenOK
<1>9. CASE op[p] = "sync"
    <2>1. locked[p] = TRUE
        BY <1>1, <1>4 DEF LProc, PlacesOK
    <2>2. locked' = locked
        BY <1>7, <1>9, <2>1 DEF Safe, TInv, Types, MemTypes
    <2>3. PlacesOK(p)'
        BY <1>4, <1>9, <2>1, <2>2 DEF PlacesOK, Rotating
    <2>4. {pc[p], pc'[p]} \subseteq Working
        BY <1>4 DEF Working, Rotating, Places
    <2>5. GoesOn(p)
        BY <1>2, <1>3, <1>4, <1>6, <1>8, <1>9, <2>2, <2>3, <2>4 DEF GoesOn
    <2>. QED BY <2>5, GoesOnImplements
<1>10. CASE op[p] # "sync"
    <2>1. ~locked'[p]
        <3>1. locked' = [locked EXCEPT ![p] = FALSE]
            BY <1>7, <1>10
        <3>. QED BY <3>1 DEF Safe, TInv, Types, MemTypes
    <2>2. Releases(p)
        BY <1>2, <1>3, <1>4, <1>6, <1>8, <1>10, <2>1 DEF Releases, Working, Rotating, Places
    <2>. QED BY <2>2, ReleasesImplements
<1>. QED BY <1>9, <1>10

(* The transaction is in the log: unlock. *)
LEMMA CommittedImplements ==
    ASSUME Safe, NEW p \in Procs, Committed(p), pc[p] \in {"write", "fsync"},
           UNCHANGED <<path, path2, nfile, head, new, file, files, map, idx, view>>,
           \A q \in Procs : q # p => sync'[q] = sync[q]
    PROVE  Implements
<1>. USE DEF Committed, Goto
<1>1. LProc(p)
    BY LBasics
<1>2. OthersStay(p)
    BY DEF Safe, TInv, Types, MemTypes, OthersStay
<1>3. /\ pc'[p] \in {"view", "unlinkidx"} /\ op'[p] = "read" /\ lock' = FreeLock(p, head[p])
    BY DEF Safe, TInv, Types, MemTypes
<1>4. ~locked'[p]
    BY DEF Safe, TInv, Types, MemTypes
<1>. HIDE DEF Committed
<1>5. files[p] = {head[p]}
    BY <1>1 DEF LProc, OpenOK
<1>6. Releases(p)
    BY <1>2, <1>3, <1>4, <1>5 DEF Releases, Working, Rotating, Places
<1>. QED BY <1>6, ReleasesImplements

(* Nothing was written: unlock. *)
LEMMA WriteNothingImplements == ASSUME Safe, NEW p \in Procs, WriteNothing(p) PROVE Implements
<1>1. /\ Committed(p) /\ pc[p] = "write"
      /\ UNCHANGED <<path, path2, nfile, head, new, file, files, map, idx, view, sync>>
    BY DEF WriteNothing
<1>. QED BY <1>1, CommittedImplements

(* A commit unlocks now, a sync goes on. *)
LEMMA FsyncedImplements == ASSUME Safe, NEW p \in Procs, Fsynced(p) PROVE Implements
<1>. USE DEF Fsynced, Goto
<1>1. LProc(p)
    BY LBasics
<1>2. \A q \in Procs : q # p => sync'[q] = sync[q]
    <2>1. PICK s : s = [sync[p] EXCEPT ![head[p]] = @ + TxnSize]
        OBVIOUS
    <2>2. sync' = [sync EXCEPT ![p] = s]
        BY <2>1
    <2>. HIDE DEF Fsynced
    <2>. QED BY <2>2 DEF Safe, TInv, Types, MemTypes
<1>3. UNCHANGED <<path, path2, nfile, head, new, file, files, map, idx, view>> /\ pc[p] = "fsync"
    OBVIOUS
<1>4. CASE op[p] = "sync"
    <2>1. UNCHANGED <<lock, locked, op>> /\ pc' = [pc EXCEPT ![p] = "view"]
        BY <1>4
    <2>. HIDE DEF Fsynced
    <2>2. pc'[p] = "view"
        BY <2>1 DEF Safe, TInv, Types, MemTypes
    <2>3. OthersStay(p)
        BY <1>2, <1>3, <2>1 DEF Safe, TInv, Types, MemTypes, OthersStay
    <2>4. files[p] = {head[p]} /\ \A i \in files[p] : Newest(i)
        BY <1>1, <1>3 DEF LProc, OpenOK
    <2>5. PlacesOK(p)'
        BY <1>1, <1>3, <2>1, <2>2 DEF LProc, PlacesOK, Rotating
    <2>6. {pc[p], pc'[p]} \subseteq Working
        BY <1>3, <2>2 DEF Working, Rotating, Places
    <2>7. GoesOn(p)
        BY <1>3, <2>1, <2>2, <2>3, <2>4, <2>5, <2>6 DEF GoesOn
    <2>. QED BY <2>7, GoesOnImplements
<1>5. CASE op[p] # "sync"
    <2>1. Committed(p)
        BY <1>5
    <2>. HIDE DEF Fsynced
    <2>. QED BY <1>2, <1>3, <2>1, CommittedImplements
<1>. QED BY <1>4, <1>5

(* The sync is over: unlock. *)
LEMMA SyncEndImplements ==
    ASSUME Safe, NEW p \in Procs, WriteIndex(p) \/ SkipIndex(p)
    PROVE  Implements
<1>. USE DEF WriteIndex, SkipIndex, SyncEnd, Goto
<1>1. LProc(p)
    BY LBasics
<1>2. OthersStay(p)
    BY DEF Safe, TInv, Types, MemTypes, OthersStay
<1>3. /\ pc[p] \in {"synced", "rotated"} /\ pc'[p] = "idle" /\ op'[p] = "none"
      /\ UNCHANGED <<path, path2, nfile, head, new, file, files>>
      /\ lock' = FreeLock(p, head[p])
    BY DEF Safe, TInv, Types, MemTypes
<1>4. ~locked'[p]
    BY DEF Safe, TInv, Types, MemTypes
<1>. HIDE DEF WriteIndex, SkipIndex, SyncEnd
<1>5. files[p] = {head[p]}
    BY <1>1, <1>3 DEF LProc, OpenOK
<1>6. Releases(p)
    BY <1>2, <1>3, <1>4, <1>5 DEF Releases, Working, Rotating, Places
<1>. QED BY <1>6, ReleasesImplements

(* The search for the files of a range opens the head's predecessor only. *)
LEMMA SearchedImplements ==
    ASSUME Safe, NEW p \in Procs, pc[p] = "view", NEW list, Searched(p, list),
           \A i \in list : Newest(i),
           path2' = 0 \/ path2' = path2,
           UNCHANGED <<file, nfile, path, lock, op, head, new, locked, sync, map, idx>>
    PROVE  Implements
<1>1. LProc(p)
    BY LBasics
<1>2. OthersStay(p)
    BY DEF Searched, OthersStay
<1>3. /\ pc'[p] \in {"view", "mapf", "lost"} /\ \A i \in files'[p] : Newest(i)
      /\ pc'[p] = "view" => view'[p].tail # 0
      /\ pc'[p] = "lost" => files'[p] = {head[p]}
    BY DEF Searched
<1>4. PlacesOK(p)'
    BY <1>1, <1>3 DEF LProc, PlacesOK, Rotating
<1>5. {pc[p], pc'[p]} \subseteq Working
    BY <1>3 DEF Working, Rotating, Places
<1>6. GoesOn(p)
    BY <1>2, <1>3, <1>4, <1>5 DEF GoesOn
<1>. QED BY <1>6, GoesOnImplements

(* The files found are all there are. *)
LEMMA FindEndImplements == ASSUME Safe, NEW p \in Procs, FindEnd(p) PROVE Implements
<1>1. /\ Finding(p) /\ pc[p] = "view" /\ NotFound(p, files[p])
      /\ UNCHANGED <<diskVars, op, head, new, locked, bad, sync, map, idx, ghostVars>>
    BY DEF FindEnd, Finding
<1>2. LProc(p) /\ head[p] \in files[p]
    BY <1>1, LBasics
<1>3. files[p] \subseteq 1..nfile /\ \A i \in files[p] : Newest(i)
    BY <1>2 DEF Safe, TInv, ProcOK, HandlesOK, LProc, OpenOK
<1>4. Searched(p, files[p])
    BY <1>1, <1>2, <1>3, NotFoundOK DEF Safe
<1>. QED BY <1>1, <1>3, <1>4, SearchedImplements DEF diskVars

(* With flock() closing the .log.2 that is open already unlocks nothing. *)
LEMMA FindOldImplements ==
    ASSUME Safe, LockMethod = "flock", NEW p \in Procs, FindOld(p)
    PROVE  Implements
<1>. DEFINE reset == \E i \in files[p] : file[i].seq > Wanted(p) /\ file[i].prevSeq = 0
            opens == ~reset /\ path2 # 0
            dupe == opens /\ path2 \in files[p]
            broken == opens /\ ~dupe /\ ~Usable(p, path2)
            list == files[p] \cup (IF opens /\ ~dupe /\ ~broken THEN {path2} ELSE {})
<1>1. /\ Finding(p)
      /\ path2' = IF broken THEN 0 ELSE path2
      /\ lock' = lock
      /\ UNCHANGED <<file, nfile, path, index, newlock,
                     op, head, new, locked, bad, sync, map, idx, ghostVars>>
    BY DEF FindOld
<1>2. \/ /\ files' = [files EXCEPT ![p] = list]
         /\ view' = [view EXCEPT ![p] = ViewRange(p)]
         /\ UNCHANGED pc
      \/ NotFound(p, list)
    BY DEF FindOld
<1>3. pc[p] = "view"
    BY <1>1 DEF Finding
<1>4. /\ head[p] \in files[p] /\ head[p] \in 1..nfile /\ LProc(p)
    BY <1>3, LBasics
<1>5. \A i \in files[p] : Newest(i)
    BY <1>4 DEF LProc, OpenOK
<1>6. path2 # 0 => Newest(path2)
    BY DEF Safe, LInv, NamesOK
<1>7. \A i \in list : Newest(i)
    BY <1>5, <1>6
<1>8. list \subseteq 1..nfile /\ head[p] \in list
    BY <1>4, <1>7 DEF Newest
<1>9. path2' = 0 \/ path2' = path2
    BY <1>1
<1>. HIDE DEF list, reset, opens, dupe, broken
<1>10. Searched(p, list)
    <2>1. CASE NotFound(p, list)
        BY <1>1, <1>8, <2>1, NotFoundOK DEF Safe
    <2>2. CASE /\ files' = [files EXCEPT ![p] = list]
               /\ view' = [view EXCEPT ![p] = ViewRange(p)]
               /\ UNCHANGED pc
        <3>1. PICK w \in ViewT : w = ViewRange(p) /\ w.tail # 0
            BY <1>1, <1>4, RangeOK DEF Finding, Safe
        <3>2. list \in SUBSET Inodes
            BY <1>8, Allocated DEF Safe, TInv, Types
        <3>. QED BY <3>1, <3>2, <1>3, <1>8, <2>2 DEF Searched, Safe, TInv, Types, MemTypes
    <2>. QED BY <1>2, <2>1, <2>2
<1>. QED BY <1>1, <1>3, <1>7, <1>9, <1>10, SearchedImplements

(* A file that does not fit is marked; the lock stays where it is. *)
LEMMA MapFileFailImplements == ASSUME Safe, NEW p \in Procs, MapFileFail(p) PROVE Implements
<1>. USE DEF MapFileFail, Goto, ghostVars
<1>1. LProc(p) /\ head[p] \in files[p] /\ pc[p] = "mapf"
    BY LBasics
<1>2. Shrinks
    <2>1. PICK i \in Inodes : i = Found(p)[view[p].todo]
        BY <1>1, MappedFile DEF Safe
    <2>2. file' = file \/ file' = [file EXCEPT ![i].ok = FALSE]
        BY <2>1
    <2>3. nfile' = nfile /\ count' = count
        OBVIOUS
    <2>. HIDE DEF MapFileFail
    <2>. QED BY <2>2, <2>3, Uncut, Marked DEF Safe
<1>3. /\ files' = [files EXCEPT ![p] = {head[p]}] /\ pc' = [pc EXCEPT ![p] = "lost"]
      /\ UNCHANGED <<nfile, path, path2, lock, op, head, new, locked, sync, map, idx, view>>
    OBVIOUS
<1>. HIDE DEF MapFileFail
<1>4. OthersStay(p) /\ pc'[p] = "lost" /\ files'[p] = {head[p]}
    BY <1>3 DEF Safe, TInv, Types, MemTypes, OthersStay
<1>5. Newest(head[p])
    BY <1>1 DEF LProc, OpenOK
<1>6. PlacesOK(p)'
    BY <1>1, <1>3, <1>4 DEF LProc, PlacesOK, Rotating
<1>7. {pc[p], pc'[p]} \subseteq Working
    BY <1>1, <1>4 DEF Working, Rotating, Places
<1>8. \A i \in 1..nfile : file'[i].seq = file[i].seq
    BY <1>2, ShrinksSeq DEF Safe
<1>9. GoesOn(p)
    BY <1>3, <1>4, <1>5, <1>6, <1>7, <1>8 DEF GoesOn
<1>. QED BY <1>9, GoesOnImplements

(* A file is mapped: it does not fit, or it is the last one, or not. *)
LEMMA MapFileImplements == ASSUME Safe, NEW p \in Procs, MapFile(p) PROVE Implements
<1>1. pc[p] = "mapf" /\ UNCHANGED <<diskVars, head, new, locked, idx>>
    BY DEF MapFile
<1>2. LProc(p) /\ head[p] \in files[p] /\ locked[p] \in BOOLEAN
    BY <1>1, LBasics
<1>3. \/ /\ pc' = [pc EXCEPT ![p] = "lost"]
         /\ files' = [files EXCEPT ![p] = {head[p]}]
         /\ \E i, end : sync' = [sync EXCEPT ![p][i] = end]
         /\ UNCHANGED <<op, map, view>>
      \/ \E off, contents : MapDone(p, off, contents)
      \/ /\ \E got : view' = [view EXCEPT ![p].todo = @ - 1, ![p].got = got]
         /\ \E i, end : sync' = [sync EXCEPT ![p][i] = end]
         /\ UNCHANGED <<pc, op, files, map>>
    BY Zenon DEF MapFile, Goto
<1>4. \A i \in files[p] : Newest(i)
    BY <1>2 DEF LProc, OpenOK
<1>5. CASE /\ pc' = [pc EXCEPT ![p] = "lost"]
           /\ files' = [files EXCEPT ![p] = {head[p]}]
           /\ \E i, end : sync' = [sync EXCEPT ![p][i] = end]
           /\ UNCHANGED <<op, map, view>>
    <2>1. PICK i, end : sync' = [sync EXCEPT ![p][i] = end]
        BY <1>5
    <2>2. PICK s : s = [sync[p] EXCEPT ![i] = end]
        OBVIOUS
    <2>3. sync' = [sync EXCEPT ![p] = s]
        BY <2>1, <2>2
    <2>4. OthersStay(p) /\ pc'[p] = "lost" /\ files'[p] = {head[p]}
        BY <1>1, <1>5, <2>3 DEF Safe, TInv, Types, MemTypes, OthersStay
    <2>5. PlacesOK(p)'
        BY <1>1, <1>2, <1>5, <2>4 DEF LProc, PlacesOK, Rotating
    <2>6. {pc[p], pc'[p]} \subseteq Working
        BY <1>1, <2>4 DEF Working, Rotating, Places
    <2>7. GoesOn(p)
        BY <1>1, <1>2, <1>4, <2>4, <2>5, <2>6 DEF GoesOn, diskVars
    <2>. QED BY <2>7, GoesOnImplements
<1>6. CASE \E off, contents : MapDone(p, off, contents)
    <2>1. PICK off, contents : MapDone(p, off, contents)
        BY <1>6
    <2>2. PICK place : place = CASE op[p] = "read" -> "idle"
                                 [] op[p] = "sync" -> "synced"
                                 [] op[p] = "reset" -> "rot1"
                                 [] OTHER -> "write"
        OBVIOUS
    <2>3. PICK m : m = [seq |-> file[head[p]].seq, off |-> off, hist |-> contents]
        OBVIOUS
    <2>4. PICK s : s = [j \in Inodes |-> IF j = head[p] THEN off ELSE 0]
        OBVIOUS
    <2>5. /\ map' = [map EXCEPT ![p] = m]
          /\ files' = [files EXCEPT ![p] = {head[p]}]
          /\ sync' = [sync EXCEPT ![p] = s]
          /\ view' = [view EXCEPT ![p] = NoView]
          /\ pc' = [pc EXCEPT ![p] = place]
          /\ op' = IF op[p] = "read" THEN [op EXCEPT ![p] = "none"] ELSE op
        BY <2>1, <2>2, <2>3, <2>4 DEF MapDone, Goto, Only
    <2>6. /\ op[p] = "read" => place = "idle"
          /\ op[p] = "sync" => place = "synced"
          /\ op[p] = "reset" => place = "rot1"
          /\ op[p] \notin {"read", "sync", "reset"} => place = "write"
        BY <2>2
    <2>7. /\ OthersStay(p) /\ files'[p] = {head[p]} /\ pc'[p] = place
          /\ op'[p] = IF op[p] = "read" THEN "none" ELSE op[p]
        BY <1>1, <2>5 DEF Safe, TInv, Types, MemTypes, OthersStay
    <2>8. place \in {"idle", "synced", "rot1", "write"}
        BY <2>6
    <2>9. PlacesOK(p)'
        BY <1>1, <1>2, <2>6, <2>7, <2>8 DEF LProc, PlacesOK, Rotating
    <2>10. {pc[p], pc'[p]} \subseteq Working
        BY <1>1, <2>7, <2>8 DEF Working, Rotating, Places
    <2>11. GoesOn(p)
        BY <1>1, <1>2, <1>4, <2>7, <2>8, <2>9, <2>10 DEF GoesOn, diskVars
    <2>. QED BY <2>11, GoesOnImplements
<1>7. CASE /\ \E got : view' = [view EXCEPT ![p].todo = @ - 1, ![p].got = got]
           /\ \E i, end : sync' = [sync EXCEPT ![p][i] = end]
           /\ UNCHANGED <<pc, op, files, map>>
    <2>1. PICK got : view' = [view EXCEPT ![p].todo = @ - 1, ![p].got = got]
        BY <1>7
    <2>2. \A q \in Procs : q # p => view'[q] = view[q]
        BY <2>1 DEF Safe, TInv, Types, MemTypes
    <2>3. PICK i, end : sync' = [sync EXCEPT ![p][i] = end]
        BY <1>7
    <2>4. PICK s : s = [sync[p] EXCEPT ![i] = end]
        OBVIOUS
    <2>5. sync' = [sync EXCEPT ![p] = s]
        BY <2>3, <2>4
    <2>6. OthersStay(p)
        BY <1>1, <1>7, <2>2, <2>5 DEF Safe, TInv, Types, MemTypes, OthersStay
    <2>7. PlacesOK(p)'
        BY <1>1, <1>2, <1>7 DEF LProc, PlacesOK, Rotating
    <2>8. {pc[p], pc'[p]} \subseteq Working
        BY <1>1, <1>7 DEF Working, Rotating, Places
    <2>9. GoesOn(p)
        BY <1>1, <1>4, <1>7, <2>6, <2>7, <2>8 DEF GoesOn, diskVars
    <2>. QED BY <2>9, GoesOnImplements
<1>. QED BY <1>3, <1>5, <1>6, <1>7

-----------------------------------------------------------------------------
(* Every step is a step of LogLock *)

(* While no file is damaged there is a log to be opened, whose sequence is *)
(* higher than that of any open file, and no file gets marked corrupted.   *)
LEMMA Excluded ==
    ASSUME Safe, ~Damaged, ~Damaged', NEW p \in Procs,
           \/ OpenCorrupted(p) \/ OpenNoLog(p) \/ CreateUse(p) \/ CreateNew(p) \/ CreateFail(p)
           \/ CheckUnusable(p) \/ LogGone(p) \/ FindGone(p) \/ SyncLockFail(p) \/ FsckFail(p)
    PROVE  FALSE
<1>1. /\ LProc(p) /\ path # 0 /\ path \in 1..nfile /\ path \in Inodes
      /\ pc[p] \notin {"unlinkbad", "create"}
    BY LBasics DEF LProc, OpenOK
<1>2. file[path].ok
    BY <1>1 DEF Damaged
<1>3. ~CheckUnusable(p)
    <2>. SUFFICES ASSUME CheckUnusable(p) PROVE FALSE
        OBVIOUS
    <2>1. pc[p] = "check" /\ path # head[p] /\ ~Usable(p, path)
        BY DEF CheckUnusable
    <2>2. files[p] = {head[p]} /\ Newest(head[p])
        BY <1>1, <2>1 DEF LProc, OpenOK
    <2>3. head[p] \in Inodes
        BY <2>1, LBasics
    <2>4. file[path].seq \in Nat /\ file[head[p]].seq \in Nat
        BY <1>1, <2>3, FileOf DEF Safe, TInv, Types
    <2>5. file[head[p]].seq # file[path].seq
        BY <2>1, <2>2, <2>4 DEF Newest
    <2>. QED BY <1>2, <2>1, <2>2, <2>5 DEF Usable
<1>4. ~(SyncLockFail(p) \/ FsckFail(p))
    <2>. SUFFICES ASSUME SyncLockFail(p) \/ FsckFail(p) PROVE FALSE
        OBVIOUS
    <2>1. /\ file' = [file EXCEPT ![head[p]].ok = FALSE] /\ nfile' = nfile
          /\ pc[p] \in {"check", "fsck"}
        BY DEF SyncLockFail, FsckFail, GiveUp
    <2>2. head[p] \in 1..nfile /\ head[p] \in Inodes
        BY <2>1, LBasics
    <2>3. file \in [Inodes -> FileT]
        BY DEF Safe, TInv, Types, DiskTypes
    <2>4. PICK f \in FileT : f = file[head[p]]
        BY <2>2, <2>3
    <2>5. PICK g : g = [f EXCEPT !.ok = FALSE]
        OBVIOUS
    <2>6. ~g.ok
        BY <2>5 DEF FileT
    <2>7. file' = [file EXCEPT ![head[p]] = g]
        BY <2>1, <2>4, <2>5
    <2>8. file'[head[p]] = g
        BY <2>2, <2>3, <2>7
    <2>. QED BY <2>1, <2>2, <2>6, <2>8 DEF Damaged
<1>. QED BY <1>1, <1>2, <1>3, <1>4
         DEF OpenCorrupted, OpenNoLog, CreateUse, CreateNew, CreateFail, LogGone, FindGone

(* Every step of the log is a step of LogLock, or none. *)
LEMMA StepImplements ==
    ASSUME Safe, ~Damaged, ~Damaged', LockMethod = "flock", Next,
           \A p \in Procs : Fsck(p) => op[p] # "reset"
    PROVE  Implements
<1>1. PICK p \in Procs : Work(p) \/ Other(p)
    BY DEF Next
<1>2. ~Damaged /\ ~Damaged' /\ (Fsck(p) => op[p] # "reset")
    OBVIOUS
<1>3. CASE Other(p)
    BY <1>2, <1>3, OpenLogImplements, Excluded, ForgettersImplement, BeginImplements,
       QuietImplements, MoversImplement, RotateFailImplements
       DEF Other
<1>4. CASE \/ OpenNoLog(p) \/ CreateUse(p) \/ CreateNew(p) \/ CreateFail(p) \/ OpenIndex(p)
           \/ Acquire(p) \/ Timeout(p) \/ CheckChanged(p) \/ CheckUnusable(p) \/ LogGone(p)
           \/ CheckSame(p) \/ ResetBegin(p) \/ SyncLock(p) \/ SyncLockFail(p)
    BY <1>2, <1>4, Excluded, QuietImplements, AcquireImplements, GiversUpImplement,
       CheckChangedImplements, EnterImplements
<1>5. CASE \/ FindRefresh(p) \/ FindUnusable(p) \/ FindGone(p)
           \/ FindEnd(p) \/ FindOld(p) \/ MapFile(p) \/ MapFileFail(p)
           \/ Reopen(p) \/ LostFsck(p) \/ LostFail(p) \/ IndexGone(p)
           \/ Fsck(p) \/ FsckFail(p) \/ Trunc(p)
    BY <1>2, <1>5, Excluded, FindRefreshImplements, GiversUpImplement, FindEndImplements,
       FindOldImplements, MapFileImplements, MapFileFailImplements, ReopenImplements,
       LostFsckImplements, ForgettersImplement, FsckImplements
<1>6. CASE \/ WriteNothing(p) \/ WritePart(p) \/ WriteRest(p) \/ Fsynced(p) \/ UnlinkIndex(p)
           \/ RotateBegin(p) \/ RotateCreate(p) \/ RotateBroken(p) \/ RotateUnlink(p)
           \/ RotateLink(p) \/ RotateRename(p) \/ WriteIndex(p) \/ SkipIndex(p)
    BY <1>2, <1>6, WriteNothingImplements, WriteImplements, FsyncedImplements, QuietImplements,
       RotateCreateImplements, RotateRenameImplements, SyncEndImplements
<1>. QED BY <1>1, <1>3, <1>4, <1>5, <1>6 DEF Work

(* The same where no reset is caught in a broken index. *)
LEMMA NextImplements ==
    ASSUME Safe, Sound, Sound', LockMethod = "flock", Next
    PROVE  Implements
<1>1. ~Damaged /\ ~Damaged' /\ ResetsIntact
    BY DEF Sound
<1>2. \A p \in Procs : Fsck(p) => op[p] # "reset"
    BY <1>1 DEF Fsck, ResetsIntact
<1>. QED BY <1>1, <1>2, StepImplements

(* Nothing happens. *)
LEMMA StutterImplements == ASSUME LInv, UNCHANGED vars PROVE Implements
<1>. USE DEF vars, diskVars, memVars
<1>1. LInv'
    BY DEF LInv, NamesOK, Newest, LProc, OpenOK, PlacesOK, OwnerOK, NewOK
<1>2. UNCHANGED Lock!vars
    BY DEF Lock!vars, LockPlace
<1>. QED BY <1>1, <1>2 DEF Implements

(* An empty log is an initial state of LogLock. *)
LEMMA InitImplements == Init => LInv /\ Lock!Init
<1>. SUFFICES ASSUME Init PROVE LInv /\ Lock!Init
    OBVIOUS
<1>. USE DEF Init
<1>1. /\ nfile = 1 /\ path = 1 /\ path2 = 0 /\ 1 \in Inodes /\ 1..1 = {1}
    BY InodesNat
<1>2. NamesOK
    BY <1>1 DEF NamesOK
<1>3. ASSUME NEW p \in Procs PROVE LProc(p)
    BY LogAssumption DEF LProc, OpenOK, PlacesOK, OwnerOK, NewOK, Rotating
<1>4. lockPc = [p \in Procs |-> "closed"]
    BY DEF lockPc, LockPlace
<1>5. Lock!Init
    BY <1>1, <1>4 DEF Lock!Init, lockPc
<1>. QED BY <1>2, <1>3, <1>5 DEF LInv

(* With flock(), as long as no log file is damaged and no reset is caught   *)
(* in a broken index, every behaviour of the log is one of LogLock: however *)
(* reading, rotating, repairing, writing, failing and dying interleave, the *)
(* lock of the log is taken, checked, handed to the new file and dropped    *)
(* only as mail_transaction_log_lock_head() and _rotate() mean to.          *)
THEOREM LogImplementsLogLock ==
    ASSUME LockMethod = "flock"
    PROVE  Spec /\ []Sound => ImplementsLogLock
<1>1. Safe /\ Sound /\ Sound' /\ [Next]_vars => Implements
    BY NextImplements, StutterImplements DEF Safe
<1>2. Init => LInv /\ Lock!Init
    BY InitImplements
<1>3. TInv /\ TInv' /\ LInv /\ Sound /\ Sound' /\ [Next]_vars => LInv' /\ [Lock!Next]_(Lock!vars)
    BY <1>1 DEF Safe, Implements
<1>. QED BY <1>2, <1>3, LogInvariant, PTL DEF Spec, ImplementsLogLock, Lock!Spec

(* Under the same hypotheses file->locked is never set without the lock,    *)
(* whatever the process opens and closes in the meantime.                   *)
THEOREM LocksHeld ==
    ASSUME LockMethod = "flock"
    PROVE  Spec /\ []Sound => []LockedIsLocked
<1>1. Safe /\ Sound /\ Sound' /\ [Next]_vars => LInv'
    BY NextImplements, StutterImplements DEF Safe, Implements
<1>2. TInv /\ TInv' /\ LInv /\ Sound /\ Sound' /\ [Next]_vars => LInv'
    BY <1>1 DEF Safe
<1>3. LInv => LockedIsLocked
    BY DEF LInv, LProc, OwnerOK, LockedIsLocked
<1>. QED BY <1>2, <1>3, InitImplements, LogInvariant, PTL DEF Spec

(* Under the same hypotheses the guarantees of LogLock are those of the log:*)
(* at most one process has it locked, and what it has locked is the file    *)
(* that dovecot.index.log leads to.                                         *)
THEOREM OwnerIsAlone ==
    ASSUME LockMethod = "flock"
    PROVE  Spec /\ []Sound => [](Lock!OneWriter /\ Lock!HeadIsCurrent)
<1>1. Safe /\ Sound /\ Sound' /\ [Next]_vars => LInv'
    BY NextImplements, StutterImplements DEF Safe, Implements
<1>2. TInv /\ TInv' /\ LInv /\ Sound /\ Sound' /\ [Next]_vars => LInv'
    BY <1>1 DEF Safe
<1>3. TInv /\ LInv => Lock!OneWriter /\ Lock!HeadIsCurrent
    <2>. SUFFICES ASSUME TInv, LInv PROVE Lock!OneWriter /\ Lock!HeadIsCurrent
        OBVIOUS
    <2>1. ASSUME NEW p \in Lock!Critical PROVE p \in Procs /\ head[p] = path /\ lock[path] = p
        <3>1. p \in Procs /\ lockPc[p] \in {"crit", "rot"}
            BY DEF Lock!Critical, lockPc
        <3>2. locked[p] \in BOOLEAN /\ LProc(p)
            BY <3>1 DEF TInv, Types, MemTypes, LInv
        <3>3. LockPlace(p) \in {"crit", "rot"}
            BY <3>1 DEF lockPc
        <3>4. pc[p] \notin {"lock", "check"}
            BY <3>1, <3>2, <3>3, PlaceIs
        <3>5. pc[p] \in Rotating \/ locked[p]
            BY <3>3 DEF LockPlace, Rotating
        <3>6. locked[p]
            BY <3>2, <3>4, <3>5 DEF LProc, PlacesOK
        <3>. QED BY <3>1, <3>2, <3>4, <3>6 DEF LProc, OwnerOK
    <2>. QED BY <2>1 DEF Lock!OneWriter, Lock!HeadIsCurrent
<1>. QED BY <1>2, <1>3, InitImplements, LogInvariant, PTL DEF Spec
=============================================================================
