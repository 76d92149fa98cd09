---------------------- MODULE TransactionLogData_proofs ----------------------
(***************************************************************************)
(* Proofs about the data in TransactionLog.                                *)
(*                                                                         *)
(* TransactionLog_proofs has shown who may touch the log; this module      *)
(* shows what is in it.  The invariant is DInv(c, b): there is a numbering *)
(* of all files that have ever been the log (c[k] is the one with sequence *)
(* k, b[k] what was committed before it), and the history, dovecot.index   *)
(* and the memory of every process agree with it.  It holds as long as no  *)
(* file has been damaged and no fsck has made a position up.               *)
(***************************************************************************)
EXTENDS TransactionLog_proofs, SequenceTheorems

-----------------------------------------------------------------------------
(* The history, and what counts of it *)

(* Where the last reset before n is. *)
LEMMA LastReset ==
    ASSUME NEW S, NEW h \in Seq(S)
    PROVE  LET m == Max({0} \cup {i \in 1..Len(h) : h[i] = Reset})
           IN  /\ m \in 0..Len(h)
               /\ m = 0 \/ h[m] = Reset
               /\ \A i \in 1..Len(h) : h[i] = Reset => i <= m
<1>1. PICK R : R = {0} \cup {i \in 1..Len(h) : h[i] = Reset}
    OBVIOUS
<1>2. Len(h) \in Nat /\ R \subseteq 0..Len(h) /\ R # {}
    BY <1>1
<1>3. Max(R) \in R /\ \A y \in R : y <= Max(R)
    BY <1>2, MaxBounded
<1>. QED BY <1>1, <1>2, <1>3

(* What counts is what comes after the last reset. *)
LEMMA EffectiveIs ==
    ASSUME NEW S, NEW h \in Seq(S), NEW m \in 0..Len(h), m = 0 \/ h[m] = Reset,
           \A i \in 1..Len(h) : h[i] = Reset => i <= m
    PROVE  Effective(h) = SubSeq(h, m + 1, Len(h))
<1>1. PICK l : l = Max({0} \cup {i \in 1..Len(h) : h[i] = Reset})
    OBVIOUS
<1>2. l \in 0..Len(h) /\ (l = 0 \/ h[l] = Reset) /\ \A i \in 1..Len(h) : h[i] = Reset => i <= l
    BY <1>1, LastReset
<1>3. l = m
    BY <1>2
<1>. QED BY <1>1, <1>3 DEF Effective

(* What a history consists of. *)
Entries == Txns \cup {Reset}

(* The index as the first n entries of a history make it. *)
Upto(h, n) == Effective(SubSeq(h, 1, n))

(* A beginning of a history. *)
LEMMA Beginning ==
    ASSUME NEW h \in Seq(Entries), NEW n \in 0..Len(h)
    PROVE  /\ SubSeq(h, 1, n) \in Seq(Entries)
           /\ Len(SubSeq(h, 1, n)) = n
           /\ \A i \in 1..n : SubSeq(h, 1, n)[i] = h[i]
<1>1. \A i \in 1..n : h[i] \in Entries
    OBVIOUS
<1>2. n \in Int /\ 1 \in Int /\ Len(h) \in Nat
    OBVIOUS
<1>. QED BY <1>1, <1>2, SubSeqProperties

(* What counts of the first n entries. *)
LEMMA UptoIs ==
    ASSUME NEW h \in Seq(Entries), NEW n \in 0..Len(h), NEW m \in 0..n,
           m = 0 \/ h[m] = Reset, \A i \in 1..n : h[i] = Reset => i <= m
    PROVE  Upto(h, n) = SubSeq(h, m + 1, n)
<1>1. PICK s : s = SubSeq(h, 1, n)
    OBVIOUS
<1>2. s \in Seq(Entries) /\ Len(s) = n /\ \A i \in 1..n : s[i] = h[i]
    BY <1>1, Beginning
<1>3. Effective(s) = SubSeq(s, m + 1, Len(s))
    <2>1. m = 0 \/ s[m] = Reset
        BY <1>2
    <2>2. \A i \in 1..Len(s) : s[i] = Reset => i <= m
        BY <1>2
    <2>. QED BY <1>2, <2>1, <2>2, EffectiveIs
<1>4. SubSeq(s, m + 1, n) = SubSeq(h, m + 1, n)
    <2>1. \A i \in (m + 1)..n : s[i] \in Entries /\ h[i] \in Entries /\ s[i] = h[i]
        BY <1>2
    <2>2. m + 1 \in Int /\ n \in Int
        OBVIOUS
    <2>3. /\ SubSeq(s, m + 1, n) \in Seq(Entries) /\ SubSeq(h, m + 1, n) \in Seq(Entries)
          /\ Len(SubSeq(s, m + 1, n)) = Len(SubSeq(h, m + 1, n))
          /\ Len(SubSeq(s, m + 1, n)) = IF m + 1 <= n THEN n - (m + 1) + 1 ELSE 0
          /\ \A i \in 1..(n - (m + 1) + 1) : SubSeq(s, m + 1, n)[i] = s[m + 1 + i - 1]
          /\ \A i \in 1..(n - (m + 1) + 1) : SubSeq(h, m + 1, n)[i] = h[m + 1 + i - 1]
        BY <2>1, <2>2, SubSeqProperties
    <2>4. \A i \in 1..Len(SubSeq(s, m + 1, n)) : SubSeq(s, m + 1, n)[i] = SubSeq(h, m + 1, n)[i]
        BY <2>1, <2>3
    <2>. QED BY <2>3, <2>4, SeqEqual
<1>. QED BY <1>1, <1>2, <1>3, <1>4 DEF Upto

(* The last reset among the first n entries. *)
LEMMA ResetBefore ==
    ASSUME NEW h \in Seq(Entries), NEW n \in 0..Len(h)
    PROVE  \E m \in 0..n : (m = 0 \/ h[m] = Reset) /\ \A i \in 1..n : h[i] = Reset => i <= m
<1>1. PICK s : s = SubSeq(h, 1, n)
    OBVIOUS
<1>2. s \in Seq(Entries) /\ Len(s) = n /\ \A i \in 1..n : s[i] = h[i]
    BY <1>1, Beginning
<1>3. PICK m : m = Max({0} \cup {i \in 1..Len(s) : s[i] = Reset})
    OBVIOUS
<1>4. m \in 0..Len(s) /\ (m = 0 \/ s[m] = Reset) /\ \A i \in 1..Len(s) : s[i] = Reset => i <= m
    BY <1>2, <1>3, LastReset
<1>5. m \in 0..n /\ (m = 0 \/ h[m] = Reset)
    BY <1>2, <1>4
<1>6. \A i \in 1..n : h[i] = Reset => i <= m
    BY <1>2, <1>4
<1>. QED BY <1>5, <1>6

(* Entries that are no resets are applied one after the other. *)
LEMMA UptoGoesOn ==
    ASSUME NEW h \in Seq(Entries), NEW z \in 0..Len(h), NEW a \in 0..z,
           \A i \in (a + 1)..z : h[i] # Reset
    PROVE  Upto(h, z) = Upto(h, a) \o SubSeq(h, a + 1, z)
<1>1. PICK m \in 0..a : (m = 0 \/ h[m] = Reset) /\ \A i \in 1..a : h[i] = Reset => i <= m
    BY ResetBefore
<1>2. Upto(h, a) = SubSeq(h, m + 1, a)
    BY <1>1, UptoIs
<1>3. \A i \in 1..z : h[i] = Reset => i <= m
    BY <1>1
<1>4. Upto(h, z) = SubSeq(h, m + 1, z)
    BY <1>1, <1>3, UptoIs
<1>5. m + 1 \in 1..(Len(h) + 1) /\ a \in (m + 1 - 1)..Len(h) /\ z \in a..Len(h)
    BY <1>1
<1>. QED BY <1>2, <1>4, <1>5, ConcatAdjacentSubSeq

(* Nothing counts at the beginning and right after a reset. *)
LEMMA UptoReset ==
    ASSUME NEW h \in Seq(Entries), NEW n \in 0..Len(h), n = 0 \/ h[n] = Reset
    PROVE  Upto(h, n) = <<>>
<1>1. Upto(h, n) = SubSeq(h, n + 1, n)
    BY UptoIs
<1>. QED BY <1>1, SubSeqEmpty

(* What comes later does not change it. *)
LEMMA UptoStays ==
    ASSUME NEW g \in Seq(Entries), NEW h \in Seq(Entries), NEW n \in 0..Len(h), Len(h) <= Len(g),
           \A i \in 1..Len(h) : g[i] = h[i]
    PROVE  Upto(g, n) = Upto(h, n)
<1>1. n \in 0..Len(g) /\ \A i \in 1..n : g[i] = h[i]
    OBVIOUS
<1>2. SubSeq(g, 1, n) = SubSeq(h, 1, n)
    BY <1>1, Beginning, SeqEqual
<1>. QED BY <1>2 DEF Upto

(* All of it. *)
LEMMA UptoAll ==
    ASSUME NEW h \in Seq(Entries)
    PROVE  Upto(h, Len(h)) = Effective(h)
BY SubSeqFull DEF Upto

(* Without resets everything counts. *)
LEMMA UptoNoReset ==
    ASSUME NEW h \in Seq(Entries), NEW n \in 0..Len(h), \A i \in 1..Len(h) : h[i] # Reset
    PROVE  Upto(h, n) = SubSeq(h, 1, n)
<1>1. Upto(h, n) = SubSeq(h, 0 + 1, n)
    BY UptoIs
<1>. QED BY <1>1

(* How many transactions of a file are complete. *)
Whole(i) == Size(i) \div TxnSize

(* Half a number, rounded down. *)
LEMMA WholeNumber ==
    ASSUME NEW n \in Nat
    PROVE  /\ n \div 2 \in Nat /\ 2 * (n \div 2) <= n /\ n <= 2 * (n \div 2) + 1
           /\ \A x \in Nat : n \in {2 * x, 2 * x + 1} => n \div 2 = x
OBVIOUS

(* A file has some number of complete transactions, and at most half of    *)
(* one more.                                                               *)
LEMMA WholeOK ==
    ASSUME TInv, NEW i \in Inodes
    PROVE  /\ Size(i) \in Nat /\ Whole(i) \in Nat
           /\ Complete(i) = 2 * Whole(i)
           /\ 2 * Whole(i) <= Size(i) /\ Size(i) <= 2 * Whole(i) + 1
           /\ \A x \in Nat : Size(i) \in {2 * x, 2 * x + 1} => Whole(i) = x
<1>1. PICK n : n = Size(i)
    OBVIOUS
<1>2. n \in Nat
    BY <1>1, SizeOK
<1>. QED BY <1>1, <1>2, WholeNumber DEF Whole, Complete, TxnSize

(* What a file has from transaction x + 1 to e is what the history has     *)
(* from a + x + 1 to a + e.                                                *)
LEMMA TxnsAre ==
    ASSUME TInv, NEW i \in Inodes, NEW e \in Nat, NEW x \in 0..e, 2 * e <= Size(i), NEW a \in Nat,
           \A j \in 1..e : a + j <= Len(history) /\ file[i].data[2 * j][1] = history[a + j]
    PROVE  /\ TxnsOf(i, 2 * x, 2 * e) = SubSeq(history, a + x + 1, a + e)
           /\ \A n \in (a + x + 1)..(a + e) : history[n] # Reset
<1>1. 2 * x \in Nat /\ 2 * e \in Nat /\ 2 * x <= 2 * e
    OBVIOUS
<1>2. TxnsOf(i, 2 * x, 2 * e) \in Seq(Txns)
    BY <1>1, TxnsType
<1>3. PICK t : t = TxnsOf(i, 2 * x, 2 * e)
    OBVIOUS
<1>4. (2 * e - 2 * x) \div 2 = e - x
    <2>1. PICK n \in Nat : n = e - x
        OBVIOUS
    <2>2. 2 * e - 2 * x = 2 * n
        BY <2>1
    <2>. QED BY <2>1, <2>2, WholeNumber
<1>5. t = [k \in 1..(e - x) |-> file[i].data[2 * x + 2 * k][1]]
    BY <1>3, <1>4 DEF TxnsOf, TxnSize
<1>6. Len(t) = e - x
    <2>1. e - x \in Nat
        OBVIOUS
    <2>2. t \in Seq(Txns) /\ DOMAIN t = 1..(e - x)
        BY <1>2, <1>3, <1>5
    <2>. QED BY <2>1, <2>2
<1>7. ASSUME NEW k \in 1..(e - x) PROVE t[k] = history[a + x + k] /\ t[k] \in Txns
    <2>1. x + k \in 1..e /\ 2 * x + 2 * k = 2 * (x + k) /\ a + (x + k) = a + x + k
        OBVIOUS
    <2>2. t[k] = file[i].data[2 * (x + k)][1]
        BY <1>5, <2>1
    <2>3. t[k] \in Txns
        BY <1>2, <1>3, <1>6
    <2>. QED BY <2>1, <2>2, <2>3
<1>8. ASSUME NEW n \in (a + x + 1)..(a + e) PROVE history[n] \in Txns
    <2>1. PICK k : k = n - (a + x)
        OBVIOUS
    <2>2. k \in 1..(e - x) /\ a + x + k = n
        BY <2>1
    <2>. QED BY <2>2, <1>7
<1>9. a + x + 1 \in Int /\ a + e \in Int
    OBVIOUS
<1>10. /\ SubSeq(history, a + x + 1, a + e) \in Seq(Txns)
       /\ Len(SubSeq(history, a + x + 1, a + e)) = e - x
       /\ \A k \in 1..(e - x) : SubSeq(history, a + x + 1, a + e)[k] = history[a + x + k]
    <2>1. /\ SubSeq(history, a + x + 1, a + e) \in Seq(Txns)
          /\ Len(SubSeq(history, a + x + 1, a + e)) =
                IF a + x + 1 <= a + e THEN a + e - (a + x + 1) + 1 ELSE 0
          /\ \A k \in 1..(a + e - (a + x + 1) + 1) :
                SubSeq(history, a + x + 1, a + e)[k] = history[a + x + 1 + k - 1]
        BY <1>8, <1>9, SubSeqProperties
    <2>2. a + e - (a + x + 1) + 1 = e - x
        OBVIOUS
    <2>3. \A k \in 1..(e - x) : a + x + 1 + k - 1 = a + x + k
        OBVIOUS
    <2>. QED BY <2>1, <2>2, <2>3
<1>11. t = SubSeq(history, a + x + 1, a + e)
    BY <1>2, <1>3, <1>6, <1>7, <1>10, SeqEqual
<1>12. Reset \notin Txns
    BY DEF Reset, Txns
<1>. QED BY <1>3, <1>8, <1>11, <1>12

(* The sequence of the log that the name leads to. *)
Last == file[path].seq

(* The index after n commits, and the transactions of commits a + 1 to z. *)
After(n) == Upto(history, n)
Part(a, z) == SubSeq(history, a + 1, z)

(* c[k] is the file that was the log with sequence k, and b[k] how much    *)
(* had been committed when it became the log.                              *)
Numbering == [Nat -> Nat]

(* Every sequence up to the last has one file, and the last is what the    *)
(* name leads to.                                                          *)
Numbered(c) ==
    /\ Last \in Nat /\ Last > 0
    /\ c[Last] = path
    /\ \A k \in 1..Last : c[k] \in 1..nfile /\ file[c[k]].seq = k

(* The complete transactions of a file are those committed while it was    *)
(* the log.                                                                *)
Recorded(c, b) ==
    \A k \in 1..Last : \A j \in 1..Whole(c[k]) :
        b[k] + j <= Len(history) /\ file[c[k]].data[2 * j][1] = history[b[k] + j]

(* The files follow each other, and all that is committed is in them. *)
Ordered(c, b) ==
    /\ Len(history) = b[Last] + Whole(path)
    /\ \A j, k \in 1..Last : j < k => b[j] + Whole(c[j]) <= b[k]

(* A file that goes on from another names it, and where it ends. *)
Linked(c, b) ==
    \A k \in 1..Last : file[c[k]].prevSeq # 0 =>
        /\ k > 1
        /\ file[c[k]].prevSeq = k - 1
        /\ file[c[k]].prevOff = Size(c[k - 1])
        /\ Size(c[k - 1]) = 2 * Whole(c[k - 1])
        /\ b[k] = b[k - 1] + Whole(c[k - 1])

(* A file that goes on from none was made by a reset, or is the first. *)
Restarts(c, b) ==
    \A k \in 1..Last : file[c[k]].prevSeq = 0 => After(b[k]) = <<>>

(* All files that have ever been the log, in their order, hold the history. *)
Chain(c, b) ==
    Numbered(c) /\ Recorded(c, b) /\ Ordered(c, b) /\ Linked(c, b) /\ Restarts(c, b)

(* i has been the log. *)
Known(c, i) == i \in 1..nfile /\ file[i].seq \in 1..Last /\ c[file[i].seq] = i

(* h is what the index is at offset o of the log with sequence s. *)
At(c, b, s, o, h) ==
    /\ s \in 1..Last
    /\ \E x \in 0..Whole(c[s]) : o = 2 * x /\ h = After(b[s] + x)

(* A map is none, or what the log says the index is at its position. *)
Fits(c, b, m) == m = NoMap \/ At(c, b, m.seq, m.off, m.hist)

(* What p has in memory. *)
Local(p) ==
    [pc |-> pc[p], op |-> op[p], head |-> head[p], new |-> new[p], locked |-> locked[p],
     bad |-> bad[p], files |-> files[p], sync |-> sync[p], map |-> map[p], idx |-> idx[p],
     view |-> view[p], seen |-> seen[p]]

(* What a process is doing, where it is. *)
OpsOK(r) ==
    /\ r.pc # "trunc"
    /\ r.pc \in {"view", "mapf", "lost"} => r.op \notin {"none", "fsck"}
    /\ r.pc = "fsck" => r.op \notin {"none", "read"}
    /\ r.pc = "write" => r.op \in {"commit", "fill"}
    /\ r.pc \in {"write2", "fsync"} => r.op \in {"commit", "fill", "sync"}
    /\ r.op \in {"commit", "fill"} => r.locked \/ r.pc = "lock"
    /\ r.pc \in {"lock", "check"} => r.op \in {"commit", "sync", "reset", "fsck"}
    /\ r.op = "fsck" => r.pc \in {"lock", "check", "fsck"}
    /\ r.pc \in {"closed", "openidx", "idle"} => r.op = "none"
    /\ r.pc = "unlinkidx" => r.op = "read"

(* A view is set up only while it is used. *)
ViewOK(r) ==
    /\ r.pc \notin {"mapf", "lost"} => r.view.got = <<>>
    /\ r.pc \notin {"view", "mapf", "lost"} => r.view.tail = 0
    /\ r.pc \notin {"view", "mapf", "lost", "fsck"} /\ r.op # "fsck" => r.view.tries = 0

(* The range of the log view begins where the map is. *)
Viewing(c, b, r) ==
    r.pc \in {"view", "mapf"} /\ r.view.tail # 0 =>
        /\ At(c, b, r.view.seq, r.view.off, r.map.hist)
        /\ r.map.seq <= r.view.seq
        /\ r.view.tail \in 1..Last
        /\ \/ r.view.tail = r.view.seq
           \/ r.view.tail > r.view.seq /\ file[c[r.view.tail]].prevSeq = 0

(* The files from sequence k to the head, of sequence h, have been mapped. *)
Rest(c, b, r, k, h) ==
    /\ \A j \in k..h : file[c[j]].prevSeq # 0
    /\ \E y \in 0..Whole(r.head) :
          /\ r.sync[r.head] = 2 * y
          /\ r.view.got = Part(b[k], b[h] + y)
          /\ \E s \in 0..(b[h] + y) : r.seen = After(s)

(* What a log view has gathered is what the files from the next one on hold. *)
Mapped(c, b, r) ==
    r.pc = "mapf" =>
        LET k == r.view.tail + r.view.todo
            h == file[r.head].seq
        IN  /\ k \in 1..(h + 1)
            /\ k = h + 1 => r.view.got = <<>>
            /\ k <= h => Rest(c, b, r, k, h)

(* What r has seen is not after the end of its head. *)
Seen(c, b, r) ==
    IF r.pc = "closed" THEN r.seen = <<>>
    ELSE \E s \in 0..(b[file[r.head].seq] + Whole(r.head)) : r.seen = After(s)

(* What is true of every process, with or without the lock. *)
Reader(c, b, r) ==
    /\ ~r.bad
    /\ \A i \in r.files : Known(c, i)
    /\ r.pc # "closed" => r.head \in r.files
    /\ Fits(c, b, r.map)
    /\ OpsOK(r)
    /\ ViewOK(r)
    /\ Viewing(c, b, r)
    /\ Mapped(c, b, r)
    /\ Seen(c, b, r)

(* Places where the map is at the end of the log. *)
AtEnd(r) ==
    \/ r.pc \in {"write", "write2", "fsync", "synced", "rotated"}
    \/ r.pc \in Rotating \cup {"rot1"} /\ r.op = "sync"

(* There the map is all that is committed, up to what the owner itself has *)
(* half written.                                                           *)
Ends(r) ==
    AtEnd(r) =>
        /\ r.map.seq = Last
        /\ r.sync[path] = r.map.off
        /\ Size(path) = r.map.off + (IF r.pc = "write2" THEN 1 ELSE IF r.pc = "fsync" THEN 2 ELSE 0)
        /\ r.pc # "fsync" => r.map.hist = Effective(history) /\ r.seen = r.map.hist

(* The file that a rotation has prepared goes on from the log, or restarts *)
(* it.                                                                     *)
NewIs(r) ==
    r.pc \in Rotating =>
        /\ file[r.new].seq = Last + 1
        /\ file[r.new].data = <<>>
        /\ r.op = "reset" => file[r.new].prevSeq = 0
        /\ r.op = "sync" => file[r.new].prevSeq = Last /\ file[r.new].prevOff = Size(path)

(* The head has been mapped under its lock. *)
MappedAll(r) ==
    r.pc = "mapf" /\ r.view.tail + r.view.todo <= file[r.head].seq =>
        r.sync[r.head] = Size(r.head)

(* Whoever rereads dovecot.index under the lock has what is on disk, and   *)
(* it does not lead to the log that is locked.                             *)
Reopened(r) ==
    r.op # "fsck" /\ r.pc \in {"view", "mapf", "lost", "fsck"} =>
        /\ r.view.tries # 0 => index.seq = 0 \/ (r.idx = index /\ r.map = index)
        /\ r.pc = "fsck" => r.view.tries # 0
        /\ r.pc \in {"lost", "fsck"} => r.map.seq # Last

(* The log is locked, and known to be the one that the name leads to. *)
Owns(r) == r.locked /\ r.pc # "check"

(* What is true of the process that owns the log besides. *)
Owner(r) == Owns(r) => Ends(r) /\ NewIs(r) /\ MappedAll(r) /\ Reopened(r)

(* All that is asked of a process. *)
Good(c, b, r) == Reader(c, b, r) /\ Owner(r)

(* The data of the log is in order: c and b number the files,              *)
(* dovecot.index, .log.2 and every process fit them.                       *)
DInv(c, b) ==
    /\ Chain(c, b)
    /\ Fits(c, b, index)
    /\ path2 # 0 => Known(c, path2)
    /\ \A p \in Procs : Good(c, b, Local(p))

-----------------------------------------------------------------------------
(* What a step leaves *)

(* After a step the files, the commits and their numbers are still there. *)
Growth(c, b, d, e) ==
    /\ Last \in Nat /\ Last' \in Nat /\ Last <= Last'
    /\ \A k \in 1..Last : d[k] = c[k] /\ e[k] = b[k]
    /\ 1..nfile \subseteq 1..nfile'
    /\ \A i \in 1..nfile : /\ file'[i].seq = file[i].seq
                           /\ file'[i].prevSeq = file[i].prevSeq
                           /\ file'[i].prevOff = file[i].prevOff
    /\ \A k \in 1..Last : Whole(c[k]) <= Whole(c[k])' /\ Whole(c[k])' \in Nat
    /\ Len(history) <= Len(history')
    /\ \A n \in 1..Len(history) : history'[n] = history[n]

(* c and b number the files, and nothing is committed beyond them. *)
LEMMA ChainBounds ==
    ASSUME TInv, NEW c \in Numbering, NEW b \in Numbering, Chain(c, b), NEW k \in 1..Last
    PROVE  /\ Last \in Nat /\ Len(history) \in Nat
           /\ c[k] \in 1..nfile /\ c[k] \in Inodes /\ file[c[k]].seq = k
           /\ b[k] \in Nat /\ Whole(c[k]) \in Nat
           /\ b[k] + Whole(c[k]) <= Len(history)
<1>1. Last \in Nat /\ c[Last] = path /\ c[k] \in 1..nfile /\ file[c[k]].seq = k
    BY DEF Chain, Numbered
<1>2. c[k] \in Inodes
    BY <1>1, Allocated DEF TInv, Types
<1>3. k \in Nat /\ b[k] \in Nat
    BY <1>1 DEF Numbering
<1>4. Whole(c[k]) \in Nat
    BY <1>2, WholeOK
<1>5. Len(history) \in Nat
    BY DEF TInv, Types, GhostTypes
<1>6. Len(history) = b[Last] + Whole(path) /\ \A j, l \in 1..Last : j < l => b[j] + Whole(c[j]) <= b[l]
    BY DEF Chain, Ordered
<1>7. path \in Inodes
    <2>1. Last \in 1..Last
        BY DEF Chain, Numbered
    <2>2. path \in 1..nfile
        BY <1>1, <2>1 DEF Chain, Numbered
    <2>. QED BY <2>2, Allocated DEF TInv, Types
<1>8. Whole(path) \in Nat /\ b[Last] \in Nat
    BY <1>1, <1>7, WholeOK DEF Numbering
<1>9. b[k] + Whole(c[k]) <= Len(history)
    <2>1. CASE k = Last
        BY <1>1, <1>6, <2>1, <1>8
    <2>2. CASE k < Last
        BY <1>1, <1>3, <1>4, <1>6, <1>8, <2>2
    <2>. QED BY <1>1, <2>1, <2>2
<1>. QED BY <1>1, <1>2, <1>3, <1>4, <1>5, <1>9

(* What was committed stays. *)
LEMMA AfterStays ==
    ASSUME TInv, TInv', NEW c, NEW b, NEW d, NEW e, Growth(c, b, d, e), NEW n \in 0..Len(history)
    PROVE  After(n)' = After(n)
<1>1. history \in Seq(Entries) /\ history' \in Seq(Entries)
    BY DEF TInv, Types, GhostTypes, Entries
<1>. QED BY <1>1, UptoStays DEF After, Growth

(* Parts of what was committed stay. *)
LEMMA PartStays ==
    ASSUME TInv, TInv', NEW c, NEW b, NEW d, NEW e, Growth(c, b, d, e),
           NEW z \in 0..Len(history), NEW a \in 0..z
    PROVE  Part(a, z)' = Part(a, z)
<1>1. history \in Seq(Entries) /\ history' \in Seq(Entries) /\ Len(history) \in Nat
    BY DEF TInv, Types, GhostTypes, Entries
<1>2. PICK g : g = history'
    OBVIOUS
<1>3. g \in Seq(Entries) /\ Len(history) <= Len(g) /\ \A n \in 1..Len(history) : g[n] = history[n]
    BY <1>1, <1>2 DEF Growth
<1>4. \A i \in (a + 1)..z : g[i] \in Entries /\ history[i] \in Entries /\ g[i] = history[i]
    BY <1>1, <1>3
<1>5. a + 1 \in Int /\ z \in Int
    OBVIOUS
<1>6. /\ SubSeq(g, a + 1, z) \in Seq(Entries) /\ SubSeq(history, a + 1, z) \in Seq(Entries)
      /\ Len(SubSeq(g, a + 1, z)) = Len(SubSeq(history, a + 1, z))
      /\ Len(SubSeq(g, a + 1, z)) = IF a + 1 <= z THEN z - (a + 1) + 1 ELSE 0
      /\ \A i \in 1..(z - (a + 1) + 1) : SubSeq(g, a + 1, z)[i] = g[a + 1 + i - 1]
      /\ \A i \in 1..(z - (a + 1) + 1) : SubSeq(history, a + 1, z)[i] = history[a + 1 + i - 1]
    BY <1>4, <1>5, SubSeqProperties
<1>7. \A i \in 1..Len(SubSeq(g, a + 1, z)) : SubSeq(g, a + 1, z)[i] = SubSeq(history, a + 1, z)[i]
    BY <1>4, <1>6
<1>8. SubSeq(g, a + 1, z) = SubSeq(history, a + 1, z)
    BY <1>6, <1>7, SeqEqual
<1>. QED BY <1>2, <1>8 DEF Part

(* The numbers of the files before and after a step. *)
Grown(c, b, d, e) ==
    /\ TInv /\ TInv' /\ {c, b, d, e} \subseteq Numbering
    /\ Chain(c, b) /\ Growth(c, b, d, e)

(* A file that has been the log has been it still. *)
LEMMA KnownStays ==
    ASSUME NEW c, NEW b, NEW d, NEW e, Grown(c, b, d, e), NEW i, Known(c, i)
    PROVE  Known(d, i)'
<1>1. i \in 1..nfile /\ file[i].seq \in 1..Last /\ c[file[i].seq] = i
    BY DEF Known
<1>2. i \in 1..nfile' /\ file'[i].seq = file[i].seq /\ d[file[i].seq] = i
    BY <1>1 DEF Grown, Growth
<1>3. file[i].seq \in 1..Last'
    BY <1>1 DEF Grown, Growth
<1>. QED BY <1>2, <1>3 DEF Known

(* A position in the log still means the same. *)
LEMMA AtStays ==
    ASSUME NEW c, NEW b, NEW d, NEW e, Grown(c, b, d, e), NEW s, NEW o, NEW h, At(c, b, s, o, h)
    PROVE  At(d, e, s, o, h)'
<1>1. PICK x \in 0..Whole(c[s]) : o = 2 * x /\ h = After(b[s] + x)
    BY DEF At
<1>2. s \in 1..Last
    BY DEF At
<1>3. /\ Whole(c[s]) \in Nat /\ b[s] \in Nat /\ b[s] + Whole(c[s]) <= Len(history) /\ Len(history) \in Nat
    BY <1>2, ChainBounds DEF Grown
<1>4. d[s] = c[s] /\ e[s] = b[s] /\ Whole(c[s]) <= Whole(c[s])' /\ Whole(c[s])' \in Nat
    BY <1>2 DEF Grown, Growth
<1>5. b[s] + x \in 0..Len(history)
    BY <1>1, <1>3
<1>6. After(b[s] + x)' = After(b[s] + x)
    BY <1>5, AfterStays DEF Grown
<1>7. s \in 1..Last'
    BY <1>2 DEF Grown, Growth
<1>8. x \in 0..Whole(c[s])'
    BY <1>1, <1>3, <1>4
<1>9. Whole(d[s])' = Whole(c[s])' /\ After(e[s] + x)' = After(b[s] + x)'
    BY <1>4
<1>. QED BY <1>1, <1>6, <1>7, <1>8, <1>9 DEF At

(* A map still fits. *)
LEMMA FitsStays ==
    ASSUME NEW c, NEW b, NEW d, NEW e, Grown(c, b, d, e), NEW m, Fits(c, b, m)
    PROVE  Fits(d, e, m)'
<1>1. At(c, b, m.seq, m.off, m.hist) => At(d, e, m.seq, m.off, m.hist)'
    BY AtStays
<1>. QED BY <1>1 DEF Fits

(* The head of a process that has one. *)
LEMMA HeadKnown ==
    ASSUME TInv, NEW c \in Numbering, NEW b \in Numbering, Chain(c, b), NEW i, Known(c, i)
    PROVE  \E h \in 1..Last :
              /\ h = file[i].seq /\ c[h] = i /\ i \in 1..nfile /\ i \in Inodes /\ h \in Nat
              /\ b[h] \in Nat /\ Whole(i) \in Nat /\ b[h] + Whole(i) <= Len(history)
              /\ Last \in Nat /\ Len(history) \in Nat
<1>1. PICK h \in 1..Last : h = file[i].seq
    BY DEF Known
<1>2. c[h] = i /\ i \in 1..nfile
    BY <1>1 DEF Known
<1>3. /\ c[h] \in Inodes /\ b[h] \in Nat /\ Whole(c[h]) \in Nat /\ b[h] + Whole(c[h]) <= Len(history)
      /\ Last \in Nat /\ Len(history) \in Nat
    BY ChainBounds
<1>4. h \in Nat
    BY <1>3
<1>. QED BY <1>1, <1>2, <1>3, <1>4

(* A log view still begins where the map is. *)
LEMMA ViewingStays ==
    ASSUME NEW c, NEW b, NEW d, NEW e, Grown(c, b, d, e), NEW r, Viewing(c, b, r)
    PROVE  Viewing(d, e, r)'
<1>. SUFFICES ASSUME r.pc \in {"view", "mapf"}, r.view.tail # 0 PROVE Viewing(d, e, r)'
    BY DEF Viewing
<1>1. /\ At(c, b, r.view.seq, r.view.off, r.map.hist)
      /\ r.map.seq <= r.view.seq
      /\ r.view.tail \in 1..Last
      /\ \/ r.view.tail = r.view.seq
         \/ r.view.tail > r.view.seq /\ file[c[r.view.tail]].prevSeq = 0
    BY DEF Viewing
<1>2. At(d, e, r.view.seq, r.view.off, r.map.hist)'
    BY <1>1, AtStays
<1>3. PICK t : t = r.view.tail
    OBVIOUS
<1>4. t \in 1..Last'
    BY <1>1, <1>3 DEF Grown, Growth
<1>5. c[t] \in 1..nfile
    BY <1>1, <1>3, ChainBounds DEF Grown
<1>6. d[t] = c[t] /\ file'[c[t]].prevSeq = file[c[t]].prevSeq
    BY <1>1, <1>3, <1>5 DEF Grown, Growth
<1>. QED BY <1>1, <1>2, <1>3, <1>4, <1>6 DEF Viewing

(* What a log view has gathered is still in the files. *)
LEMMA RestStays ==
    ASSUME NEW c, NEW b, NEW d, NEW e, Grown(c, b, d, e), NEW r, NEW k, NEW h \in 1..Last,
           k \in 1..h, c[h] = r.head, Rest(c, b, r, k, h)
    PROVE  Rest(d, e, r, k, h)'
<1>1. /\ Last \in Nat /\ Len(history) \in Nat /\ b[h] \in Nat /\ Whole(r.head) \in Nat
      /\ b[h] + Whole(r.head) <= Len(history)
    BY ChainBounds DEF Grown
<1>2. k \in 1..Last /\ k <= h /\ k \in Nat /\ h \in Nat
    BY <1>1
<1>3. b[k] \in Nat /\ b[k] <= b[h]
    <2>1. b[k] \in Nat /\ Whole(c[k]) \in Nat
        BY <1>2, ChainBounds DEF Grown
    <2>2. k < h => b[k] + Whole(c[k]) <= b[h]
        BY <1>2 DEF Grown, Chain, Ordered
    <2>. QED BY <1>1, <1>2, <2>1, <2>2
<1>4. ASSUME NEW j \in k..h PROVE file'[d[j]].prevSeq # 0
    <2>1. j \in 1..Last
        BY <1>1, <1>2
    <2>2. c[j] \in 1..nfile /\ d[j] = c[j]
        BY <2>1, ChainBounds DEF Grown, Growth
    <2>3. file[c[j]].prevSeq # 0
        BY DEF Rest
    <2>. QED BY <2>2, <2>3 DEF Grown, Growth
<1>5. PICK y \in 0..Whole(r.head) :
         /\ r.sync[r.head] = 2 * y
         /\ r.view.got = Part(b[k], b[h] + y)
         /\ \E s \in 0..(b[h] + y) : r.seen = After(s)
    BY DEF Rest
<1>6. PICK s \in 0..(b[h] + y) : r.seen = After(s)
    BY <1>5
<1>7. b[h] + y \in 0..Len(history) /\ s \in 0..Len(history) /\ b[k] \in 0..(b[h] + y)
    BY <1>1, <1>3
<1>8. After(s)' = After(s)
    BY <1>7, AfterStays DEF Grown
<1>9. Part(b[k], b[h] + y)' = Part(b[k], b[h] + y)
    BY <1>7, PartStays DEF Grown
<1>10. e[k] = b[k] /\ e[h] = b[h]
    BY <1>2 DEF Grown, Growth
<1>11. y \in 0..Whole(r.head)'
    <2>1. Whole(c[h]) <= Whole(c[h])' /\ Whole(c[h])' \in Nat
        BY DEF Grown, Growth
    <2>2. Whole(r.head) <= Whole(r.head)' /\ Whole(r.head)' \in Nat
        BY <2>1
    <2>. QED BY <1>1, <2>2
<1>12. Part(e[k], e[h] + y)' = Part(b[k], b[h] + y)'
    BY <1>10
<1>. QED BY <1>4, <1>5, <1>6, <1>8, <1>9, <1>10, <1>11, <1>12 DEF Rest

(* What others do to the log leaves a reader in order. *)
LEMMA ReaderStays ==
    ASSUME NEW c, NEW b, NEW d, NEW e, Grown(c, b, d, e), NEW r, Reader(c, b, r)
    PROVE  Reader(d, e, r)'
<1>1. \A i \in r.files : Known(d, i)'
    BY KnownStays DEF Reader
<1>2. Fits(d, e, r.map)'
    BY FitsStays DEF Reader
<1>3. Viewing(d, e, r)'
    BY ViewingStays DEF Reader
<1>4. r.pc # "closed" =>
        \E h \in 1..Last :
              /\ h = file[r.head].seq /\ c[h] = r.head /\ r.head \in 1..nfile /\ h \in Nat
              /\ b[h] \in Nat /\ Whole(r.head) \in Nat /\ b[h] + Whole(r.head) <= Len(history)
              /\ Last \in Nat /\ Len(history) \in Nat
    BY HeadKnown DEF Reader, Grown
<1>5. Mapped(d, e, r)'
    <2>. SUFFICES ASSUME r.pc = "mapf" PROVE Mapped(d, e, r)'
        BY DEF Mapped
    <2>1. PICK h \in 1..Last : h = file[r.head].seq /\ c[h] = r.head /\ r.head \in 1..nfile /\ h \in Nat
        BY <1>4
    <2>2. file'[r.head].seq = h
        BY <2>1 DEF Grown, Growth
    <2>3. PICK k : k = r.view.tail + r.view.todo
        OBVIOUS
    <2>4. k \in 1..(h + 1) /\ (k = h + 1 => r.view.got = <<>>) /\ (k <= h => Rest(c, b, r, k, h))
        BY <2>1, <2>3 DEF Reader, Mapped
    <2>5. k <= h => Rest(d, e, r, k, h)'
        <3>1. k <= h => k \in 1..h
            BY <2>1, <2>4
        <3>. QED BY <2>1, <2>4, <3>1, RestStays
    <2>. QED BY <2>2, <2>3, <2>4, <2>5 DEF Mapped
<1>6. Seen(d, e, r)'
    <2>1. CASE r.pc = "closed"
        BY <2>1 DEF Seen, Reader
    <2>2. CASE r.pc # "closed"
        <3>1. PICK h \in 1..Last :
                 /\ h = file[r.head].seq /\ c[h] = r.head /\ r.head \in 1..nfile /\ h \in Nat
                 /\ b[h] \in Nat /\ Whole(r.head) \in Nat /\ b[h] + Whole(r.head) <= Len(history)
                 /\ Last \in Nat /\ Len(history) \in Nat
            BY <1>4, <2>2
        <3>2. PICK s \in 0..(b[h] + Whole(r.head)) : r.seen = After(s)
            BY <2>2, <3>1 DEF Reader, Seen
        <3>3. s \in 0..Len(history)
            BY <3>1
        <3>4. After(s)' = r.seen
            BY <3>2, <3>3, AfterStays DEF Grown
        <3>5. file'[r.head].seq = h /\ e[h] = b[h]
            BY <3>1 DEF Grown, Growth
        <3>6. Whole(c[h]) <= Whole(c[h])' /\ Whole(c[h])' \in Nat
            BY DEF Grown, Growth
        <3>7. Whole(r.head) <= Whole(r.head)' /\ Whole(r.head)' \in Nat
            BY <3>1, <3>6
        <3>8. s \in 0..(e[h] + Whole(r.head)')
            BY <3>1, <3>5, <3>7
        <3>. QED BY <2>2, <3>4, <3>5, <3>8 DEF Seen
    <2>. QED BY <2>1, <2>2
<1>. QED BY <1>1, <1>2, <1>3, <1>5, <1>6 DEF Reader

(* p alone takes the step. *)
Others(p) ==
    OthersStay(p) /\ \A q \in Procs \ {p} : bad'[q] = bad[q] /\ seen'[q] = seen[q]

(* The memory of the others is as it was. *)
LEMMA LocalStays ==
    ASSUME NEW p \in Procs, Others(p), NEW q \in Procs, q # p
    PROVE  Local(q)' = Local(q)
BY DEF Others, OthersStay, Local

(* What is in the memory of a process, by type. *)
LocalT(r) ==
    /\ r.pc \in Places /\ r.op \in Ops /\ r.head \in Nat /\ r.new \in Nat
    /\ r.locked \in BOOLEAN /\ r.bad \in BOOLEAN
    /\ r.files \subseteq Inodes /\ r.sync \in [Inodes -> Nat]
    /\ r.map \in MapT /\ r.idx \in MapT /\ r.view \in ViewT /\ r.seen \in Seq(Txns)

(* The fields of what p has in memory. *)
LEMMA LocalFields ==
    ASSUME NEW p
    PROVE  /\ Local(p).pc = pc[p] /\ Local(p).op = op[p] /\ Local(p).head = head[p]
           /\ Local(p).new = new[p] /\ Local(p).locked = locked[p] /\ Local(p).bad = bad[p]
           /\ Local(p).files = files[p] /\ Local(p).sync = sync[p] /\ Local(p).map = map[p]
           /\ Local(p).idx = idx[p] /\ Local(p).view = view[p] /\ Local(p).seen = seen[p]
BY DEF Local

(* The same after a step. *)
LEMMA LocalNext ==
    ASSUME NEW p
    PROVE  /\ Local(p)'.pc = pc'[p] /\ Local(p)'.op = op'[p] /\ Local(p)'.head = head'[p]
           /\ Local(p)'.new = new'[p] /\ Local(p)'.locked = locked'[p] /\ Local(p)'.bad = bad'[p]
           /\ Local(p)'.files = files'[p] /\ Local(p)'.sync = sync'[p] /\ Local(p)'.map = map'[p]
           /\ Local(p)'.idx = idx'[p] /\ Local(p)'.view = view'[p] /\ Local(p)'.seen = seen'[p]
BY DEF Local

(* What p has in memory is of its types. *)
LEMMA LocalTypes ==
    ASSUME TInv, NEW p \in Procs
    PROVE  LocalT(Local(p))
BY LocalFields DEF TInv, Types, MemTypes, GhostTypes, LocalT

(* One process at a time owns the log. *)
LEMMA OwnsLog ==
    ASSUME TInv, LInv, NEW p \in Procs, Owns(Local(p))
    PROVE  head[p] = path /\ lock[path] = p /\ locked[p] /\ pc[p] # "check"
<1>1. locked[p] /\ pc[p] # "check"
    BY LocalFields DEF Owns
<1>2. LProc(p)
    BY DEF LInv
<1>. QED BY <1>1, <1>2 DEF LProc, OwnerOK

(* Two processes do not own the log at once. *)
LEMMA OwnsAlone ==
    ASSUME TInv, LInv, NEW p \in Procs, NEW q \in Procs, Owns(Local(p)), Owns(Local(q))
    PROVE  p = q
BY OwnsLog

(* What no one has touched. *)
Kept ==
    /\ UNCHANGED <<path, history>>
    /\ \A i \in 1..nfile : file'[i] = file[i]
    /\ index' \in {index, NoMap}

(* What the owner relies on stays if no one touches the log. *)
LEMMA OwnerStays ==
    ASSUME TInv, LInv, Kept, NEW r, Owner(r),
           Owns(r) => r.head \in 1..nfile /\ (r.pc \in Rotating => r.new \in 1..nfile)
    PROVE  Owner(r)'
<1>. SUFFICES ASSUME Owns(r) PROVE Owner(r)'
    BY DEF Owner, Owns
<1>1. path \in 1..nfile /\ path' = path
    BY DEF LInv, NamesOK, Kept
<1>2. file'[path] = file[path] /\ file'[r.head] = file[r.head]
      /\ (r.pc \in Rotating => file'[r.new] = file[r.new])
    BY <1>1 DEF Kept
<1>3. history' = history /\ Last' = Last /\ Size(path)' = Size(path) /\ Size(r.head)' = Size(r.head)
    BY <1>1, <1>2 DEF Last, Size, Kept
<1>4. Ends(r)'
    BY <1>1, <1>3 DEF Owner, Ends, AtEnd
<1>5. NewIs(r)'
    BY <1>2, <1>3 DEF Owner, NewIs
<1>6. MappedAll(r)'
    BY <1>2, <1>3 DEF Owner, MappedAll
<1>7. Reopened(r)'
    <2>1. index' = index \/ index'.seq = 0
        BY DEF Kept, NoMap
    <2>. QED BY <1>3, <2>1 DEF Owner, Reopened
<1>. QED BY <1>4, <1>5, <1>6, <1>7 DEF Owner

(* A step is checked at the process that takes it. *)
LEMMA DStep ==
    ASSUME NEW c, NEW b, NEW d, NEW e, Grown(c, b, d, e), LInv, NEW p \in Procs, Others(p),
           DInv(c, b), Chain(d, e)', Fits(d, e, index)', path2' # 0 => Known(d, path2)',
           Good(d, e, Local(p))', Owns(Local(p)) \/ Kept
    PROVE  DInv(d, e)'
<1>1. ASSUME NEW q \in Procs, q # p PROVE Good(d, e, Local(q))'
    <2>1. PICK r : r = Local(q)
        OBVIOUS
    <2>2. Local(q)' = r
        BY <1>1, <2>1, LocalStays
    <2>3. Good(c, b, r)
        BY <2>1 DEF DInv
    <2>4. Reader(d, e, r)'
        BY <2>3, ReaderStays DEF Good
    <2>5. Owner(r)'
        <3>1. CASE Owns(Local(p))
            <4>1. ~Owns(r)
                BY <1>1, <2>1, <3>1, OwnsAlone DEF Grown
            <4>. QED BY <4>1 DEF Owner, Owns
        <3>2. CASE Kept
            <4>1. Owns(r) => r.head \in 1..nfile
                <5>1. Owns(r) => r.pc # "closed"
                    <6>1. LProc(q)
                        BY DEF LInv
                    <6>. QED BY <2>1, <6>1, LocalFields DEF LProc, PlacesOK, Owns
                <5>2. r.pc # "closed" => r.head \in r.files /\ \A i \in r.files : Known(c, i)
                    BY <2>3 DEF Good, Reader
                <5>. QED BY <5>1, <5>2 DEF Known
            <4>2. r.pc \in Rotating => r.new \in 1..nfile
                <5>1. pc[q] \in Rotating => new[q] # 0 /\ new[q] \in 0..nfile /\ nfile \in Nat
                    BY InodesNat DEF Grown, TInv, ProcOK, HandlesOK, Types, DiskTypes
                <5>. QED BY <2>1, <5>1, LocalFields
            <4>. QED BY <2>3, <3>2, <4>1, <4>2, OwnerStays DEF Good, Grown
        <3>. QED BY <3>1, <3>2
    <2>. QED BY <2>2, <2>4, <2>5 DEF Good
<1>. QED BY <1>1 DEF DInv

(* A step that leaves the log alone. *)
Quiet == UNCHANGED <<file, nfile, path, history>>

(* A step that leaves the log alone leaves its numbering. *)
LEMMA QuietGrown ==
    ASSUME TInv, TInv', NEW c \in Numbering, NEW b \in Numbering, Chain(c, b), Quiet
    PROVE  Grown(c, b, c, b)
<1>1. Last \in Nat
    BY DEF Chain, Numbered
<1>2. Last' = Last
    BY DEF Quiet, Last
<1>3. ASSUME NEW k \in 1..Last PROVE Whole(c[k]) <= Whole(c[k])' /\ Whole(c[k])' \in Nat
    <2>1. Whole(c[k]) \in Nat
        BY ChainBounds
    <2>2. Whole(c[k])' = Whole(c[k])
        BY DEF Whole, Size, Quiet
    <2>. QED BY <2>1, <2>2
<1>4. Len(history) \in Nat
    BY DEF TInv, Types, GhostTypes
<1>. QED BY <1>1, <1>2, <1>3, <1>4 DEF Grown, Growth, Quiet

(* It leaves the files in order, too. *)
LEMMA QuietChain ==
    ASSUME NEW c, NEW b, Chain(c, b), Quiet
    PROVE  Chain(c, b)'
<1>1. Last' = Last /\ history' = history /\ file' = file /\ path' = path /\ nfile' = nfile
    BY DEF Quiet, Last
<1>2. Numbered(c)'
    BY <1>1 DEF Chain, Numbered
<1>3. Recorded(c, b)'
    BY <1>1 DEF Chain, Recorded, Whole, Size
<1>4. Ordered(c, b)'
    BY <1>1 DEF Chain, Ordered, Whole, Size
<1>5. Linked(c, b)'
    BY <1>1 DEF Chain, Linked, Whole, Size
<1>6. Restarts(c, b)'
    BY <1>1 DEF Chain, Restarts, After
<1>. QED BY <1>2, <1>3, <1>4, <1>5, <1>6 DEF Chain

(* The step of p leaves the log alone, and s is what p has in memory then. *)
LEMMA QuietStep ==
    ASSUME Safe, NEW c \in Numbering, NEW b \in Numbering, DInv(c, b), Quiet,
           NEW p \in Procs, Others(p),
           index' = index \/ (index' = NoMap) \/ (Owns(Local(p)) /\ Fits(c, b, index')),
           path2' \in {0, path, path2},
           NEW s, s = Local(p)', Reader(c, b, s), Owner(s)'
    PROVE  DInv(c, b)'
<1>1. Chain(c, b) /\ TInv /\ TInv' /\ LInv
    BY DEF DInv, Safe
<1>2. Grown(c, b, c, b)
    BY <1>1, QuietGrown
<1>3. Chain(c, b)'
    BY <1>1, QuietChain
<1>4. Reader(c, b, s)'
    BY <1>2, ReaderStays
<1>5. Fits(c, b, index)'
    <2>1. PICK m : m = index'
        OBVIOUS
    <2>2. Fits(c, b, m)
        BY <2>1 DEF DInv, Fits
    <2>. QED BY <1>2, <2>1, <2>2, FitsStays
<1>6. path2' # 0 => Known(c, path2)'
    <2>. SUFFICES ASSUME path2' # 0 PROVE Known(c, path2)'
        OBVIOUS
    <2>1. PICK i : i = path2'
        OBVIOUS
    <2>2. Known(c, path)
        <3>1. path \in 1..nfile
            BY <1>1 DEF LInv, NamesOK
        <3>. QED BY <1>1, <3>1 DEF Chain, Numbered, Known, Last
    <2>3. Known(c, i)
        BY <2>1, <2>2 DEF DInv
    <2>. QED BY <1>2, <2>1, <2>3, KnownStays
<1>7. Owns(Local(p)) \/ Kept
    BY DEF Kept, Quiet
<1>8. Good(c, b, Local(p))'
    BY <1>4 DEF Good
<1>. QED BY <1>1, <1>2, <1>3, <1>5, <1>6, <1>7, <1>8, DStep

(* The invariant before a step, and the types after it. *)
Calm(c, b) == Safe /\ c \in Numbering /\ b \in Numbering /\ DInv(c, b)

(* p goes on with the same head and what it has seen. *)
LEMMA Moves ==
    ASSUME NEW c, NEW b, NEW r, Reader(c, b, r), NEW s,
           s.head = r.head, s.seen = r.seen, ~s.bad, s.files \subseteq r.files, s.head \in s.files,
           Fits(c, b, s.map), r.pc # "closed", s.pc \notin {"closed", "mapf"},
           s.pc = "view" => s.view.tail = 0, OpsOK(s), ViewOK(s)
    PROVE  Reader(c, b, s)
<1>1. Viewing(c, b, s) /\ Mapped(c, b, s)
    BY DEF Viewing, Mapped
<1>2. Seen(c, b, s)
    BY DEF Reader, Seen
<1>3. \A i \in s.files : Known(c, i)
    BY DEF Reader
<1>. QED BY <1>1, <1>2, <1>3 DEF Reader

(* A step of someone else that leaves the log alone leaves its owner in    *)
(* order.                                                                  *)
LEMMA QuietOwner ==
    ASSUME Quiet, index' \in {index, NoMap}, NEW s, Owner(s)
    PROVE  Owner(s)'
<1>. SUFFICES ASSUME Owns(s) PROVE Owner(s)'
    BY DEF Owner, Owns
<1>1. file' = file /\ history' = history /\ path' = path /\ Last' = Last
      /\ Size(path)' = Size(path) /\ Size(s.head)' = Size(s.head)
    BY DEF Quiet, Last, Size
<1>2. Ends(s)'
    BY <1>1 DEF Owner, Ends, AtEnd
<1>3. NewIs(s)'
    BY <1>1 DEF Owner, NewIs
<1>4. MappedAll(s)'
    BY <1>1 DEF Owner, MappedAll
<1>5. Reopened(s)'
    <2>1. index' = index \/ index'.seq = 0
        BY DEF NoMap
    <2>. QED BY <1>1, <2>1 DEF Owner, Reopened
<1>. QED BY <1>2, <1>3, <1>4, <1>5 DEF Owner

(* A quiet step of p. *)
LEMMA Step ==
    ASSUME NEW c, NEW b, Calm(c, b), Quiet, NEW p \in Procs, Others(p),
           index' \in {index, NoMap}, path2' \in {0, path, path2},
           NEW s, s = Local(p)', Reader(c, b, s), Owner(s)
    PROVE  DInv(c, b)'
<1>1. Owner(s)'
    BY QuietOwner
<1>. QED BY <1>1, QuietStep DEF Calm

(* What is known of p before the step. *)
LEMMA Before ==
    ASSUME NEW c, NEW b, Calm(c, b), NEW p \in Procs
    PROVE  /\ TInv /\ LInv /\ LProc(p) /\ LocalT(Local(p)) /\ Reader(c, b, Local(p)) /\ Owner(Local(p))
           /\ Fits(c, b, index) /\ Chain(c, b) /\ Known(c, path) /\ path \in 1..nfile
           /\ c \in Numbering /\ b \in Numbering
<1>1. TInv /\ LInv /\ LProc(p)
    BY DEF Calm, Safe, LInv
<1>2. path \in 1..nfile
    BY <1>1 DEF LInv, NamesOK
<1>3. Chain(c, b) /\ Fits(c, b, index) /\ Good(c, b, Local(p))
    BY DEF Calm, DInv
<1>4. Known(c, path)
    BY <1>2, <1>3 DEF Chain, Numbered, Known, Last
<1>. QED BY <1>1, <1>2, <1>3, <1>4, LocalTypes DEF Good, Calm

(* The data stays in order when an operation begins. *)
LEMMA BeginData ==
    ASSUME NEW c, NEW b, Calm(c, b), NEW p \in Procs, Begin(p)
    PROVE  DInv(c, b)'
<1>. USE DEF Begin, Goto
<1>1. Others(p)
    BY DEF Calm, Safe, TInv, Types, MemTypes, GhostTypes, OthersStay, Others
<1>2. Quiet /\ index' = index /\ path2' \in {0, path, path2}
    BY DEF Quiet
<1>3. PICK r : r = Local(p)
    OBVIOUS
<1>4. PICK s : s = Local(p)'
    OBVIOUS
<1>5. /\ r.pc = "idle" /\ s.pc = "lock" /\ s.op \in {"commit", "sync", "reset"}
      /\ s.head = r.head /\ s.locked = r.locked /\ s.bad = r.bad /\ s.files = r.files
      /\ s.map = r.map /\ s.view = r.view /\ s.seen = r.seen
    BY <1>3, <1>4, LocalFields, LocalNext DEF Calm, Safe, TInv, Types, MemTypes
<1>. HIDE DEF Begin
<1>6. Reader(c, b, r) /\ ~r.locked
    BY <1>3, <1>5, Before, LocalFields DEF LProc, PlacesOK
<1>7. OpsOK(s) /\ ViewOK(s)
    BY <1>5, <1>6 DEF Reader, OpsOK, ViewOK
<1>8. Reader(c, b, s)
    BY <1>5, <1>6, <1>7, Moves DEF Reader
<1>9. Owner(s)
    BY <1>5, <1>6 DEF Owner, Owns
<1>. QED BY <1>1, <1>2, <1>4, <1>8, <1>9, Step

(* The data stays in order when dovecot.index is opened. *)
LEMMA OpenIndexData ==
    ASSUME NEW c, NEW b, Calm(c, b), NEW p \in Procs, OpenIndex(p)
    PROVE  DInv(c, b)'
<1>. USE DEF OpenIndex, Goto
<1>1. Others(p)
    BY DEF Calm, Safe, TInv, Types, MemTypes, GhostTypes, OthersStay, Others, diskVars, ghostVars
<1>2. Quiet /\ index' = index /\ path2' \in {0, path, path2}
    BY DEF Quiet, diskVars, ghostVars
<1>3. PICK r : r = Local(p)
    OBVIOUS
<1>4. PICK s : s = Local(p)'
    OBVIOUS
<1>50. /\ pc[p] = "openidx" /\ pc'[p] = "view" /\ op'[p] = "read" /\ locked'[p] = locked[p] /\ map'[p] = index
       /\ head'[p] = head[p] /\ bad'[p] = bad[p] /\ files'[p] = files[p] /\ view'[p] = view[p] /\ seen'[p] = seen[p]
    BY DEF Calm, Safe, TInv, Types, MemTypes, GhostTypes, diskVars, ghostVars
<1>. HIDE DEF OpenIndex
<1>5. /\ r.pc = "openidx" /\ s.pc = "view" /\ s.op = "read" /\ s.locked = r.locked /\ s.map = index
      /\ s.head = r.head /\ s.bad = r.bad /\ s.files = r.files /\ s.view = r.view /\ s.seen = r.seen
    BY <1>3, <1>4, <1>50, LocalFields, LocalNext
<1>6. Reader(c, b, r) /\ Owner(r) /\ LocalT(r)
    BY <1>3, Before
<1>7. ~r.locked
    BY <1>3, <1>5, Before, LocalFields DEF LProc, PlacesOK
<1>71. Fits(c, b, s.map)
    BY <1>5, Before
<1>8. OpsOK(s) /\ ViewOK(s)
    BY <1>5, <1>6, <1>7 DEF Reader, OpsOK, ViewOK
<1>81. s.pc = "view" => s.view.tail = 0
    BY <1>5, <1>6 DEF Reader, ViewOK
<1>9. Reader(c, b, s)
    BY <1>5, <1>6, <1>7, <1>8, <1>81, <1>71, Moves DEF Reader
<1>10. Owner(s)
    BY <1>5, <1>6, <1>7 DEF Owner, Owns
<1>. QED BY <1>1, <1>2, <1>4, <1>9, <1>10, Step

(* The data stays in order when the lock is granted. *)
LEMMA AcquireData ==
    ASSUME NEW c, NEW b, Calm(c, b), NEW p \in Procs, Acquire(p)
    PROVE  DInv(c, b)'
<1>. USE DEF Acquire, Goto
<1>1. Others(p)
    BY DEF Calm, Safe, TInv, Types, MemTypes, GhostTypes, OthersStay, Others, diskVars, ghostVars
<1>2. Quiet /\ index' = index /\ path2' \in {0, path, path2}
    BY DEF Quiet, diskVars, ghostVars
<1>3. PICK r : r = Local(p)
    OBVIOUS
<1>4. PICK s : s = Local(p)'
    OBVIOUS
<1>50. /\ pc[p] = "lock" /\ pc'[p] = "check" /\ op'[p] = op[p]
       /\ head'[p] = head[p] /\ bad'[p] = bad[p] /\ files'[p] = files[p] /\ map'[p] = map[p] /\ view'[p] = view[p] /\ seen'[p] = seen[p]
    BY DEF Calm, Safe, TInv, Types, MemTypes, GhostTypes, diskVars, ghostVars
<1>51. locked'[p]
    BY DEF Calm, Safe, TInv, Types, MemTypes, GhostTypes, diskVars, ghostVars
<1>52. s.locked
    BY <1>4, <1>51, LocalNext
<1>. HIDE DEF Acquire
<1>5. /\ r.pc = "lock" /\ s.pc = "check" /\ s.op = r.op
      /\ s.head = r.head /\ s.bad = r.bad /\ s.files = r.files /\ s.map = r.map /\ s.view = r.view /\ s.seen = r.seen
    BY <1>3, <1>4, <1>50, LocalFields, LocalNext
<1>6. Reader(c, b, r) /\ Owner(r) /\ LocalT(r)
    BY <1>3, Before
<1>7. TRUE
    OBVIOUS
<1>8. OpsOK(s) /\ ViewOK(s)
    BY <1>5, <1>52, <1>6, <1>7 DEF Reader, OpsOK, ViewOK
<1>81. s.pc = "view" => s.view.tail = 0
    BY <1>5, <1>6 DEF Reader, ViewOK
<1>9. Reader(c, b, s)
    BY <1>5, <1>6, <1>7, <1>8, <1>81, Moves DEF Reader
<1>10. Owner(s)
    BY <1>5, <1>6, <1>7, <1>52 DEF Owner, Owns
<1>. QED BY <1>1, <1>2, <1>4, <1>9, <1>10, Step

(* The data stays in order when the locked file is still the log. *)
LEMMA CheckSameData ==
    ASSUME NEW c, NEW b, Calm(c, b), NEW p \in Procs, CheckSame(p)
    PROVE  DInv(c, b)'
<1>. USE DEF CheckSame, Goto
<1>1. Others(p)
    BY DEF Calm, Safe, TInv, Types, MemTypes, GhostTypes, OthersStay, Others, diskVars, ghostVars
<1>2. Quiet /\ index' = index /\ path2' \in {0, path, path2}
    BY DEF Quiet, diskVars, ghostVars
<1>3. PICK r : r = Local(p)
    OBVIOUS
<1>4. PICK s : s = Local(p)'
    OBVIOUS
<1>50. /\ pc[p] = "check" /\ pc'[p] = "view" /\ op[p] = "commit" /\ op'[p] = op[p] /\ locked'[p] = locked[p]
       /\ head'[p] = head[p] /\ bad'[p] = bad[p] /\ files'[p] = files[p] /\ map'[p] = map[p] /\ view'[p] = view[p] /\ seen'[p] = seen[p]
    BY DEF Calm, Safe, TInv, Types, MemTypes, GhostTypes, diskVars, ghostVars
<1>. HIDE DEF CheckSame
<1>5. /\ r.pc = "check" /\ s.pc = "view" /\ r.op = "commit" /\ s.op = r.op /\ s.locked = r.locked
      /\ s.head = r.head /\ s.bad = r.bad /\ s.files = r.files /\ s.map = r.map /\ s.view = r.view /\ s.seen = r.seen
    BY <1>3, <1>4, <1>50, LocalFields, LocalNext
<1>6. Reader(c, b, r) /\ Owner(r) /\ LocalT(r)
    BY <1>3, Before
<1>7. r.locked
    BY <1>3, <1>5, Before, LocalFields DEF LProc, PlacesOK, Rotating
<1>8. OpsOK(s) /\ ViewOK(s)
    BY <1>5, <1>6, <1>7 DEF Reader, OpsOK, ViewOK
<1>81. s.pc = "view" => s.view.tail = 0
    BY <1>5, <1>6 DEF Reader, ViewOK
<1>9. Reader(c, b, s)
    BY <1>5, <1>6, <1>7, <1>8, <1>81, Moves DEF Reader
<1>10. Owner(s)
    BY <1>5, <1>6, <1>7 DEF Owner, Owns, Ends, AtEnd, NewIs, MappedAll, Reopened, Reader, ViewOK, Rotating
<1>. QED BY <1>1, <1>2, <1>4, <1>9, <1>10, Step

(* The data stays in order when a reset takes the .newlock. *)
LEMMA ResetBeginData ==
    ASSUME NEW c, NEW b, Calm(c, b), NEW p \in Procs, ResetBegin(p)
    PROVE  DInv(c, b)'
<1>. USE DEF ResetBegin, Goto
<1>1. Others(p)
    BY DEF Calm, Safe, TInv, Types, MemTypes, GhostTypes, OthersStay, Others, diskVars, ghostVars
<1>2. Quiet /\ index' = index /\ path2' \in {0, path, path2}
    BY DEF Quiet, diskVars, ghostVars
<1>3. PICK r : r = Local(p)
    OBVIOUS
<1>4. PICK s : s = Local(p)'
    OBVIOUS
<1>50. /\ pc[p] = "check" /\ pc'[p] \in {"rot1", "view"} /\ op[p] = "reset" /\ op'[p] = op[p] /\ locked'[p] = locked[p]
       /\ head'[p] = head[p] /\ bad'[p] = bad[p] /\ files'[p] = files[p] /\ map'[p] = map[p] /\ view'[p] = view[p] /\ seen'[p] = seen[p]
    BY DEF Calm, Safe, TInv, Types, MemTypes, GhostTypes, diskVars, ghostVars
<1>. HIDE DEF ResetBegin
<1>5. /\ r.pc = "check" /\ s.pc \in {"rot1", "view"} /\ r.op = "reset" /\ s.op = r.op /\ s.locked = r.locked
      /\ s.head = r.head /\ s.bad = r.bad /\ s.files = r.files /\ s.map = r.map /\ s.view = r.view /\ s.seen = r.seen
    BY <1>3, <1>4, <1>50, LocalFields, LocalNext
<1>6. Reader(c, b, r) /\ Owner(r) /\ LocalT(r)
    BY <1>3, Before
<1>7. r.locked
    BY <1>3, <1>5, Before, LocalFields DEF LProc, PlacesOK, Rotating
<1>8. OpsOK(s) /\ ViewOK(s)
    BY <1>5, <1>6, <1>7 DEF Reader, OpsOK, ViewOK
<1>81. s.pc = "view" => s.view.tail = 0
    BY <1>5, <1>6 DEF Reader, ViewOK
<1>9. Reader(c, b, s)
    BY <1>5, <1>6, <1>7, <1>8, <1>81, Moves DEF Reader
<1>10. Owner(s)
    BY <1>5, <1>6, <1>7 DEF Owner, Owns, Ends, AtEnd, NewIs, MappedAll, Reopened, Reader, ViewOK, Rotating
<1>. QED BY <1>1, <1>2, <1>4, <1>9, <1>10, Step

(* The data stays in order when a sync takes the lock. *)
LEMMA SyncLockData ==
    ASSUME NEW c, NEW b, Calm(c, b), NEW p \in Procs, SyncLock(p)
    PROVE  DInv(c, b)'
<1>. USE DEF SyncLock, Goto, Only
<1>1. Others(p)
    BY DEF Calm, Safe, TInv, Types, MemTypes, GhostTypes, OthersStay, Others, diskVars, ghostVars
<1>2. Quiet /\ index' = index /\ path2' \in {0, path, path2}
    BY DEF Quiet, diskVars, ghostVars
<1>3. PICK r : r = Local(p)
    OBVIOUS
<1>4. PICK s : s = Local(p)'
    OBVIOUS
<1>50. /\ pc[p] = "check" /\ op[p] \in {"sync", "fsck"} /\ op'[p] = op[p] /\ (op[p] = "sync" => pc'[p] = "view") /\ (op[p] = "fsck" => pc'[p] = "fsck") /\ locked'[p] = locked[p]
       /\ head'[p] = head[p] /\ bad'[p] = bad[p] /\ files'[p] = files[p] /\ map'[p] = map[p] /\ view'[p] = view[p] /\ seen'[p] = seen[p]
    BY DEF Calm, Safe, TInv, Types, MemTypes, GhostTypes, diskVars, ghostVars
<1>. HIDE DEF SyncLock
<1>5. /\ r.pc = "check" /\ r.op \in {"sync", "fsck"} /\ s.op = r.op /\ (r.op = "sync" => s.pc = "view") /\ (r.op = "fsck" => s.pc = "fsck") /\ s.locked = r.locked
      /\ s.head = r.head /\ s.bad = r.bad /\ s.files = r.files /\ s.map = r.map /\ s.view = r.view /\ s.seen = r.seen
    BY <1>3, <1>4, <1>50, LocalFields, LocalNext
<1>6. Reader(c, b, r) /\ Owner(r) /\ LocalT(r)
    BY <1>3, Before
<1>7. r.locked
    BY <1>3, <1>5, Before, LocalFields DEF LProc, PlacesOK, Rotating
<1>8. OpsOK(s) /\ ViewOK(s)
    BY <1>5, <1>6, <1>7 DEF Reader, OpsOK, ViewOK
<1>81. s.pc = "view" => s.view.tail = 0
    BY <1>5, <1>6 DEF Reader, ViewOK
<1>9. Reader(c, b, s)
    BY <1>5, <1>6, <1>7, <1>8, <1>81, Moves DEF Reader
<1>10. Owner(s)
    BY <1>5, <1>6, <1>7 DEF Owner, Owns, Ends, AtEnd, NewIs, MappedAll, Reopened, Reader, ViewOK, Rotating
<1>. QED BY <1>1, <1>2, <1>4, <1>9, <1>10, Step

(* The data stays in order when a read starts. *)
LEMMA RefreshData ==
    ASSUME NEW c, NEW b, Calm(c, b), NEW p \in Procs, Refresh(p)
    PROVE  DInv(c, b)'
<1>. USE DEF Refresh, Goto
<1>1. Others(p)
    BY DEF Calm, Safe, TInv, Types, MemTypes, GhostTypes, OthersStay, Others, diskVars, ghostVars
<1>2. Quiet /\ index' = index /\ path2' \in {0, path, path2}
    BY DEF Quiet, diskVars, ghostVars
<1>3. PICK r : r = Local(p)
    OBVIOUS
<1>4. PICK s : s = Local(p)'
    OBVIOUS
<1>50. /\ pc[p] = "idle" /\ pc'[p] = "view" /\ op'[p] = "read" /\ locked'[p] = locked[p]
       /\ head'[p] = head[p] /\ bad'[p] = bad[p] /\ files'[p] = files[p] /\ map'[p] = map[p] /\ view'[p] = view[p] /\ seen'[p] = seen[p]
    BY DEF Calm, Safe, TInv, Types, MemTypes, GhostTypes, diskVars, ghostVars
<1>. HIDE DEF Refresh
<1>5. /\ r.pc = "idle" /\ s.pc = "view" /\ s.op = "read" /\ s.locked = r.locked
      /\ s.head = r.head /\ s.bad = r.bad /\ s.files = r.files /\ s.map = r.map /\ s.view = r.view /\ s.seen = r.seen
    BY <1>3, <1>4, <1>50, LocalFields, LocalNext
<1>6. Reader(c, b, r) /\ Owner(r) /\ LocalT(r)
    BY <1>3, Before
<1>7. ~r.locked
    BY <1>3, <1>5, Before, LocalFields DEF LProc, PlacesOK
<1>8. OpsOK(s) /\ ViewOK(s)
    BY <1>5, <1>6, <1>7 DEF Reader, OpsOK, ViewOK
<1>81. s.pc = "view" => s.view.tail = 0
    BY <1>5, <1>6 DEF Reader, ViewOK
<1>9. Reader(c, b, s)
    BY <1>5, <1>6, <1>7, <1>8, <1>81, Moves DEF Reader
<1>10. Owner(s)
    BY <1>5, <1>6, <1>7 DEF Owner, Owns
<1>. QED BY <1>1, <1>2, <1>4, <1>9, <1>10, Step

(* The data stays in order when there was nothing to write. *)
LEMMA WriteNothingData ==
    ASSUME NEW c, NEW b, Calm(c, b), NEW p \in Procs, WriteNothing(p)
    PROVE  DInv(c, b)'
<1>. USE DEF WriteNothing, Committed, Goto
<1>1. Others(p)
    BY DEF Calm, Safe, TInv, Types, MemTypes, GhostTypes, OthersStay, Others, diskVars, ghostVars
<1>2. Quiet /\ index' = index /\ path2' \in {0, path, path2}
    BY DEF Quiet, diskVars, ghostVars
<1>3. PICK r : r = Local(p)
    OBVIOUS
<1>4. PICK s : s = Local(p)'
    OBVIOUS
<1>50. /\ pc[p] = "write" /\ pc'[p] \in {"view", "unlinkidx"} /\ op'[p] = "read"
       /\ head'[p] = head[p] /\ bad'[p] = bad[p] /\ files'[p] = files[p] /\ map'[p] = map[p] /\ view'[p] = view[p] /\ seen'[p] = seen[p]
    BY DEF Calm, Safe, TInv, Types, MemTypes, GhostTypes, diskVars, ghostVars
<1>51. ~locked'[p]
    BY DEF Calm, Safe, TInv, Types, MemTypes, GhostTypes, diskVars, ghostVars
<1>52. ~s.locked
    BY <1>4, <1>51, LocalNext
<1>. HIDE DEF WriteNothing
<1>5. /\ r.pc = "write" /\ s.pc \in {"view", "unlinkidx"} /\ s.op = "read"
      /\ s.head = r.head /\ s.bad = r.bad /\ s.files = r.files /\ s.map = r.map /\ s.view = r.view /\ s.seen = r.seen
    BY <1>3, <1>4, <1>50, LocalFields, LocalNext
<1>6. Reader(c, b, r) /\ Owner(r) /\ LocalT(r)
    BY <1>3, Before
<1>7. TRUE
    OBVIOUS
<1>8. OpsOK(s) /\ ViewOK(s)
    BY <1>5, <1>52, <1>6, <1>7 DEF Reader, OpsOK, ViewOK
<1>81. s.pc = "view" => s.view.tail = 0
    BY <1>5, <1>6 DEF Reader, ViewOK
<1>9. Reader(c, b, s)
    BY <1>5, <1>6, <1>7, <1>8, <1>81, Moves DEF Reader
<1>10. Owner(s)
    BY <1>5, <1>6, <1>7, <1>52 DEF Owner, Owns
<1>. QED BY <1>1, <1>2, <1>4, <1>9, <1>10, Step

(* The data stays in order when a reset removes dovecot.index. *)
LEMMA UnlinkIndexData ==
    ASSUME NEW c, NEW b, Calm(c, b), NEW p \in Procs, UnlinkIndex(p)
    PROVE  DInv(c, b)'
<1>. USE DEF UnlinkIndex, Goto
<1>1. Others(p)
    BY DEF Calm, Safe, TInv, Types, MemTypes, GhostTypes, OthersStay, Others, diskVars, ghostVars
<1>2. Quiet /\ index' = NoMap /\ path2' \in {0, path, path2}
    BY DEF Quiet, diskVars, ghostVars
<1>3. PICK r : r = Local(p)
    OBVIOUS
<1>4. PICK s : s = Local(p)'
    OBVIOUS
<1>50. /\ pc[p] = "unlinkidx" /\ pc'[p] = "view" /\ op'[p] = op[p] /\ locked'[p] = locked[p]
       /\ head'[p] = head[p] /\ bad'[p] = bad[p] /\ files'[p] = files[p] /\ map'[p] = map[p] /\ view'[p] = view[p] /\ seen'[p] = seen[p]
    BY DEF Calm, Safe, TInv, Types, MemTypes, GhostTypes, diskVars, ghostVars
<1>. HIDE DEF UnlinkIndex
<1>5. /\ r.pc = "unlinkidx" /\ s.pc = "view" /\ s.op = r.op /\ s.locked = r.locked
      /\ s.head = r.head /\ s.bad = r.bad /\ s.files = r.files /\ s.map = r.map /\ s.view = r.view /\ s.seen = r.seen
    BY <1>3, <1>4, <1>50, LocalFields, LocalNext
<1>6. Reader(c, b, r) /\ Owner(r) /\ LocalT(r)
    BY <1>3, Before
<1>7. r.op = "read" /\ ~r.locked
    BY <1>3, <1>5, <1>6, Before, LocalFields DEF LProc, PlacesOK, Reader, OpsOK
<1>8. OpsOK(s) /\ ViewOK(s)
    BY <1>5, <1>6, <1>7 DEF Reader, OpsOK, ViewOK
<1>81. s.pc = "view" => s.view.tail = 0
    BY <1>5, <1>6 DEF Reader, ViewOK
<1>9. Reader(c, b, s)
    BY <1>5, <1>6, <1>7, <1>8, <1>81, Moves DEF Reader
<1>10. Owner(s)
    BY <1>5, <1>6, <1>7 DEF Owner, Owns
<1>. QED BY <1>1, <1>2, <1>4, <1>9, <1>10, Step

(* The data stays in order when a rotation takes the .newlock. *)
LEMMA RotateBeginData ==
    ASSUME NEW c, NEW b, Calm(c, b), NEW p \in Procs, RotateBegin(p)
    PROVE  DInv(c, b)'
<1>. USE DEF RotateBegin, Goto
<1>1. Others(p)
    BY DEF Calm, Safe, TInv, Types, MemTypes, GhostTypes, OthersStay, Others, diskVars, ghostVars
<1>2. Quiet /\ index' = index /\ path2' \in {0, path, path2}
    BY DEF Quiet, diskVars, ghostVars
<1>3. PICK r : r = Local(p)
    OBVIOUS
<1>4. PICK s : s = Local(p)'
    OBVIOUS
<1>50. /\ pc[p] = "synced" /\ pc'[p] = "rot1"
       /\ head'[p] = head[p] /\ new'[p] = new[p] /\ locked'[p] = locked[p] /\ bad'[p] = bad[p] /\ files'[p] = files[p] /\ sync'[p] = sync[p] /\ map'[p] = map[p] /\ idx'[p] = idx[p] /\ view'[p] = view[p] /\ seen'[p] = seen[p] /\ op'[p] = op[p]
    BY DEF Calm, Safe, TInv, Types, MemTypes, GhostTypes, diskVars, ghostVars
<1>. HIDE DEF RotateBegin
<1>5. /\ r.pc = "synced" /\ s.pc = "rot1"
      /\ s.head = r.head /\ s.new = r.new /\ s.locked = r.locked /\ s.bad = r.bad /\ s.files = r.files /\ s.sync = r.sync /\ s.map = r.map /\ s.idx = r.idx /\ s.view = r.view /\ s.seen = r.seen /\ s.op = r.op
    BY <1>3, <1>4, <1>50, LocalFields, LocalNext
<1>6. Reader(c, b, r) /\ Owner(r) /\ LocalT(r)
    BY <1>3, Before
<1>7. r.op = "sync" /\ r.locked
    BY <1>3, <1>5, Before, LocalFields DEF LProc, PlacesOK, Rotating
<1>8. OpsOK(s) /\ ViewOK(s)
    BY <1>5, <1>6, <1>7 DEF Reader, OpsOK, ViewOK
<1>81. s.pc = "view" => s.view.tail = 0
    BY <1>5, <1>6 DEF Reader, ViewOK
<1>9. Reader(c, b, s)
    BY <1>5, <1>6, <1>7, <1>8, <1>81, Moves DEF Reader
<1>10. Owner(s)
    BY <1>5, <1>6, <1>7 DEF Owner, Owns, Ends, AtEnd, NewIs, MappedAll, Reopened, Rotating
<1>. QED BY <1>1, <1>2, <1>4, <1>9, <1>10, Step

(* The data stays in order when a rotation finds another log under the name. *)
LEMMA RotateBrokenData ==
    ASSUME NEW c, NEW b, Calm(c, b), NEW p \in Procs, RotateBroken(p)
    PROVE  DInv(c, b)'
<1>. USE DEF RotateBroken, Goto
<1>1. Others(p)
    BY DEF Calm, Safe, TInv, Types, MemTypes, GhostTypes, OthersStay, Others, diskVars, ghostVars
<1>2. Quiet /\ index' = index /\ path2' \in {0, path, path2}
    BY DEF Quiet, diskVars, ghostVars
<1>3. PICK r : r = Local(p)
    OBVIOUS
<1>4. PICK s : s = Local(p)'
    OBVIOUS
<1>50. /\ pc[p] = "rot1" /\ pc'[p] = "synced" /\ op[p] # "reset"
       /\ head'[p] = head[p] /\ new'[p] = new[p] /\ locked'[p] = locked[p] /\ bad'[p] = bad[p] /\ files'[p] = files[p] /\ sync'[p] = sync[p] /\ map'[p] = map[p] /\ idx'[p] = idx[p] /\ view'[p] = view[p] /\ seen'[p] = seen[p] /\ op'[p] = op[p]
    BY DEF Calm, Safe, TInv, Types, MemTypes, GhostTypes, diskVars, ghostVars
<1>. HIDE DEF RotateBroken
<1>5. /\ r.pc = "rot1" /\ s.pc = "synced" /\ r.op # "reset"
      /\ s.head = r.head /\ s.new = r.new /\ s.locked = r.locked /\ s.bad = r.bad /\ s.files = r.files /\ s.sync = r.sync /\ s.map = r.map /\ s.idx = r.idx /\ s.view = r.view /\ s.seen = r.seen /\ s.op = r.op
    BY <1>3, <1>4, <1>50, LocalFields, LocalNext
<1>6. Reader(c, b, r) /\ Owner(r) /\ LocalT(r)
    BY <1>3, Before
<1>7. r.op \in {"sync", "reset"} /\ r.locked
    BY <1>3, <1>5, Before, LocalFields DEF LProc, PlacesOK, Rotating
<1>8. OpsOK(s) /\ ViewOK(s)
    BY <1>5, <1>6, <1>7 DEF Reader, OpsOK, ViewOK
<1>81. s.pc = "view" => s.view.tail = 0
    BY <1>5, <1>6 DEF Reader, ViewOK
<1>9. Reader(c, b, s)
    BY <1>5, <1>6, <1>7, <1>8, <1>81, Moves DEF Reader
<1>10. Owner(s)
    BY <1>5, <1>6, <1>7 DEF Owner, Owns, Ends, AtEnd, NewIs, MappedAll, Reopened, Rotating
<1>. QED BY <1>1, <1>2, <1>4, <1>9, <1>10, Step

(* The data stays in order when the old .log.2 is removed. *)
LEMMA RotateUnlinkData ==
    ASSUME NEW c, NEW b, Calm(c, b), NEW p \in Procs, RotateUnlink(p)
    PROVE  DInv(c, b)'
<1>. USE DEF RotateUnlink, Goto
<1>1. Others(p)
    BY DEF Calm, Safe, TInv, Types, MemTypes, GhostTypes, OthersStay, Others, diskVars, ghostVars
<1>2. Quiet /\ index' = index /\ path2' \in {0, path, path2}
    BY DEF Quiet, diskVars, ghostVars
<1>3. PICK r : r = Local(p)
    OBVIOUS
<1>4. PICK s : s = Local(p)'
    OBVIOUS
<1>50. /\ pc[p] = "rot2" /\ pc'[p] = "rot3"
       /\ head'[p] = head[p] /\ new'[p] = new[p] /\ locked'[p] = locked[p] /\ bad'[p] = bad[p] /\ files'[p] = files[p] /\ sync'[p] = sync[p] /\ map'[p] = map[p] /\ idx'[p] = idx[p] /\ view'[p] = view[p] /\ seen'[p] = seen[p] /\ op'[p] = op[p]
    BY DEF Calm, Safe, TInv, Types, MemTypes, GhostTypes, diskVars, ghostVars
<1>. HIDE DEF RotateUnlink
<1>5. /\ r.pc = "rot2" /\ s.pc = "rot3"
      /\ s.head = r.head /\ s.new = r.new /\ s.locked = r.locked /\ s.bad = r.bad /\ s.files = r.files /\ s.sync = r.sync /\ s.map = r.map /\ s.idx = r.idx /\ s.view = r.view /\ s.seen = r.seen /\ s.op = r.op
    BY <1>3, <1>4, <1>50, LocalFields, LocalNext
<1>6. Reader(c, b, r) /\ Owner(r) /\ LocalT(r)
    BY <1>3, Before
<1>7. r.op \in {"sync", "reset"} /\ r.locked
    BY <1>3, <1>5, Before, LocalFields DEF LProc, PlacesOK, Rotating
<1>8. OpsOK(s) /\ ViewOK(s)
    BY <1>5, <1>6, <1>7 DEF Reader, OpsOK, ViewOK
<1>81. s.pc = "view" => s.view.tail = 0
    BY <1>5, <1>6 DEF Reader, ViewOK
<1>9. Reader(c, b, s)
    BY <1>5, <1>6, <1>7, <1>8, <1>81, Moves DEF Reader
<1>10. Owner(s)
    BY <1>5, <1>6, <1>7 DEF Owner, Owns, Ends, AtEnd, NewIs, MappedAll, Reopened, Rotating
<1>. QED BY <1>1, <1>2, <1>4, <1>9, <1>10, Step

(* The data stays in order when the log gets its second name. *)
LEMMA RotateLinkData ==
    ASSUME NEW c, NEW b, Calm(c, b), NEW p \in Procs, RotateLink(p)
    PROVE  DInv(c, b)'
<1>. USE DEF RotateLink, Goto
<1>1. Others(p)
    BY DEF Calm, Safe, TInv, Types, MemTypes, GhostTypes, OthersStay, Others, diskVars, ghostVars
<1>2. Quiet /\ index' = index /\ path2' \in {0, path, path2}
    BY DEF Quiet, diskVars, ghostVars
<1>3. PICK r : r = Local(p)
    OBVIOUS
<1>4. PICK s : s = Local(p)'
    OBVIOUS
<1>50. /\ pc[p] = "rot3" /\ pc'[p] = "rot4"
       /\ head'[p] = head[p] /\ new'[p] = new[p] /\ locked'[p] = locked[p] /\ bad'[p] = bad[p] /\ files'[p] = files[p] /\ sync'[p] = sync[p] /\ map'[p] = map[p] /\ idx'[p] = idx[p] /\ view'[p] = view[p] /\ seen'[p] = seen[p] /\ op'[p] = op[p]
    BY DEF Calm, Safe, TInv, Types, MemTypes, GhostTypes, diskVars, ghostVars
<1>. HIDE DEF RotateLink
<1>5. /\ r.pc = "rot3" /\ s.pc = "rot4"
      /\ s.head = r.head /\ s.new = r.new /\ s.locked = r.locked /\ s.bad = r.bad /\ s.files = r.files /\ s.sync = r.sync /\ s.map = r.map /\ s.idx = r.idx /\ s.view = r.view /\ s.seen = r.seen /\ s.op = r.op
    BY <1>3, <1>4, <1>50, LocalFields, LocalNext
<1>6. Reader(c, b, r) /\ Owner(r) /\ LocalT(r)
    BY <1>3, Before
<1>7. r.op \in {"sync", "reset"} /\ r.locked
    BY <1>3, <1>5, Before, LocalFields DEF LProc, PlacesOK, Rotating
<1>8. OpsOK(s) /\ ViewOK(s)
    BY <1>5, <1>6, <1>7 DEF Reader, OpsOK, ViewOK
<1>81. s.pc = "view" => s.view.tail = 0
    BY <1>5, <1>6 DEF Reader, ViewOK
<1>9. Reader(c, b, s)
    BY <1>5, <1>6, <1>7, <1>8, <1>81, Moves DEF Reader
<1>10. Owner(s)
    BY <1>5, <1>6, <1>7 DEF Owner, Owns, Ends, AtEnd, NewIs, MappedAll, Reopened, Rotating
<1>. QED BY <1>1, <1>2, <1>4, <1>9, <1>10, Step

(* The data stays in order when a rotation fails. *)
LEMMA RotateFailData ==
    ASSUME NEW c, NEW b, Calm(c, b), NEW p \in Procs, RotateFail(p)
    PROVE  DInv(c, b)'
<1>. USE DEF RotateFail, Goto
<1>1. Others(p)
    BY DEF Calm, Safe, TInv, Types, MemTypes, GhostTypes, OthersStay, Others, diskVars, ghostVars
<1>2. Quiet /\ index' = index /\ path2' \in {0, path, path2}
    BY DEF Quiet, diskVars, ghostVars
<1>3. PICK r : r = Local(p)
    OBVIOUS
<1>4. PICK s : s = Local(p)'
    OBVIOUS
<1>50. /\ pc[p] = "rot4" /\ pc'[p] = "synced" /\ op[p] = "sync"
       /\ head'[p] = head[p] /\ locked'[p] = locked[p] /\ bad'[p] = bad[p] /\ files'[p] = files[p] /\ sync'[p] = sync[p] /\ map'[p] = map[p] /\ idx'[p] = idx[p] /\ view'[p] = view[p] /\ seen'[p] = seen[p] /\ op'[p] = op[p]
    BY DEF Calm, Safe, TInv, Types, MemTypes, GhostTypes, diskVars, ghostVars
<1>. HIDE DEF RotateFail
<1>5. /\ r.pc = "rot4" /\ s.pc = "synced" /\ r.op = "sync"
      /\ s.head = r.head /\ s.locked = r.locked /\ s.bad = r.bad /\ s.files = r.files /\ s.sync = r.sync /\ s.map = r.map /\ s.idx = r.idx /\ s.view = r.view /\ s.seen = r.seen /\ s.op = r.op
    BY <1>3, <1>4, <1>50, LocalFields, LocalNext
<1>6. Reader(c, b, r) /\ Owner(r) /\ LocalT(r)
    BY <1>3, Before
<1>7. r.op \in {"sync", "reset"} /\ r.locked
    BY <1>3, <1>5, Before, LocalFields DEF LProc, PlacesOK, Rotating
<1>8. OpsOK(s) /\ ViewOK(s)
    BY <1>5, <1>6, <1>7 DEF Reader, OpsOK, ViewOK
<1>81. s.pc = "view" => s.view.tail = 0
    BY <1>5, <1>6 DEF Reader, ViewOK
<1>9. Reader(c, b, s)
    BY <1>5, <1>6, <1>7, <1>8, <1>81, Moves DEF Reader
<1>10. Owner(s)
    BY <1>5, <1>6, <1>7 DEF Owner, Owns, Ends, AtEnd, NewIs, MappedAll, Reopened, Rotating
<1>. QED BY <1>1, <1>2, <1>4, <1>9, <1>10, Step

(* The data stays in order when a sync ends without rewriting dovecot.index. *)
LEMMA SkipIndexData ==
    ASSUME NEW c, NEW b, Calm(c, b), NEW p \in Procs, SkipIndex(p)
    PROVE  DInv(c, b)'
<1>. USE DEF SkipIndex, SyncEnd, Goto
<1>1. Others(p)
    BY DEF Calm, Safe, TInv, Types, MemTypes, GhostTypes, OthersStay, Others, diskVars, ghostVars
<1>2. Quiet /\ index' = index /\ path2' \in {0, path, path2}
    BY DEF Quiet, diskVars, ghostVars
<1>3. PICK r : r = Local(p)
    OBVIOUS
<1>4. PICK s : s = Local(p)'
    OBVIOUS
<1>50. /\ pc[p] = "synced" /\ pc'[p] = "idle" /\ op'[p] = "none"
       /\ head'[p] = head[p] /\ bad'[p] = bad[p] /\ files'[p] = files[p] /\ map'[p] = map[p] /\ view'[p] = view[p] /\ seen'[p] = seen[p]
    BY DEF Calm, Safe, TInv, Types, MemTypes, GhostTypes, diskVars, ghostVars
<1>51. ~locked'[p]
    BY DEF Calm, Safe, TInv, Types, MemTypes, GhostTypes, diskVars, ghostVars
<1>52. ~s.locked
    BY <1>4, <1>51, LocalNext
<1>. HIDE DEF SkipIndex
<1>5. /\ r.pc = "synced" /\ s.pc = "idle" /\ s.op = "none"
      /\ s.head = r.head /\ s.bad = r.bad /\ s.files = r.files /\ s.map = r.map /\ s.view = r.view /\ s.seen = r.seen
    BY <1>3, <1>4, <1>50, LocalFields, LocalNext
<1>6. Reader(c, b, r) /\ Owner(r) /\ LocalT(r)
    BY <1>3, Before
<1>7. TRUE
    OBVIOUS
<1>8. OpsOK(s) /\ ViewOK(s)
    BY <1>5, <1>52, <1>6, <1>7 DEF Reader, OpsOK, ViewOK
<1>81. s.pc = "view" => s.view.tail = 0
    BY <1>5, <1>6 DEF Reader, ViewOK
<1>9. Reader(c, b, s)
    BY <1>5, <1>6, <1>7, <1>8, <1>81, Moves DEF Reader
<1>10. Owner(s)
    BY <1>5, <1>6, <1>7, <1>52 DEF Owner, Owns
<1>. QED BY <1>1, <1>2, <1>4, <1>9, <1>10, Step

(* The data stays in order when a sync rewrites dovecot.index. *)
LEMMA WriteIndexData ==
    ASSUME NEW c, NEW b, Calm(c, b), NEW p \in Procs, WriteIndex(p)
    PROVE  DInv(c, b)'
<1>. USE DEF WriteIndex, SyncEnd, Goto
<1>1. Others(p)
    BY DEF Calm, Safe, TInv, Types, MemTypes, GhostTypes, OthersStay, Others, diskVars, ghostVars
<1>2. Quiet /\ index' = map[p] /\ path2' \in {0, path, path2}
    BY DEF Quiet, diskVars, ghostVars
<1>3. PICK r : r = Local(p)
    OBVIOUS
<1>4. PICK s : s = Local(p)'
    OBVIOUS
<1>50. /\ pc[p] \in {"synced", "rotated"} /\ pc'[p] = "idle" /\ op'[p] = "none"
       /\ head'[p] = head[p] /\ bad'[p] = bad[p] /\ files'[p] = files[p] /\ map'[p] = map[p] /\ view'[p] = view[p] /\ seen'[p] = seen[p]
    BY DEF Calm, Safe, TInv, Types, MemTypes, GhostTypes, diskVars, ghostVars
<1>51. ~locked'[p]
    BY DEF Calm, Safe, TInv, Types, MemTypes, GhostTypes, diskVars, ghostVars
<1>52. ~s.locked
    BY <1>4, <1>51, LocalNext
<1>. HIDE DEF WriteIndex
<1>5. /\ r.pc \in {"synced", "rotated"} /\ s.pc = "idle" /\ s.op = "none"
      /\ s.head = r.head /\ s.bad = r.bad /\ s.files = r.files /\ s.map = r.map /\ s.view = r.view /\ s.seen = r.seen
    BY <1>3, <1>4, <1>50, LocalFields, LocalNext
<1>6. Reader(c, b, r) /\ Owner(r) /\ LocalT(r)
    BY <1>3, Before
<1>7. r.op = "sync" /\ r.locked
    BY <1>3, <1>5, Before, LocalFields DEF LProc, PlacesOK, Rotating
<1>8. OpsOK(s) /\ ViewOK(s)
    BY <1>5, <1>52, <1>6, <1>7 DEF Reader, OpsOK, ViewOK
<1>81. s.pc = "view" => s.view.tail = 0
    BY <1>5, <1>6 DEF Reader, ViewOK
<1>9. Reader(c, b, s)
    BY <1>5, <1>6, <1>7, <1>8, <1>81, Moves DEF Reader
<1>10. Owner(s)
    BY <1>5, <1>6, <1>7, <1>52 DEF Owner, Owns
<1>11. Owner(s)'
    BY <1>52 DEF Owner, Owns
<1>12. Owns(Local(p)) /\ Fits(c, b, index')
    BY <1>2, <1>3, <1>5, <1>6, <1>7, LocalFields DEF Owns, Reader
<1>. QED BY <1>1, <1>2, <1>4, <1>9, <1>11, <1>12, QuietStep DEF Calm

(* What is known of the whole history. *)
LEMMA EndOfLog ==
    ASSUME NEW c, NEW b, Calm(c, b)
    PROVE  /\ history \in Seq(Entries) /\ Len(history) \in Nat
           /\ Last \in 1..Last /\ Last \in Nat /\ c[Last] = path /\ path \in Inodes /\ path \in 1..nfile
           /\ b[Last] \in Nat /\ Whole(path) \in Nat
           /\ Len(history) = b[Last] + Whole(path)
           /\ After(0) = <<>> /\ After(Len(history)) = Effective(history)
<1>1. history \in Seq(Entries) /\ Len(history) \in Nat
    BY DEF Calm, Safe, TInv, Types, GhostTypes, Entries
<1>2. Last \in Nat /\ Last \in 1..Last /\ c[Last] = path
    BY DEF Calm, DInv, Chain, Numbered
<1>3. path \in Inodes /\ path \in 1..nfile /\ b[Last] \in Nat /\ Whole(path) \in Nat
    BY <1>2, ChainBounds DEF Calm, DInv, Safe
<1>4. Len(history) = b[Last] + Whole(path)
    BY DEF Calm, DInv, Chain, Ordered
<1>5. After(0) = <<>>
    BY <1>1, UptoReset DEF After
<1>. QED BY <1>1, <1>2, <1>3, <1>4, <1>5, UptoAll DEF After

(* What p has seen is a beginning of the history, and the log goes on from it. *)
LEMMA SeenSome ==
    ASSUME NEW c, NEW b, Calm(c, b), NEW r, Reader(c, b, r)
    PROVE  \E n \in 0..Len(history) : r.seen = After(n)
<1>1. CASE r.pc = "closed"
    <2>1. r.seen = <<>>
        BY <1>1 DEF Reader, Seen
    <2>. QED BY <2>1, EndOfLog
<1>2. CASE r.pc # "closed"
    <2>1. Known(c, r.head)
        BY <1>2 DEF Reader
    <2>2. PICK h \in 1..Last :
              /\ h = file[r.head].seq /\ c[h] = r.head
              /\ b[h] \in Nat /\ Whole(r.head) \in Nat /\ b[h] + Whole(r.head) <= Len(history)
              /\ Len(history) \in Nat
        BY <2>1, HeadKnown DEF Calm, DInv, Safe
    <2>3. PICK n \in 0..(b[h] + Whole(r.head)) : r.seen = After(n)
        BY <1>2, <2>2 DEF Reader, Seen
    <2>. QED BY <2>2, <2>3
<1>. QED BY <1>1, <1>2

(* What was ever seen is not after the end of the log. *)
LEMMA SeenAtPath ==
    ASSUME NEW c, NEW b, Calm(c, b), NEW r, Reader(c, b, r),
           NEW s, s.head = path, s.seen = r.seen, s.pc # "closed"
    PROVE  Seen(c, b, s)
<1>1. PICK n \in 0..Len(history) : r.seen = After(n)
    BY SeenSome
<1>2. Len(history) = b[file[s.head].seq] + Whole(s.head)
    BY EndOfLog DEF Last
<1>. QED BY <1>1, <1>2 DEF Seen

(* p has nothing in memory. *)
Blank(s) ==
    /\ s.pc = "closed" /\ s.op = "none" /\ ~s.locked /\ ~s.bad
    /\ s.files = {} /\ s.map = NoMap /\ s.view = NoView /\ s.seen = <<>>

(* A process with nothing in memory is in order. *)
LEMMA BlankGood ==
    ASSUME NEW c, NEW b, NEW s, Blank(s)
    PROVE  Reader(c, b, s) /\ Owner(s)
<1>1. Viewing(c, b, s) /\ Mapped(c, b, s) /\ Seen(c, b, s) /\ Fits(c, b, s.map)
    BY DEF Blank, Viewing, Mapped, Seen, Fits
<1>2. OpsOK(s) /\ ViewOK(s)
    BY DEF Blank, OpsOK, ViewOK, NoView
<1>. QED BY <1>1, <1>2 DEF Reader, Owner, Owns, Blank

(* Forget leaves nothing in memory. *)
LEMMA ForgetBlank ==
    ASSUME TInv, NEW p \in Procs, Forget(p)
    PROVE  Others(p) /\ Blank(Local(p)')
<1>. USE DEF Forget, Goto
<1>1. OthersStay(p)
    BY DEF TInv, Types, MemTypes, GhostTypes, OthersStay, Only
<1>2. \A q \in Procs \ {p} : seen'[q] = seen[q] /\ bad'[q] = bad[q]
    BY DEF TInv, Types, MemTypes, GhostTypes
<1>3. /\ pc'[p] = "closed" /\ op'[p] = "none" /\ files'[p] = {} /\ map'[p] = NoMap
      /\ view'[p] = NoView /\ seen'[p] = <<>>
    BY DEF TInv, Types, MemTypes, GhostTypes
<1>4. ~locked'[p] /\ ~bad'[p]
    BY DEF TInv, Types, MemTypes, GhostTypes
<1>. HIDE DEF Forget
<1>5. Others(p)
    BY <1>1, <1>2 DEF Others
<1>. QED BY <1>3, <1>4, <1>5, LocalNext DEF Blank

(* A process that forgets all it has leaves the data in order. *)
LEMMA ForgetData ==
    ASSUME NEW c, NEW b, Calm(c, b), NEW p \in Procs, Forget(p), Quiet,
           UNCHANGED <<index, path2>>
    PROVE  DInv(c, b)'
<1>1. Others(p) /\ Blank(Local(p)')
    BY ForgetBlank DEF Calm, Safe
<1>2. PICK s : s = Local(p)'
    OBVIOUS
<1>3. Reader(c, b, s) /\ Owner(s)
    BY <1>1, <1>2, BlankGood
<1>. QED BY <1>1, <1>2, <1>3, Step

(* Closing, dying and moving to memory forget everything. *)
LEMMA ForgettersData ==
    ASSUME NEW c, NEW b, Calm(c, b), NEW p \in Procs,
           Close(p) \/ Crash(p) \/ CrashInWrite(p) \/ IndexGone(p) \/ IndexWriteFail(p)
    PROVE  DInv(c, b)'
<1>1. Forget(p) /\ Quiet /\ UNCHANGED <<index, path2>>
    BY DEF Close, Crash, CrashInWrite, IndexGone, IndexWriteFail, Quiet
<1>. QED BY <1>1, ForgetData

(* An operation that is given up leaves the data in order. *)
LEMMA GiveUpData ==
    ASSUME NEW c, NEW b, Calm(c, b), NEW p \in Procs, GiveUp(p), pc[p] # "closed",
           UNCHANGED <<file, path, bad>>
    PROVE  DInv(c, b)'
<1>. USE DEF GiveUp, Goto
<1>1. OthersStay(p)
    BY DEF Calm, Safe, TInv, Types, MemTypes, OthersStay
<1>2. Quiet /\ index' = index /\ path2' = path2 /\ seen' = seen /\ bad' = bad
    BY DEF Quiet, ghostVars
<1>3. /\ pc'[p] = "idle" /\ op'[p] = "none" /\ head'[p] = head[p] /\ files'[p] = {head[p]}
      /\ map'[p] = map[p] /\ view'[p] = NoView
    BY DEF Calm, Safe, TInv, Types, MemTypes
<1>4. ~locked'[p]
    BY DEF Calm, Safe, TInv, Types, MemTypes
<1>. HIDE DEF GiveUp
<1>5. Others(p)
    BY <1>1, <1>2 DEF Others
<1>6. PICK r : r = Local(p)
    OBVIOUS
<1>7. PICK s : s = Local(p)'
    OBVIOUS
<1>8. /\ s.pc = "idle" /\ s.op = "none" /\ s.head = r.head /\ s.files = {r.head} /\ ~s.locked
      /\ s.map = r.map /\ s.view = NoView /\ s.bad = r.bad /\ s.seen = r.seen /\ r.pc # "closed"
    BY <1>2, <1>3, <1>4, <1>6, <1>7, LocalFields, LocalNext
<1>9. Reader(c, b, r)
    BY <1>6, Before
<1>10. OpsOK(s) /\ ViewOK(s)
    BY <1>8 DEF OpsOK, ViewOK, NoView
<1>11. Reader(c, b, s)
    BY <1>8, <1>9, <1>10, Moves DEF Reader
<1>12. Owner(s)
    BY <1>8 DEF Owner, Owns
<1>. QED BY <1>2, <1>5, <1>7, <1>11, <1>12, Step

(* The failures that end an operation. *)
LEMMA GiversUpData ==
    ASSUME NEW c, NEW b, Calm(c, b), ~Damaged, NEW p \in Procs,
           Timeout(p) \/ FindUnusable(p) \/ LostFail(p) \/ Trunc(p)
    PROVE  DInv(c, b)'
<1>1. GiveUp(p) /\ pc[p] # "closed" /\ bad' = bad
    BY DEF Timeout, FindUnusable, LostFail, Trunc, Finding, Lost
<1>2. ~bad[p]
    <2>1. Reader(c, b, Local(p))
        BY Before
    <2>. QED BY <2>1, LocalFields DEF Reader
<1>3. file' = file
    BY <1>2 DEF Timeout, FindUnusable, LostFail, Trunc, Truncated
<1>4. path' = path
    <2>1. file[path].ok
        BY EndOfLog DEF Damaged
    <2>. QED BY <2>1 DEF Timeout, FindUnusable, LostFail, Trunc
<1>. QED BY <1>1, <1>3, <1>4, GiveUpData

(* The data stays in order when the log is opened. *)
LEMMA OpenLogData ==
    ASSUME NEW c, NEW b, Calm(c, b), NEW p \in Procs, OpenLog(p)
    PROVE  DInv(c, b)'
<1>. USE DEF OpenLog, Goto, diskVars, ghostVars
<1>1. Others(p)
    BY DEF Calm, Safe, TInv, Types, MemTypes, OthersStay, Others
<1>2. Quiet /\ index' = index /\ path2' = path2
    BY DEF Quiet
<1>3. /\ pc[p] = "closed" /\ pc'[p] = "openidx" /\ head'[p] = path /\ files'[p] = {path}
      /\ op'[p] = op[p] /\ locked'[p] = locked[p] /\ bad'[p] = bad[p] /\ map'[p] = map[p]
      /\ view'[p] = view[p] /\ seen'[p] = seen[p]
    BY DEF Calm, Safe, TInv, Types, MemTypes
<1>. HIDE DEF OpenLog
<1>4. PICK r : r = Local(p)
    OBVIOUS
<1>5. PICK s : s = Local(p)'
    OBVIOUS
<1>6. /\ r.pc = "closed" /\ s.pc = "openidx" /\ s.head = path /\ s.files = {path} /\ s.op = r.op
      /\ s.locked = r.locked /\ s.bad = r.bad /\ s.map = r.map /\ s.view = r.view /\ s.seen = r.seen
    BY <1>3, <1>4, <1>5, LocalFields, LocalNext
<1>7. Reader(c, b, r) /\ ~r.locked /\ Known(c, path)
    BY <1>4, <1>6, Before, LocalFields DEF LProc, PlacesOK
<1>8. OpsOK(s) /\ ViewOK(s) /\ Viewing(c, b, s) /\ Mapped(c, b, s)
    BY <1>6, <1>7 DEF Reader, OpsOK, ViewOK, Viewing, Mapped
<1>9. Seen(c, b, s)
    BY <1>6, <1>7, SeenAtPath
<1>10. Reader(c, b, s)
    BY <1>6, <1>7, <1>8, <1>9 DEF Reader
<1>11. Owner(s)
    BY <1>6, <1>7 DEF Owner, Owns
<1>. QED BY <1>1, <1>2, <1>5, <1>10, <1>11, Step

(* The data stays in order when the locked file is no longer the log. *)
LEMMA CheckChangedData ==
    ASSUME NEW c, NEW b, Calm(c, b), NEW p \in Procs, CheckChanged(p)
    PROVE  DInv(c, b)'
<1>. USE DEF CheckChanged, Goto, ghostVars
<1>1. OthersStay(p)
    BY DEF Calm, Safe, TInv, Types, MemTypes, OthersStay, Only
<1>12. \A q \in Procs \ {p} : seen'[q] = seen[q] /\ bad'[q] = bad[q]
    BY DEF Calm, Safe, TInv, Types, MemTypes
<1>2. Quiet /\ index' = index /\ path2' = path2
    BY DEF Quiet
<1>3. /\ pc[p] = "check" /\ pc'[p] = "lock" /\ head'[p] = path /\ files'[p] = {path}
      /\ op'[p] = op[p] /\ map'[p] = map[p] /\ view'[p] = view[p] /\ seen'[p] = seen[p]
    BY DEF Calm, Safe, TInv, Types, MemTypes
<1>31. ~locked'[p] /\ ~bad'[p]
    BY DEF Calm, Safe, TInv, Types, MemTypes
<1>. HIDE DEF CheckChanged
<1>4. PICK r : r = Local(p)
    OBVIOUS
<1>5. PICK s : s = Local(p)'
    OBVIOUS
<1>6. /\ r.pc = "check" /\ s.pc = "lock" /\ s.head = path /\ s.files = {path} /\ s.op = r.op
      /\ ~s.locked /\ ~s.bad /\ s.map = r.map /\ s.view = r.view /\ s.seen = r.seen
    BY <1>3, <1>31, <1>4, <1>5, LocalFields, LocalNext
<1>7. Reader(c, b, r) /\ Known(c, path)
    BY <1>4, Before
<1>8. OpsOK(s) /\ ViewOK(s) /\ Viewing(c, b, s) /\ Mapped(c, b, s)
    BY <1>6, <1>7 DEF Reader, OpsOK, ViewOK, Viewing, Mapped
<1>9. Seen(c, b, s)
    BY <1>6, <1>7, SeenAtPath
<1>10. Reader(c, b, s)
    BY <1>6, <1>7, <1>8, <1>9 DEF Reader
<1>11. Owner(s)
    BY <1>6 DEF Owner, Owns
<1>13. Others(p)
    BY <1>1, <1>12 DEF Others
<1>. QED BY <1>2, <1>5, <1>10, <1>11, <1>13, Step

(* The data stays in order when dovecot.index is read again. *)
LEMMA ReopenData ==
    ASSUME NEW c, NEW b, Calm(c, b), NEW p \in Procs, Reopen(p)
    PROVE  DInv(c, b)'
<1>. USE DEF Reopen, Goto, diskVars, ghostVars, Lost, Ident
<1>1. Others(p)
    BY DEF Calm, Safe, TInv, Types, MemTypes, OthersStay, Others
<1>2. Quiet /\ index' = index /\ path2' = path2
    BY DEF Quiet
<1>3. /\ pc[p] \in {"view", "lost"} /\ pc'[p] = "view"
      /\ head'[p] = head[p] /\ files'[p] = files[p]
      /\ op'[p] = op[p] /\ locked'[p] = locked[p] /\ bad'[p] = bad[p] /\ seen'[p] = seen[p]
      /\ map'[p] = (IF index.seq = 0 THEN map[p] ELSE index) /\ idx'[p] = index
      /\ view'[p] = [NoView EXCEPT !.tries = view[p].tries + 1]
    BY DEF Calm, Safe, TInv, Types, MemTypes
<1>. HIDE DEF Reopen
<1>4. PICK r : r = Local(p)
    OBVIOUS
<1>5. PICK s : s = Local(p)'
    OBVIOUS
<1>6. /\ r.pc \in {"view", "lost"} /\ s.pc = "view" /\ s.head = r.head /\ s.files = r.files /\ s.op = r.op
      /\ s.locked = r.locked /\ s.bad = r.bad /\ s.seen = r.seen
      /\ s.map = (IF index.seq = 0 THEN r.map ELSE index) /\ s.idx = index
      /\ s.view = [NoView EXCEPT !.tries = r.view.tries + 1]
    BY <1>3, <1>4, <1>5, LocalFields, LocalNext
<1>7. Reader(c, b, r) /\ Fits(c, b, index)
    BY <1>4, Before
<1>8. s.view.tail = 0 /\ s.view.got = <<>>
    BY <1>6 DEF NoView
<1>9. OpsOK(s) /\ ViewOK(s)
    BY <1>6, <1>7, <1>8 DEF Reader, OpsOK, ViewOK
<1>10. Fits(c, b, s.map)
    BY <1>6, <1>7 DEF Reader
<1>11. Reader(c, b, s)
    BY <1>6, <1>7, <1>8, <1>9, <1>10, Moves DEF Reader
<1>12. Owner(s)
    BY <1>6 DEF Owner, Owns, Ends, AtEnd, NewIs, MappedAll, Reopened, Rotating
<1>. QED BY <1>1, <1>2, <1>5, <1>11, <1>12, Step

(* The data stays in order when the log is lost and the index has to be    *)
(* repaired.                                                               *)
LEMMA LostFsckData ==
    ASSUME NEW c, NEW b, Calm(c, b), NEW p \in Procs, LostFsck(p)
    PROVE  DInv(c, b)'
<1>. USE DEF LostFsck, Goto, diskVars, ghostVars
<1>1. Others(p)
    BY DEF Calm, Safe, TInv, Types, MemTypes, OthersStay, Others
<1>2. Quiet /\ index' = index /\ path2' = path2
    BY DEF Quiet
<1>3. /\ IF locked[p] THEN pc'[p] = "fsck" /\ op'[p] = op[p] ELSE pc'[p] = "lock" /\ op'[p] = "fsck"
      /\ head'[p] = head[p] /\ files'[p] = files[p]
      /\ locked'[p] = locked[p] /\ bad'[p] = bad[p] /\ seen'[p] = seen[p]
      /\ map'[p] = map[p] /\ idx'[p] = idx[p]
      /\ view'[p] = [NoView EXCEPT !.tries = 1]
    BY DEF Calm, Safe, TInv, Types, MemTypes
<1>31. /\ pc[p] \in {"view", "lost"} /\ view[p].tries = 1
       /\ pc[p] = "view" => map[p].seq = 0
    BY DEF Lost, NoBeginning
<1>. HIDE DEF LostFsck
<1>4. PICK r : r = Local(p)
    OBVIOUS
<1>5. PICK s : s = Local(p)'
    OBVIOUS
<1>6. /\ r.pc \in {"view", "lost"} /\ r.view.tries = 1
      /\ r.pc = "view" => r.map.seq = 0
      /\ IF r.locked THEN s.pc = "fsck" /\ s.op = r.op ELSE s.pc = "lock" /\ s.op = "fsck"
      /\ s.head = r.head /\ s.files = r.files
      /\ s.locked = r.locked /\ s.bad = r.bad /\ s.seen = r.seen
      /\ s.map = r.map /\ s.idx = r.idx
      /\ s.view = [NoView EXCEPT !.tries = 1]
    BY <1>3, <1>31, <1>4, <1>5, LocalFields, LocalNext
<1>7. Reader(c, b, r) /\ Owner(r) /\ LocalT(r) /\ (r.op = "read" => ~r.locked)
    BY <1>4, Before, LocalFields DEF LProc, PlacesOK
<1>8. s.view.tail = 0 /\ s.view.got = <<>> /\ s.view.tries = 1
    BY <1>6 DEF NoView
<1>9. OpsOK(s) /\ ViewOK(s)
    <2>1. r.op \notin {"none", "fsck"}
        BY <1>6, <1>7 DEF Reader, OpsOK
    <2>2. CASE r.locked
        BY <1>6, <1>7, <1>8, <2>1, <2>2 DEF OpsOK, ViewOK
    <2>3. CASE ~r.locked
        BY <1>6, <1>7, <1>8, <2>1, <2>3 DEF OpsOK, ViewOK
    <2>. QED BY <2>2, <2>3
<1>10. Reader(c, b, s)
    <2>1. s.pc \notin {"closed", "mapf", "view"}
        BY <1>6
    <2>. QED BY <1>6, <1>7, <1>9, <2>1, Moves DEF Reader
<1>11. Owner(s)
    <2>. SUFFICES ASSUME Owns(s), s.pc = "fsck" PROVE Owner(s)
        BY <1>6 DEF Owner, Owns
    <2>1. r.op # "fsck" /\ Owns(r) /\ s.op = r.op
        BY <1>6, <1>7 DEF Reader, OpsOK, Owns
    <2>2. index.seq = 0 \/ (r.idx = index /\ r.map = index)
        BY <1>6, <1>7, <2>1 DEF Owner, Reopened
    <2>3. r.map.seq # Last
        <3>1. CASE r.pc = "lost"
            BY <1>7, <2>1, <3>1 DEF Owner, Reopened
        <3>2. CASE r.pc = "view"
            BY <1>6, <3>2, EndOfLog
        <3>. QED BY <1>6, <3>1, <3>2
    <2>. QED BY <1>6, <1>8, <2>1, <2>2, <2>3
             DEF Owner, Ends, AtEnd, NewIs, MappedAll, Reopened, Rotating
<1>. QED BY <1>1, <1>2, <1>5, <1>10, <1>11, Step

(* A repair that loses nothing is a repair by a reader who came too late:  *)
(* someone else has rewritten dovecot.index.                               *)
LEMMA FsckKeeps ==
    ASSUME NEW c, NEW b, Calm(c, b), NEW p \in Procs, Fsck(p), ~loss'
    PROVE  op[p] = "fsck" /\ index' = index /\ index.seq # 0
<1>1. index' = index /\ index.seq # 0 /\ pc[p] = "fsck"
    BY DEF Fsck
<1>2. index' = IF idx[p] = index THEN FsckedMap(p) ELSE index
    BY DEF Fsck, Ident
<1>3. PICK r : r = Local(p)
    OBVIOUS
<1>4. Reader(c, b, r) /\ Owner(r) /\ r.locked /\ r.pc = "fsck"
    BY <1>1, <1>3, Before, LocalFields DEF LProc, PlacesOK
<1>5. ASSUME op[p] # "fsck" PROVE FALSE
    <2>1. r.op # "fsck" /\ Owns(r)
        BY <1>3, <1>4, <1>5, LocalFields DEF Owns
    <2>2. r.view.tries # 0 /\ r.map.seq # Last
        BY <1>4, <2>1 DEF Owner, Reopened
    <2>3. r.idx = index /\ r.map = index
        BY <1>1, <1>4, <2>1, <2>2 DEF Owner, Reopened
    <2>4. FsckedMap(p) = index
        BY <1>1, <1>2, <1>3, <2>3, LocalFields
    <2>5. FsckedMap(p).seq = file[head[p]].seq
        <3>1. map[p] \in MapT
            BY DEF Calm, Safe, TInv, Types, MemTypes
        <3>. QED BY <3>1 DEF FsckedMap, MapT
    <2>6. head[p] = path
        BY <1>3, <2>1, OwnsLog DEF Calm, Safe
    <2>. QED BY <2>2, <2>3, <2>4, <2>5, <2>6 DEF Last
<1>. QED BY <1>1, <1>5

(* The data stays in order when the index is repaired. *)
LEMMA FsckData ==
    ASSUME NEW c, NEW b, Calm(c, b), NEW p \in Procs, Fsck(p), ~loss'
    PROVE  DInv(c, b)'
<1>1. op[p] = "fsck" /\ index' = index /\ index.seq # 0
    BY FsckKeeps
<1>. USE DEF Fsck, Goto
<1>2. Quiet /\ path2' = path2
    BY DEF Quiet
<1>3. /\ map' = [map EXCEPT ![p] = index]
      /\ locked' = [locked EXCEPT ![p] = FALSE]
      /\ op' = [op EXCEPT ![p] = "read"]
      /\ pc' = [pc EXCEPT ![p] = "view"]
      /\ view' = [view EXCEPT ![p] = [NoView EXCEPT !.tries = 2]]
      /\ UNCHANGED <<head, new, bad, files, sync, seen>>
      /\ pc[p] = "fsck"
    BY <1>1 DEF Calm, Safe, TInv, Types, MemTypes
<1>4. idx' = [idx EXCEPT ![p] = index]
    BY <1>1 DEF Ident
<1>. HIDE DEF Fsck
<1>5. Others(p)
    BY <1>3, <1>4 DEF Calm, Safe, TInv, Types, MemTypes, OthersStay, Others
<1>6. PICK r : r = Local(p)
    OBVIOUS
<1>7. PICK s : s = Local(p)'
    OBVIOUS
<1>8. /\ s.pc = "view" /\ s.op = "read" /\ s.map = index /\ s.view = [NoView EXCEPT !.tries = 2]
      /\ s.head = r.head /\ s.bad = r.bad /\ s.files = r.files /\ s.seen = r.seen /\ r.pc = "fsck"
    <2>1. pc'[p] = "view" /\ op'[p] = "read" /\ map'[p] = index
        BY <1>3 DEF Calm, Safe, TInv, Types, MemTypes
    <2>2. view'[p] = [NoView EXCEPT !.tries = 2]
        BY <1>3 DEF Calm, Safe, TInv, Types, MemTypes
    <2>3. head'[p] = head[p] /\ bad'[p] = bad[p] /\ files'[p] = files[p] /\ seen'[p] = seen[p] /\ pc[p] = "fsck"
        BY <1>3
    <2>. QED BY <2>1, <2>2, <2>3, <1>6, <1>7, LocalFields, LocalNext
<1>9. ~s.locked
    <2>1. ~locked'[p]
        BY <1>3 DEF Calm, Safe, TInv, Types, MemTypes
    <2>. QED BY <1>7, <2>1, LocalNext
<1>10. Reader(c, b, r) /\ Fits(c, b, index)
    BY <1>6, Before
<1>11. s.view.tail = 0 /\ s.view.got = <<>>
    BY <1>8 DEF NoView
<1>12. OpsOK(s) /\ ViewOK(s)
    BY <1>8, <1>11 DEF OpsOK, ViewOK
<1>13. Reader(c, b, s)
    BY <1>8, <1>10, <1>11, <1>12, Moves DEF Reader
<1>14. Owner(s)
    BY <1>9 DEF Owner, Owns
<1>. QED BY <1>1, <1>2, <1>5, <1>7, <1>13, <1>14, Step

(* A commit is complete: fsync() succeeds. *)
LEMMA FsyncedData ==
    ASSUME NEW c, NEW b, Calm(c, b), NEW p \in Procs, Fsynced(p)
    PROVE  DInv(c, b)'
<1>1. PICK t : t = [sync[p] EXCEPT ![head[p]] = @ + TxnSize]
    OBVIOUS
<1>2. sync' = [sync EXCEPT ![p] = t]
    BY <1>1 DEF Fsynced
<1>3. /\ Quiet /\ path2' = path2 /\ index' = index
      /\ UNCHANGED <<head, new, bad, files, map, idx, view, seen>> /\ pc[p] = "fsync"
    BY DEF Fsynced, Quiet, ghostVars
<1>4. IF op[p] = "sync"
      THEN pc' = [pc EXCEPT ![p] = "view"] /\ UNCHANGED <<locked, op>>
      ELSE /\ locked' = [locked EXCEPT ![p] = FALSE]
           /\ op' = [op EXCEPT ![p] = "read"]
           /\ pc' = [pc EXCEPT ![p] = IF op[p] = "fill" THEN "unlinkidx" ELSE "view"]
    BY DEF Fsynced, Committed, Goto
<1>5. Others(p)
    BY <1>2, <1>3, <1>4 DEF Calm, Safe, TInv, Types, MemTypes, OthersStay, Others
<1>6. PICK r : r = Local(p)
    OBVIOUS
<1>7. PICK s : s = Local(p)'
    OBVIOUS
<1>8. /\ s.head = r.head /\ s.bad = r.bad /\ s.files = r.files /\ s.seen = r.seen /\ r.pc = "fsync"
      /\ s.map = r.map /\ s.view = r.view
    BY <1>3, <1>6, <1>7, LocalFields, LocalNext
<1>9. \/ r.op = "sync" /\ s.pc = "view" /\ s.op = "sync" /\ s.locked = r.locked
      \/ s.op = "read" /\ s.pc \in {"unlinkidx", "view"} /\ s.locked = FALSE
    <2>1. CASE op[p] = "sync"
        <3>1. pc'[p] = "view" /\ op'[p] = "sync" /\ locked'[p] = locked[p]
            BY <1>4, <2>1 DEF Calm, Safe, TInv, Types, MemTypes
        <3>. QED BY <1>6, <1>7, <2>1, <3>1, LocalFields, LocalNext
    <2>2. CASE op[p] # "sync"
        <3>1. pc'[p] \in {"unlinkidx", "view"} /\ op'[p] = "read"
            BY <1>4, <2>2 DEF Calm, Safe, TInv, Types, MemTypes
        <3>2. locked'[p] = FALSE
            <4>1. locked' = [locked EXCEPT ![p] = FALSE]
                BY <1>4, <2>2
            <4>. QED BY <4>1 DEF Calm, Safe, TInv, Types, MemTypes
        <3>. QED BY <1>6, <1>7, <3>1, <3>2, LocalFields, LocalNext
    <2>. QED BY <2>1, <2>2
<1>10. Reader(c, b, r) /\ r.locked \in BOOLEAN
    BY <1>6, Before DEF LocalT
<1>11. s.view.tail = 0 /\ s.view.got = <<>> /\ s.view.tries = 0
    BY <1>8, <1>10 DEF Reader, ViewOK, OpsOK
<1>12. OpsOK(s) /\ ViewOK(s)
    BY <1>8, <1>9, <1>10, <1>11 DEF Reader, OpsOK, ViewOK
<1>13. Reader(c, b, s)
    BY <1>8, <1>9, <1>10, <1>11, <1>12, Moves DEF Reader
<1>14. Owner(s)
    BY <1>9, <1>11 DEF Owner, Owns, Ends, AtEnd, NewIs, MappedAll, Reopened, Rotating
<1>. QED BY <1>3, <1>5, <1>7, <1>13, <1>14, Step

(* w begins where a map m is. *)
Starts(c, b, w, m) ==
    /\ At(c, b, w.seq, w.off, m.hist)
    /\ m.seq <= w.seq
    /\ w.tail \in 1..Last
    /\ \/ w.tail = w.seq
       \/ w.tail > w.seq /\ file[c[w.tail]].prevSeq = 0

(* The range of the view begins where the map is, or where the log that    *)
(* goes on from there begins.                                              *)
LEMMA RangeData ==
    ASSUME NEW c, NEW b, Calm(c, b), NEW p \in Procs, Finding(p)
    PROVE  /\ ViewRange(p) \in ViewT /\ ViewRange(p).tail # 0
           /\ ViewRange(p).got = <<>> /\ ViewRange(p).tries = view[p].tries
           /\ Starts(c, b, ViewRange(p), map[p])
<1>0. PICK r : r = Local(p)
    OBVIOUS
<1>1. pc[p] = "view" /\ head[p] \in 1..nfile /\ TInv
    BY HeadOK DEF Finding, NoLogPlaces, Calm, Safe
<1>2. Reader(c, b, r) /\ r.pc = "view" /\ r.view = view[p] /\ r.map = map[p] /\ r.head = head[p]
    BY <1>0, <1>1, Before, LocalFields
<1>3. ViewRange(p) \in ViewT /\ ViewRange(p).tail # 0
    BY <1>1, RangeOK DEF Finding
<1>4. view[p] \in ViewT /\ map[p] \in MapT
    BY <1>1 DEF TInv, Types, MemTypes
<1>5. view[p].got = <<>>
    BY <1>2 DEF Reader, ViewOK
<1>6. CASE view[p].tail # 0
    <2>1. ViewRange(p) = view[p]
        BY <1>1, <1>6, RangeOK
    <2>. QED BY <1>2, <1>3, <1>5, <1>6, <2>1 DEF Reader, Viewing, Starts
<1>7. CASE view[p].tail = 0
    <2>1. PICK h \in 1..Last : h = file[head[p]].seq /\ c[h] = head[p] /\ Last \in Nat /\ h \in Nat
                               /\ head[p] \in Inodes
        <3>1. Known(c, head[p])
            BY <1>2 DEF Reader
        <3>. QED BY <3>1, HeadKnown, Before
    <2>2. PICK m \in MapT : m = map[p] /\ Fits(c, b, m)
        BY <1>2, <1>4 DEF Reader
    <2>3. m.seq \in Nat /\ m.off \in Nat /\ (m.seq = 0 => m.off = 0)
        BY <1>1, <2>2, MapOf DEF TInv, ProcOK, PosOK
    <2>4. PICK f : f = file[head[p]]
        OBVIOUS
    <2>5. /\ f.seq = h /\ f.prevSeq \in Nat /\ f.prevOff \in Nat /\ (f.prevSeq = 0 => f.prevOff = 0)
        BY <1>1, <2>1, <2>4, FileOf DEF TInv, Types, FileOK
    <2>6. m.seq # 0 \/ f.prevSeq = 0
        BY <1>7, <2>2, <2>4 DEF Finding, NoBeginning
    <2>. DEFINE skip == <<f.prevSeq, f.prevOff>> = <<m.seq, m.off>>
                seq == IF skip THEN h ELSE m.seq
    <2>7. ViewRange(p) = [view[p] EXCEPT !.seq = seq, !.tail = seq, !.off = IF skip THEN 0 ELSE m.off]
        BY <1>7, <2>2, <2>4, <2>5 DEF ViewRange
    <2>8. CASE skip
        <3>1. f.prevSeq = m.seq /\ f.prevOff = m.off
            BY <2>8
        <3>2. ViewRange(p) = [view[p] EXCEPT !.seq = h, !.tail = h, !.off = 0]
            BY <2>7, <2>8
        <3>. HIDE DEF skip, seq
        <3>3. /\ ViewRange(p).seq = h /\ ViewRange(p).tail = h /\ ViewRange(p).off = 0
              /\ ViewRange(p).got = <<>> /\ ViewRange(p).tries = view[p].tries
            BY <1>4, <1>5, <3>2 DEF ViewT
        <3>4. m.hist = After(b[h]) /\ m.seq <= h
            <4>1. CASE f.prevSeq = 0
                <5>1. m = NoMap
                    BY <2>2, <2>1, <3>1, <4>1 DEF Fits, At
                <5>2. After(b[h]) = <<>>
                    BY <2>1, <2>4, <4>1, Before DEF Chain, Restarts
                <5>. QED BY <5>1, <5>2, <2>1 DEF NoMap
            <4>2. CASE f.prevSeq # 0
                <5>1. /\ h > 1 /\ f.prevSeq = h - 1 /\ f.prevOff = Size(c[h - 1])
                      /\ Size(c[h - 1]) = 2 * Whole(c[h - 1]) /\ b[h] = b[h - 1] + Whole(c[h - 1])
                    BY <2>1, <2>4, <4>2, Before DEF Chain, Linked
                <5>2. m # NoMap
                    BY <3>1, <4>2 DEF NoMap
                <5>3. PICK x \in 0..Whole(c[h - 1]) : m.off = 2 * x /\ m.hist = After(b[h - 1] + x)
                    BY <2>2, <3>1, <5>1, <5>2 DEF Fits, At
                <5>4. h - 1 \in 1..Last
                    BY <2>1, <5>1
                <5>5. Whole(c[h - 1]) \in Nat
                    BY <5>4, Before, ChainBounds
                <5>6. x = Whole(c[h - 1])
                    <6>1. PICK n \in Nat : n = Whole(c[h - 1])
                        BY <5>5
                    <6>2. 2 * x = 2 * n /\ x \in 0..n
                        BY <3>1, <5>1, <5>3, <6>1
                    <6>. QED BY <6>1, <6>2
                <5>7. m.hist = After(b[h])
                    BY <5>1, <5>3, <5>6
                <5>8. m.seq <= h
                    BY <2>1, <3>1, <5>1
                <5>. QED BY <5>7, <5>8
            <4>. QED BY <4>1, <4>2
        <3>5. At(c, b, h, 0, m.hist)
            <4>1. Whole(c[h]) \in Nat /\ b[h] \in Nat
                BY Before, ChainBounds
            <4>2. 0 \in 0..Whole(c[h]) /\ 0 = 2 * 0 /\ b[h] = b[h] + 0
                BY <4>1
            <4>. QED BY <4>2, <3>4 DEF At
        <3>. QED BY <1>3, <2>1, <2>2, <3>3, <3>4, <3>5 DEF Starts
    <2>9. CASE ~skip
        <3>1. m.seq # 0
            BY <2>3, <2>5, <2>6, <2>9
        <3>2. ViewRange(p) = [view[p] EXCEPT !.seq = m.seq, !.tail = m.seq, !.off = m.off]
            BY <2>7, <2>9
        <3>. HIDE DEF skip, seq
        <3>3. /\ ViewRange(p).seq = m.seq /\ ViewRange(p).tail = m.seq /\ ViewRange(p).off = m.off
              /\ ViewRange(p).got = <<>> /\ ViewRange(p).tries = view[p].tries
            BY <1>4, <1>5, <3>2 DEF ViewT
        <3>4. At(c, b, m.seq, m.off, m.hist)
            BY <2>2, <3>1 DEF Fits, NoMap
        <3>. QED BY <1>3, <2>2, <2>3, <3>3, <3>4 DEF Starts, At
    <2>. HIDE DEF skip
    <2>. QED BY <2>8, <2>9
<1>. QED BY <1>6, <1>7

(* Files that have been the log are told apart by their sequences. *)
LEMMA KnownBySeq ==
    ASSUME NEW c, NEW i, Known(c, i), NEW j, Known(c, j), file[i].seq = file[j].seq
    PROVE  i = j
BY DEF Known

(* p is still looking for files and has set up the range. *)
LEMMA SearchReader ==
    ASSUME NEW c, NEW b, Calm(c, b), NEW r, Reader(c, b, r), r.pc = "view", NEW s,
           s.pc = "view", s.op = r.op, s.locked = r.locked, ~s.bad, s.map = r.map, s.head \in s.files,
           \A i \in s.files : Known(c, i), s.view.got = <<>>,
           Starts(c, b, s.view, s.map), s.seen = r.seen, s.head = r.head \/ s.head = path
    PROVE  Reader(c, b, s)
<1>1. OpsOK(s) /\ ViewOK(s)
    BY DEF Reader, OpsOK, ViewOK
<1>2. Viewing(c, b, s) /\ Mapped(c, b, s)
    BY DEF Starts, Viewing, Mapped
<1>3. Seen(c, b, s)
    <2>1. CASE s.head = r.head
        BY <2>1 DEF Reader, Seen
    <2>2. CASE s.head = path
        BY <2>2, SeenAtPath
    <2>. QED BY <2>1, <2>2
<1>. QED BY <1>1, <1>2, <1>3 DEF Reader

(* The data stays in order when the list of files is refreshed. *)
LEMMA FindRefreshData ==
    ASSUME NEW c, NEW b, Calm(c, b), NEW p \in Procs, FindRefresh(p)
    PROVE  DInv(c, b)'
<1>. USE DEF FindRefresh, diskVars, ghostVars
<1>1. PICK w : w = ViewRange(p)
    OBVIOUS
<1>2. w.got = <<>> /\ Starts(c, b, w, map[p])
    BY <1>1, RangeData
<1>3. PICK l : l = IF Found(p) = <<>> THEN {path} ELSE files[p] \cup {path}
    OBVIOUS
<1>4. PICK y : y = [sync[p] EXCEPT ![path] = FirstSync(p, path)]
    OBVIOUS
<1>5. /\ view' = [view EXCEPT ![p] = w] /\ files' = [files EXCEPT ![p] = l]
      /\ sync' = [sync EXCEPT ![p] = y] /\ head' = [head EXCEPT ![p] = path]
      /\ bad' = [bad EXCEPT ![p] = FALSE]
      /\ UNCHANGED <<pc, op, new, locked, map, idx, seen>>
      /\ ~locked[p]
    BY <1>1, <1>3, <1>4
<1>6. Quiet /\ index' = index /\ path2' = path2 /\ pc[p] = "view"
    BY DEF Quiet, Finding
<1>. HIDE DEF FindRefresh
<1>7. Others(p)
    BY <1>5 DEF Calm, Safe, TInv, Types, MemTypes, OthersStay, Others
<1>8. view'[p] = w /\ files'[p] = l /\ head'[p] = path
    BY <1>5 DEF Calm, Safe, TInv, Types, MemTypes
<1>9. ~bad'[p] /\ ~locked'[p]
    BY <1>5 DEF Calm, Safe, TInv, Types, MemTypes
<1>10. PICK r : r = Local(p)
    OBVIOUS
<1>11. PICK s : s = Local(p)'
    OBVIOUS
<1>12. pc'[p] = "view" /\ op'[p] = op[p] /\ locked'[p] = locked[p] /\ map'[p] = map[p] /\ seen'[p] = seen[p]
    BY <1>5, <1>6
<1>13. /\ r.pc = "view" /\ s.pc = "view" /\ s.op = r.op /\ s.locked = r.locked /\ ~s.bad /\ ~s.locked
       /\ s.map = r.map /\ s.view = w /\ s.files = l /\ s.head = path /\ s.seen = r.seen /\ s.map = map[p]
       /\ r.files = files[p]
    BY <1>6, <1>8, <1>9, <1>10, <1>11, <1>12, LocalFields, LocalNext
<1>14. Reader(c, b, r) /\ Known(c, path)
    BY <1>10, Before
<1>15. path \in l /\ \A i \in l : Known(c, i)
    BY <1>3, <1>13, <1>14 DEF Reader
<1>16. Reader(c, b, s)
    BY <1>2, <1>13, <1>14, <1>15, SearchReader
<1>17. Owner(s)
    BY <1>13 DEF Owner, Owns
<1>. QED BY <1>6, <1>7, <1>11, <1>16, <1>17, Step

(* The log is found when the search begins at it. *)
LEMMA FoundLast ==
    ASSUME NEW c, NEW b, Calm(c, b), NEW p \in Procs, Finding(p), NEW list, list \subseteq 1..nfile,
           \A i \in list : Known(c, i), head[p] \in list, head[p] = path, ViewRange(p).tail = Last
    PROVE  FoundIn(p, list) # <<>> /\ FoundIn(p, list)[Len(FoundIn(p, list))] = head[p]
<1>1. PICK w : w = ViewRange(p)
    OBVIOUS
<1>2. w \in ViewT
    BY <1>1, RangeData
<1>3. Last \in Nat /\ c[Last] = path
    BY EndOfLog
<1>4. w.tail = Last
    BY <1>1
<1>5. PICK f : f = FoundIn(p, list)
    OBVIOUS
<1>6. list \subseteq Inodes
    BY Allocated DEF Calm, Safe, TInv, Types
<1>7. /\ f \in Seq(list) /\ Len(f) \in Nat
      /\ \A s \in 1..Len(f) : f[s] \in list /\ file[f[s]].seq = Last + s - 1
      /\ \A k \in 0..Cardinality(list) :
            (\A s \in 1..k : \E i \in list : file[i].seq = Last + s - 1) => k <= Len(f)
    <2>1. /\ f \in Seq(list)
          /\ \A s \in 1..Len(f) : f[s] \in list /\ file[f[s]].seq = w.tail + s - 1
          /\ \A k \in 0..Cardinality(list) :
                (\A s \in 1..k : \E i \in list : file[i].seq = w.tail + s - 1) => k <= Len(f)
        BY <1>1, <1>5, <1>6, FoundInList
    <2>2. Len(f) \in Nat
        BY <2>1
    <2>. QED BY <1>4, <2>1, <2>2
<1>8. 1 <= Len(f)
    <2>1. 1 \in 0..Cardinality(list)
        <3>1. IsFiniteSet(list) /\ Cardinality(list) \in Nat
            BY <1>6, ListFinite
        <3>2. Cardinality(list) # 0
            BY <3>1, FS_EmptySet
        <3>. QED BY <3>1, <3>2
    <2>2. \A s \in 1..1 : \E i \in list : file[i].seq = Last + s - 1
        <3>1. file[head[p]].seq = Last
            BY DEF Last
        <3>2. \A s \in 1..1 : Last + s - 1 = Last
            BY <1>3
        <3>. QED BY <3>1, <3>2
    <2>. QED BY <1>7, <2>1, <2>2
<1>9. file[f[Len(f)]].seq = Last + Len(f) - 1 /\ Known(c, f[Len(f)])
    <2>1. Len(f) \in 1..Len(f)
        BY <1>7, <1>8
    <2>. QED BY <1>7, <2>1
<1>10. file[f[Len(f)]].seq = Last
    BY <1>3, <1>7, <1>8, <1>9 DEF Known
<1>11. f[Len(f)] = head[p]
    BY <1>3, <1>9, <1>10 DEF Known
<1>. QED BY <1>5, <1>7, <1>8, <1>11

(* A log that the map is of is found. *)
LEMMA LostData ==
    ASSUME NEW c, NEW b, Calm(c, b), NEW p \in Procs, Finding(p), NEW list, list \subseteq 1..nfile,
           \A i \in list : Known(c, i), head[p] \in list, head[p] = path, map[p].seq = Last
    PROVE  FoundIn(p, list) # <<>> /\ FoundIn(p, list)[Len(FoundIn(p, list))] = head[p]
<1>1. PICK w : w = ViewRange(p)
    OBVIOUS
<1>2. w \in ViewT /\ Starts(c, b, w, map[p])
    BY <1>1, RangeData
<1>3. Last \in Nat /\ c[Last] = path
    BY EndOfLog
<1>4. w.tail = Last
    <2>1. w.seq \in 1..Last /\ w.tail \in 1..Last /\ Last <= w.seq /\ w.seq <= w.tail
        <3>1. w.seq \in 1..Last /\ w.tail \in 1..Last /\ Last <= w.seq
            BY <1>2 DEF Starts, At
        <3>2. w.tail = w.seq \/ w.tail > w.seq
            BY <1>2 DEF Starts
        <3>. QED BY <1>3, <3>1, <3>2
    <2>. QED BY <1>3, <2>1
<1>. QED BY <1>1, <1>4, FoundLast

(* The search is over, or goes on from a reset. *)
LEMMA NotFoundData ==
    ASSUME NEW c, NEW b, Calm(c, b), NEW p \in Procs, Finding(p), NEW list, list \subseteq 1..nfile,
           \A i \in list : Known(c, i), head[p] \in list, NotFound(p, list),
           UNCHANGED <<op, head, new, locked, bad, sync, map, idx, seen>>
    PROVE  Reader(c, b, Local(p)') /\ Owner(Local(p)')
<1>1. PICK r : r = Local(p)
    OBVIOUS
<1>2. PICK s : s = Local(p)'
    OBVIOUS
<1>3. /\ s.op = r.op /\ s.head = r.head /\ s.locked = r.locked /\ s.bad = r.bad /\ s.map = r.map
      /\ s.idx = r.idx /\ s.seen = r.seen /\ r.pc = "view" /\ r.head = head[p] /\ r.map = map[p]
      /\ r.view = view[p] /\ s.sync = r.sync
      /\ s.pc = pc'[p] /\ s.files = files'[p] /\ s.view = view'[p]
    BY <1>1, <1>2, LocalFields, LocalNext DEF Finding
<1>4. Reader(c, b, r) /\ Owner(r) /\ LocalT(r) /\ TInv
    BY <1>1, Before
<1>5. PICK w \in ViewT : /\ w = ViewRange(p) /\ w.tail # 0 /\ w.got = <<>> /\ w.tries = r.view.tries
                         /\ Starts(c, b, w, r.map)
    BY <1>3, RangeData
<1>6. w.seq \in 1..Last /\ w.tail \in 1..Last /\ w.seq <= w.tail /\ Last \in Nat
    <2>1. w.seq \in 1..Last /\ w.tail \in 1..Last /\ Last \in Nat /\ (w.tail = w.seq \/ w.tail > w.seq)
        BY <1>5, EndOfLog DEF Starts, At
    <2>. QED BY <2>1
<1>7. PICK f : f = FoundIn(p, list)
    OBVIOUS
<1>8. list \subseteq Inodes
    BY <1>4, Allocated DEF TInv, Types
<1>9. /\ f \in Seq(list) /\ Len(f) \in Nat
      /\ \A k \in 1..Len(f) : f[k] \in list /\ file[f[k]].seq = w.tail + k - 1
    <2>1. /\ f \in Seq(list)
          /\ \A k \in 1..Len(f) : f[k] \in list /\ file[f[k]].seq = w.tail + k - 1
        BY <1>5, <1>7, <1>8, FoundInList
    <2>. QED BY <2>1
<1>10. PICK n \in Nat : n = Len(f)
    BY <1>9
<1>11. Wanted(p) >= w.tail
    <2>1. files[p] \subseteq Inodes
        BY <1>4 DEF TInv, Types, MemTypes
    <2>2. Len(Found(p)) \in Nat
        BY <2>1, FoundInList DEF Found
    <2>. QED BY <1>5, <1>6, <2>2 DEF Wanted
<1>. DEFINE R == {file[i].seq : i \in {j \in list : /\ file[j].seq >= Wanted(p)
                                                    /\ file[j].prevSeq = 0}}
<1>12. \/ /\ f # <<>> /\ f[n] = head[p] /\ pc' = [pc EXCEPT ![p] = "mapf"]
          /\ view' = [view EXCEPT ![p] = [w EXCEPT !.todo = n]]
          /\ files' = [files EXCEPT ![p] = list]
       \/ /\ R # {} /\ pc' = pc
          /\ view' = [view EXCEPT ![p] = [w EXCEPT !.tail = Min(R)]]
          /\ files' = [files EXCEPT ![p] = list]
       \/ /\ ~(f # <<>> /\ f[n] = head[p])
          /\ pc' = [pc EXCEPT ![p] = "lost"] /\ view' = view
          /\ files' = [files EXCEPT ![p] = {head[p]}]
    BY <1>5, <1>7, <1>10 DEF NotFound, Goto
<1>13. CASE /\ f # <<>> /\ f[n] = head[p] /\ pc' = [pc EXCEPT ![p] = "mapf"]
            /\ view' = [view EXCEPT ![p] = [w EXCEPT !.todo = n]]
            /\ files' = [files EXCEPT ![p] = list]
    <2>1. PICK v : v = [w EXCEPT !.todo = n]
        OBVIOUS
    <2>2. v.seq = w.seq /\ v.off = w.off /\ v.tail = w.tail /\ v.todo = n /\ v.got = <<>> /\ v.tries = r.view.tries
        BY <1>5, <2>1 DEF ViewT
    <2>3. view' = [view EXCEPT ![p] = v]
        BY <1>13, <2>1
    <2>4. pc'[p] = "mapf" /\ view'[p] = v /\ files'[p] = list
        BY <1>4, <1>13, <2>3 DEF TInv, Types, MemTypes
    <2>5. s.pc = "mapf" /\ s.view = v /\ s.files = list
        BY <1>3, <2>4
    <2>6. PICK h \in Nat : h = file[s.head].seq /\ w.tail + n = h + 1 /\ h >= 1
        <3>1. n # 0
            BY <1>9, <1>10, <1>13
        <3>2. file[f[n]].seq = w.tail + n - 1
            BY <1>9, <1>10, <3>1
        <3>3. file[s.head].seq = w.tail + n - 1
            BY <1>3, <1>13, <3>2
        <3>. QED BY <1>6, <3>1, <3>3
    <2>7. Mapped(c, b, s)
        BY <2>2, <2>5, <2>6 DEF Mapped
    <2>8. Viewing(c, b, s)
        BY <1>3, <1>5, <2>2, <2>5 DEF Viewing, Starts
    <2>9. OpsOK(s) /\ ViewOK(s) /\ Seen(c, b, s)
        BY <1>3, <1>4, <2>2, <2>5 DEF Reader, OpsOK, ViewOK, Seen
    <2>10. Reader(c, b, s)
        BY <1>3, <1>4, <2>5, <2>7, <2>8, <2>9 DEF Reader
    <2>11. Owner(s)
        <3>1. MappedAll(s)
            BY <2>2, <2>5, <2>6 DEF MappedAll
        <3>2. Owns(s) => Reopened(s)
            BY <1>3, <1>4, <2>2, <2>5 DEF Reopened, Owner, Owns
        <3>. QED BY <2>5, <3>1, <3>2 DEF Owner, Ends, AtEnd, NewIs, Rotating
    <2>. QED BY <1>2, <2>10, <2>11
<1>14. CASE /\ R # {} /\ pc' = pc
            /\ view' = [view EXCEPT ![p] = [w EXCEPT !.tail = Min(R)]]
            /\ files' = [files EXCEPT ![p] = list]
    <2>1. R \subseteq Nat
        BY <1>4, <1>8, FileOf DEF TInv, Types
    <2>2. PICK t : t = Min(R) /\ t \in R
        <3>. HIDE DEF R
        <3>. QED BY <1>14, <2>1, MinNat
    <2>3. PICK i \in list : t = file[i].seq /\ t >= Wanted(p) /\ file[i].prevSeq = 0
        BY <2>2
    <2>4. view' = [view EXCEPT ![p] = [w EXCEPT !.tail = t]] /\ pc'[p] = "view" /\ files' = [files EXCEPT ![p] = list]
        BY <1>14, <2>2 DEF Finding
    <2>. HIDE DEF R
    <2>5. PICK v : v = [w EXCEPT !.tail = t]
        OBVIOUS
    <2>6. v.seq = w.seq /\ v.off = w.off /\ v.tail = t /\ v.got = <<>> /\ v.tries = r.view.tries
        BY <1>5, <2>5 DEF ViewT
    <2>7. view' = [view EXCEPT ![p] = v]
        BY <2>4, <2>5
    <2>8. view'[p] = v /\ files'[p] = list
        BY <1>4, <2>4, <2>7 DEF TInv, Types, MemTypes
    <2>9. s.pc = "view" /\ s.view = v /\ s.files = list
        BY <1>3, <2>4, <2>8
    <2>10. t \in 1..Last /\ c[t] = i
        BY <2>3 DEF Known
    <2>11. t = w.seq \/ t > w.seq
        <3>1. Wanted(p) \in Nat
            <4>1. files[p] \subseteq Inodes
                BY <1>4 DEF TInv, Types, MemTypes
            <4>2. Len(Found(p)) \in Nat
                BY <4>1, FoundInList DEF Found
            <4>. QED BY <1>5, <1>6, <4>2 DEF Wanted
        <3>. QED BY <1>6, <1>11, <2>3, <2>10, <3>1
    <2>12. Starts(c, b, v, s.map)
        BY <1>3, <1>5, <2>3, <2>6, <2>10, <2>11 DEF Starts
    <2>13. Reader(c, b, s)
        BY <1>3, <1>4, <2>6, <2>9, <2>12, SearchReader DEF Reader
    <2>14. Owner(s)
        <3>1. Owns(s) => Reopened(s)
            BY <1>3, <1>4, <2>6, <2>9 DEF Reopened, Owner, Owns
        <3>. QED BY <2>9, <3>1 DEF Owner, Ends, AtEnd, NewIs, MappedAll, Rotating
    <2>. QED BY <1>2, <2>13, <2>14
<1>15. CASE /\ ~(f # <<>> /\ f[n] = head[p])
            /\ pc' = [pc EXCEPT ![p] = "lost"] /\ view' = view
            /\ files' = [files EXCEPT ![p] = {head[p]}]
    <2>1. pc'[p] = "lost" /\ view'[p] = view[p] /\ files'[p] = {head[p]}
        BY <1>4, <1>15 DEF TInv, Types, MemTypes
    <2>. HIDE DEF R
    <2>2. s.pc = "lost" /\ s.view = r.view /\ s.files = {s.head}
        BY <1>3, <2>1
    <2>3. OpsOK(s) /\ ViewOK(s)
        BY <1>3, <1>4, <2>2 DEF Reader, OpsOK, ViewOK
    <2>4. Reader(c, b, s)
        BY <1>3, <1>4, <2>2, <2>3, Moves DEF Reader
    <2>5. Owner(s)
        <3>. SUFFICES ASSUME Owns(s) PROVE Owner(s)
            BY DEF Owner
        <3>1. Owns(r)
            BY <1>3, <2>2 DEF Owns
        <3>2. head[p] = path
            BY <1>1, <1>4, <3>1, OwnsLog DEF Calm, Safe
        <3>3. map[p].seq # Last
            BY <1>7, <1>10, <1>15, <3>2, LostData
        <3>4. Reopened(s)
            BY <1>3, <1>4, <2>2, <3>1, <3>3 DEF Reopened, Owner
        <3>. QED BY <2>2, <3>4 DEF Owner, Ends, AtEnd, NewIs, MappedAll, Rotating
    <2>. QED BY <1>2, <2>4, <2>5
<1>. HIDE DEF R
<1>. QED BY <1>12, <1>13, <1>14, <1>15

(* A search for files is a step of its process alone. *)
LEMMA SearchedOthers ==
    ASSUME NEW p \in Procs, NEW list, Searched(p, list), UNCHANGED <<op, head, new, locked, bad, sync, map, idx, seen>>
    PROVE  Others(p)
BY DEF Searched, Others, OthersStay

(* The data stays in order when the files are found, or not. *)
LEMMA FindEndData ==
    ASSUME NEW c, NEW b, Calm(c, b), NEW p \in Procs, FindEnd(p)
    PROVE  DInv(c, b)'
<1>1. /\ Finding(p) /\ NotFound(p, files[p])
      /\ UNCHANGED <<op, head, new, locked, bad, sync, map, idx, seen>>
      /\ Quiet /\ index' = index /\ path2' = path2
    BY DEF FindEnd, diskVars, ghostVars, Quiet
<1>2. PICK r : r = Local(p)
    OBVIOUS
<1>3. /\ Reader(c, b, r) /\ r.files = files[p] /\ r.head = head[p] /\ r.pc = "view" /\ TInv
    BY <1>1, <1>2, Before, LocalFields DEF Finding
<1>4. head[p] \in files[p] /\ (\A i \in files[p] : Known(c, i)) /\ files[p] \subseteq 1..nfile
    BY <1>3 DEF Reader, Known
<1>5. Others(p)
    BY <1>1, <1>3, <1>4, NotFoundOK, SearchedOthers
<1>6. PICK s : s = Local(p)'
    OBVIOUS
<1>7. Reader(c, b, s) /\ Owner(s)
    BY <1>1, <1>4, <1>6, NotFoundData
<1>. QED BY <1>1, <1>5, <1>6, <1>7, Step

(* The data stays in order when .log.2 is looked for. *)
LEMMA FindOldData ==
    ASSUME NEW c, NEW b, Calm(c, b), NEW p \in Procs, FindOld(p)
    PROVE  DInv(c, b)'
<1>. DEFINE reset == \E i \in files[p] : file[i].seq > Wanted(p) /\ file[i].prevSeq = 0
            opens == ~reset /\ path2 # 0
            dupe == opens /\ path2 \in files[p]
            broken == opens /\ ~dupe /\ ~Usable(p, path2)
            list == files[p] \cup (IF opens /\ ~dupe /\ ~broken THEN {path2} ELSE {})
<1>1. /\ Finding(p)
      /\ path2' = IF broken THEN 0 ELSE path2
      /\ UNCHANGED <<op, head, new, locked, bad, sync, map, idx, seen>>
      /\ Quiet /\ index' = index
    BY DEF FindOld, ghostVars, Quiet
<1>2. \/ /\ files' = [files EXCEPT ![p] = list]
         /\ view' = [view EXCEPT ![p] = ViewRange(p)]
         /\ UNCHANGED pc
      \/ NotFound(p, list)
    BY DEF FindOld
<1>3. path2' \in {0, path, path2}
    BY <1>1
<1>4. PICK r : r = Local(p)
    OBVIOUS
<1>5. /\ Reader(c, b, r) /\ r.files = files[p] /\ r.head = head[p] /\ r.pc = "view" /\ TInv
      /\ r.view = view[p] /\ r.map = map[p] /\ Owner(r)
    BY <1>1, <1>4, Before, LocalFields DEF Finding
<1>6. path2 # 0 => Known(c, path2)
    BY DEF Calm, DInv
<1>7. head[p] \in list /\ (\A i \in list : Known(c, i))
    BY <1>5, <1>6 DEF Reader
<1>. HIDE DEF list, reset, opens, dupe, broken
<1>8. list \subseteq 1..nfile
    BY <1>7 DEF Known
<1>9. PICK s : s = Local(p)'
    OBVIOUS
<1>10. CASE NotFound(p, list)
    <2>1. Others(p)
        BY <1>1, <1>5, <1>7, <1>8, <1>10, NotFoundOK, SearchedOthers
    <2>2. Reader(c, b, s) /\ Owner(s)
        BY <1>1, <1>7, <1>8, <1>9, <1>10, NotFoundData
    <2>. QED BY <1>1, <1>3, <1>9, <2>1, <2>2, Step
<1>11. CASE /\ files' = [files EXCEPT ![p] = list]
            /\ view' = [view EXCEPT ![p] = ViewRange(p)]
            /\ UNCHANGED pc
    <2>1. PICK w : w = ViewRange(p)
        OBVIOUS
    <2>2. w.got = <<>> /\ w.tries = view[p].tries /\ Starts(c, b, w, map[p])
        BY <1>1, <2>1, RangeData
    <2>3. view' = [view EXCEPT ![p] = w]
        BY <1>11, <2>1
    <2>4. Others(p)
        BY <1>1, <1>11, <2>3 DEF Calm, Safe, TInv, Types, MemTypes, OthersStay, Others
    <2>5. view'[p] = w /\ files'[p] = list
        BY <1>11, <2>3 DEF Calm, Safe, TInv, Types, MemTypes
    <2>6. /\ s.pc = "view" /\ s.op = r.op /\ s.locked = r.locked /\ s.bad = r.bad /\ s.map = r.map
          /\ s.view = w /\ s.files = list /\ s.head = r.head /\ s.seen = r.seen /\ s.idx = r.idx
        BY <1>1, <1>4, <1>5, <1>9, <1>11, <2>5, LocalFields, LocalNext
    <2>7. Reader(c, b, s)
        BY <1>5, <1>7, <2>2, <2>6, SearchReader DEF Reader
    <2>8. Owner(s)
        <3>1. Owns(s) => Reopened(s)
            BY <1>5, <2>2, <2>6 DEF Reopened, Owner, Owns
        <3>. QED BY <2>6, <3>1 DEF Owner, Ends, AtEnd, NewIs, MappedAll, Rotating
    <2>. QED BY <1>1, <1>3, <1>9, <2>4, <2>7, <2>8, Step
<1>. QED BY <1>2, <1>10, <1>11

(* A part and the part after it make one. *)
LEMMA PartsJoin ==
    ASSUME history \in Seq(Entries), NEW z \in 0..Len(history), NEW m \in 0..z, NEW a \in 0..m
    PROVE  Part(a, m) \o Part(m, z) = Part(a, z)
<1>1. a + 1 \in 1..(Len(history) + 1) /\ m \in (a + 1 - 1)..Len(history) /\ z \in m..Len(history)
    OBVIOUS
<1>. QED BY <1>1, ConcatAdjacentSubSeq DEF Part

(* A part that consists of transactions has no reset in it. *)
LEMMA PartOfTxns ==
    ASSUME history \in Seq(Entries), NEW z \in 0..Len(history), NEW a \in 0..z, Part(a, z) \in Seq(Txns)
    PROVE  \A n \in (a + 1)..z : history[n] # Reset
<1>. SUFFICES ASSUME NEW n \in (a + 1)..z PROVE history[n] # Reset
    OBVIOUS
<1>1. PICK t : t = Part(a, z)
    OBVIOUS
<1>2. a + 1 \in Int /\ z \in Int /\ \A i \in (a + 1)..z : history[i] \in Entries
    OBVIOUS
<1>3. /\ Len(SubSeq(history, a + 1, z)) = IF a + 1 <= z THEN z - (a + 1) + 1 ELSE 0
      /\ \A i \in 1..(z - (a + 1) + 1) : SubSeq(history, a + 1, z)[i] = history[a + 1 + i - 1]
    BY <1>2, SubSeqProperties
<1>4. PICK i : i = n - a
    OBVIOUS
<1>5. i \in 1..(z - (a + 1) + 1) /\ a + 1 + i - 1 = n /\ z - (a + 1) + 1 = z - a /\ a + 1 <= z
    BY <1>4
<1>6. t[i] = history[n] /\ Len(t) = z - a /\ i \in 1..(z - a)
    BY <1>1, <1>3, <1>5 DEF Part
<1>7. t[i] \in Txns
    BY <1>1, <1>6
<1>8. Reset \notin Txns
    BY DEF Reset, Txns
<1>. QED BY <1>6, <1>7, <1>8

(* The transactions of file i, of sequence j, from X on. *)
LEMMA FileTxns ==
    ASSUME NEW c, NEW b, Calm(c, b), NEW j \in 1..Last, NEW i, i = c[j], NEW x \in 0..Whole(i)
    PROVE  /\ TxnsOf(i, 2 * x, Complete(i)) = Part(b[j] + x, b[j] + Whole(i))
           /\ \A n \in (b[j] + x + 1)..(b[j] + Whole(i)) : history[n] # Reset
<1>1. TInv /\ i \in Inodes /\ b[j] \in Nat /\ Whole(i) \in Nat
    BY Before, ChainBounds DEF Calm, Safe, DInv
<1>2. Complete(i) = 2 * Whole(i) /\ 2 * Whole(i) <= Size(i)
    BY <1>1, WholeOK
<1>3. \A k \in 1..Whole(i) : b[j] + k <= Len(history) /\ file[i].data[2 * k][1] = history[b[j] + k]
    BY DEF Calm, DInv, Chain, Recorded
<1>4. PICK e \in Nat : e = Whole(i)
    BY <1>1
<1>5. PICK a \in Nat : a = b[j]
    BY <1>1
<1>51. x \in 0..e /\ 2 * e <= Size(i) /\ \A k \in 1..e : a + k <= Len(history) /\ file[i].data[2 * k][1] = history[a + k]
    BY <1>2, <1>3, <1>4, <1>5
<1>6. /\ TxnsOf(i, 2 * x, 2 * e) = SubSeq(history, a + x + 1, a + e)
      /\ \A n \in (a + x + 1)..(a + e) : history[n] # Reset
    BY <1>1, <1>51, TxnsAre
<1>. QED BY <1>2, <1>4, <1>5, <1>6 DEF Part

(* The file that is mapped next, of sequence j, and what comes of it: the  *)
(* range from offset 2x of that file to offset 2y of the head.             *)
Gathers(c, b, r, j, x, y, i, off, got) ==
    LET h == file[r.head].seq IN
    /\ j \in 1..h /\ h \in 1..Last /\ c[j] = i /\ c[h] = r.head
    /\ j = r.view.tail + r.view.todo - 1
    /\ x \in 0..Whole(i) /\ y \in 0..Whole(r.head)
    /\ (IF j = r.view.seq THEN r.view.off ELSE 0) = 2 * x
    /\ Complete(i) = 2 * Whole(i)
    /\ off = 2 * y
    /\ i = r.head => j = h /\ y = Whole(r.head)
    /\ i # r.head => j < h /\ r.sync[r.head] = 2 * y /\ \A k \in (j + 1)..h : file[c[k]].prevSeq # 0
    /\ b[j] + x <= b[h] + y
    /\ got = Part(b[j] + x, b[h] + y)
    /\ After(b[h] + y) = After(b[j] + x) \o got
    /\ \E s \in 0..(b[h] + y) : r.seen = After(s)

(* Mapping the next file keeps to what the files hold. *)
LEMMA Gathering ==
    ASSUME NEW c, NEW b, Calm(c, b), NEW p \in Procs, pc[p] = "mapf", NEW i, i = Found(p)[view[p].todo],
           NEW from, from = (IF file[i].seq = view[p].seq THEN view[p].off ELSE 0)
    PROVE  from <= Complete(i) /\ i \in Inodes /\
           \E j, x, y \in Nat :
              /\ file[i].seq = j /\ from = 2 * x
              /\ Gathers(c, b, Local(p), j, x, y, i, IF i = head[p] THEN Complete(i) ELSE sync[p][head[p]],
                         TxnsOf(i, from, Complete(i)) \o view[p].got)
<1>1. PICK r : r = Local(p)
    OBVIOUS
<1>2. /\ r.pc = "mapf" /\ r.head = head[p] /\ r.view = view[p] /\ r.sync = sync[p] /\ r.files = files[p]
    BY <1>1, LocalFields
<1>3. Reader(c, b, r) /\ LocalT(r) /\ TInv /\ Chain(c, b) /\ c \in Numbering /\ b \in Numbering
    BY <1>1, Before
<1>4. i \in files[p] /\ i \in Inodes /\ view[p].todo \in Nat /\ view[p].todo # 0
      /\ file[i].seq = view[p].tail + view[p].todo - 1 /\ view[p].tail # 0
    BY <1>3, MappedFile DEF TInv, ProcOK, FindingOK
<1>5. PICK v \in ViewT : v = view[p] /\ v = r.view
    BY <1>2, <1>3 DEF TInv, Types, MemTypes
<1>6. v.tail \in Nat /\ v.todo \in Nat /\ v.seq \in Nat /\ v.off \in Nat /\ v.got \in Seq(Txns)
    BY <1>5, ViewOf
<1>7. PICK h \in 1..Last : h = file[r.head].seq /\ c[h] = r.head /\ r.head \in Inodes /\ h \in Nat
                           /\ b[h] \in Nat /\ Whole(r.head) \in Nat /\ b[h] + Whole(r.head) <= Len(history)
                           /\ Last \in Nat /\ Len(history) \in Nat
    <2>1. Known(c, r.head)
        BY <1>2, <1>3 DEF Reader
    <2>. QED BY <1>3, <2>1, HeadKnown
<1>61. v.tail >= 1 /\ v.todo >= 1
    BY <1>4, <1>5, <1>6
<1>62. v.tail + v.todo - 1 \in Nat /\ v.tail + v.todo - 1 >= 1 /\ v.tail + v.todo - 1 >= v.tail
    BY <1>6, <1>61
<1>8. PICK j \in Nat : j = v.tail + v.todo - 1 /\ j = file[i].seq /\ j >= 1 /\ j >= v.tail
    BY <1>4, <1>5, <1>62
<1>71. PICK l \in Nat, u \in Nat : l = b[h] /\ u = Whole(r.head) /\ l + u <= Len(history)
    BY <1>7
<1>9. /\ v.tail + v.todo \in 1..(h + 1)
      /\ v.tail + v.todo = h + 1 => v.got = <<>>
      /\ v.tail + v.todo <= h => Rest(c, b, r, v.tail + v.todo, h)
    BY <1>2, <1>3, <1>5, <1>7 DEF Reader, Mapped
<1>10. j \in 1..h /\ j \in 1..Last /\ v.tail + v.todo = j + 1
    <2>1. v.tail + v.todo = j + 1
        BY <1>6, <1>8
    <2>2. j + 1 <= h + 1
        BY <1>7, <1>9, <2>1
    <2>. QED BY <1>7, <1>8, <2>1, <2>2
<1>11. c[j] = i
    BY <1>2, <1>3, <1>4, <1>8 DEF Reader, Known
<1>12. b[j] \in Nat /\ Whole(i) \in Nat /\ b[j] + Whole(i) <= Len(history) /\ Complete(i) = 2 * Whole(i)
    BY <1>3, <1>4, <1>10, <1>11, ChainBounds, WholeOK
<1>13. At(c, b, v.seq, v.off, r.map.hist)
    BY <1>2, <1>3, <1>4, <1>5 DEF Reader, Viewing
<1>14. PICK x \in 0..Whole(i) : from = 2 * x
    <2>1. CASE j = v.seq
        <3>1. PICK x \in 0..Whole(c[j]) : v.off = 2 * x
            BY <1>13, <2>1 DEF At
        <3>. QED BY <1>5, <1>8, <1>11, <2>1, <3>1
    <2>2. CASE j # v.seq
        <3>1. 0 \in 0..Whole(i) /\ 0 = 2 * 0
            BY <1>12
        <3>. QED BY <1>5, <1>8, <2>2, <3>1
    <2>. QED BY <2>1, <2>2
<1>15. x \in Nat /\ from <= Complete(i)
    BY <1>12, <1>14
<1>16. history \in Seq(Entries)
    BY EndOfLog
<1>17. /\ TxnsOf(i, from, Complete(i)) = Part(b[j] + x, b[j] + Whole(i))
       /\ \A n \in (b[j] + x + 1)..(b[j] + Whole(i)) : history[n] # Reset
    BY <1>10, <1>11, <1>14, FileTxns
<1>. DEFINE got == TxnsOf(i, from, Complete(i)) \o view[p].got
            off == IF i = head[p] THEN Complete(i) ELSE sync[p][head[p]]
<1>18. ASSUME NEW y \in 0..Whole(r.head), off = 2 * y,
              i = r.head => j = h /\ y = Whole(r.head),
              i # r.head => j < h /\ r.sync[r.head] = 2 * y /\ \A k \in (j + 1)..h : file[c[k]].prevSeq # 0,
              b[j] + x <= b[h] + y, got = Part(b[j] + x, b[h] + y),
              \A n \in (b[j] + x + 1)..(b[h] + y) : history[n] # Reset,
              NEW s \in 0..(b[h] + y), r.seen = After(s)
       PROVE  \E jj, xx, yy \in Nat : file[i].seq = jj /\ from = 2 * xx /\ Gathers(c, b, r, jj, xx, yy, i, off, got)
    <2>1. After(b[h] + y) = After(b[j] + x) \o got
        <3>1. PICK a \in Nat : a = b[j] + x
            BY <1>12, <1>15
        <3>2. PICK z \in Nat : z = b[h] + y /\ z <= Len(history)
            <4>1. y \in 0..u
                BY <1>18, <1>71
            <4>2. l + y \in Nat /\ l + y <= Len(history)
                BY <1>7, <1>71, <4>1
            <4>. QED BY <1>71, <4>2
        <3>3. a \in 0..z /\ z \in 0..Len(history)
            <4>1. a <= z
                BY <1>18, <3>1, <3>2
            <4>. QED BY <1>7, <3>1, <3>2, <4>1
        <3>4. \A n \in (a + 1)..z : history[n] # Reset
            BY <1>18, <3>1, <3>2
        <3>5. After(z) = After(a) \o Part(a, z)
            BY <1>16, <3>3, <3>4, UptoGoesOn DEF After, Part
        <3>. HIDE DEF got, off
        <3>. QED BY <1>18, <3>1, <3>2, <3>5
    <2>. HIDE DEF got, off
    <2>2. (IF j = r.view.seq THEN r.view.off ELSE 0) = 2 * x /\ j = r.view.tail + r.view.todo - 1
        BY <1>5, <1>8, <1>14
    <2>3. Gathers(c, b, r, j, x, y, i, off, got)
        BY <1>7, <1>10, <1>11, <1>12, <1>14, <1>18, <2>1, <2>2 DEF Gathers
    <2>4. y \in Nat
        BY <1>7
    <2>. QED BY <1>8, <1>14, <1>15, <2>3, <2>4
<1>19. CASE j = h
    <2>1. i = r.head /\ v.got = <<>>
        BY <1>7, <1>9, <1>10, <1>11, <1>19
    <2>2. PICK s \in 0..(b[h] + Whole(r.head)) : r.seen = After(s)
        BY <1>2, <1>3, <1>7 DEF Reader, Seen
    <2>3. PICK y \in Nat : y = Whole(r.head)
        BY <1>7
    <2>4. off = 2 * y
        BY <1>2, <1>12, <2>1, <2>3
    <2>5. got = Part(b[j] + x, b[h] + y)
        <3>1. Part(b[j] + x, b[j] + Whole(i)) \in Seq(Entries)
            <4>1. \A n \in (b[j] + x + 1)..(b[j] + Whole(i)) : history[n] \in Entries
                BY <1>7, <1>12, <1>15, <1>16
            <4>2. b[j] + x + 1 \in Int /\ b[j] + Whole(i) \in Int
                BY <1>12, <1>15
            <4>. QED BY <4>1, <4>2, SubSeqProperties DEF Part
        <3>2. got = Part(b[j] + x, b[j] + Whole(i)) \o <<>>
            BY <1>5, <1>17, <2>1
        <3>3. got = Part(b[j] + x, b[j] + Whole(i))
            BY <3>1, <3>2, ConcatEmptySeq
        <3>. HIDE DEF got
        <3>. QED BY <3>3, <1>19, <2>1, <2>3
    <2>. HIDE DEF got, off
    <2>6. b[j] + x <= b[h] + y
        BY <1>7, <1>14, <1>19, <2>1, <2>3
    <2>7. \A n \in (b[j] + x + 1)..(b[h] + y) : history[n] # Reset
        BY <1>17, <1>19, <2>1, <2>3
    <2>8. y \in 0..Whole(r.head) /\ s \in 0..(b[h] + y)
        BY <2>2, <2>3
    <2>9. \E jj, xx, yy \in Nat : file[i].seq = jj /\ from = 2 * xx /\ Gathers(c, b, r, jj, xx, yy, i, off, got)
        BY <1>18, <1>19, <2>1, <2>2, <2>3, <2>4, <2>5, <2>6, <2>7, <2>8
    <2>. QED BY <1>1, <1>4, <1>15, <2>9 DEF got, off
<1>20. CASE j < h
    <2>1. Rest(c, b, r, j + 1, h) /\ j + 1 \in 1..h /\ j + 1 \in 1..Last
        BY <1>7, <1>8, <1>9, <1>10, <1>20
    <2>2. /\ \A k \in (j + 1)..h : file[c[k]].prevSeq # 0
          /\ \E y \in 0..Whole(r.head) :
                /\ r.sync[r.head] = 2 * y
                /\ v.got = Part(b[j + 1], b[h] + y)
                /\ \E s \in 0..(b[h] + y) : r.seen = After(s)
        BY <1>5, <2>1 DEF Rest
    <2>3. PICK y \in 0..Whole(r.head) :
                /\ r.sync[r.head] = 2 * y
                /\ v.got = Part(b[j + 1], b[h] + y)
                /\ \E s \in 0..(b[h] + y) : r.seen = After(s)
        BY <2>2
    <2>4. PICK s \in 0..(b[h] + y) : r.seen = After(s)
        BY <2>3
    <2>5. b[j + 1] = b[j] + Whole(i)
        <3>1. file[c[j + 1]].prevSeq # 0
            BY <2>1, <2>2
        <3>2. b[j + 1] = b[j + 1 - 1] + Whole(c[j + 1 - 1]) /\ j + 1 - 1 = j
            BY <1>3, <1>8, <2>1, <3>1 DEF Chain, Linked
        <3>. QED BY <1>11, <3>2
    <2>6. i # r.head
        <3>1. file[i].seq = j /\ file[r.head].seq = h
            BY <1>7, <1>8
        <3>. QED BY <1>7, <1>8, <1>20, <3>1
    <2>7. b[j + 1] <= b[h] + y /\ y \in Nat
        <3>1. CASE j + 1 = h
            BY <1>7, <2>3, <3>1
        <3>2. CASE j + 1 < h
            <4>1. b[j + 1] + Whole(c[j + 1]) <= b[h]
                BY <1>3, <2>1, <3>2 DEF Chain, Ordered
            <4>2. b[j + 1] \in Nat /\ Whole(c[j + 1]) \in Nat
                BY <1>3, <2>1, ChainBounds
            <4>3. PICK m \in Nat, n \in Nat : m = b[j + 1] /\ n = Whole(c[j + 1])
                BY <4>2
            <4>4. m + n <= l /\ y \in 0..u
                BY <1>71, <2>3, <4>1, <4>3
            <4>5. m <= l + y /\ y \in Nat
                BY <4>4
            <4>. QED BY <1>71, <4>3, <4>5
        <3>. QED BY <1>7, <1>8, <1>20, <3>1, <3>2
    <2>8. PICK a \in Nat : a = b[j] + x
        BY <1>12, <1>15
    <2>9. PICK m \in Nat : m = b[j] + Whole(i)
        BY <1>12
    <2>10. PICK z \in Nat : z = b[h] + y /\ z <= Len(history)
        <3>1. y \in 0..u
            BY <2>3, <1>71
        <3>2. l + y \in Nat /\ l + y <= Len(history)
            BY <1>7, <1>71, <3>1
        <3>. QED BY <1>71, <3>2
    <2>11. a \in 0..m /\ m \in 0..z /\ z \in 0..Len(history) /\ b[j + 1] = m
        <3>1. b[j + 1] = m /\ m <= z
            BY <2>5, <2>7, <2>9, <2>10
        <3>2. PICK k \in Nat, n \in Nat : k = b[j] /\ n = Whole(i)
            BY <1>12
        <3>3. a = k + x /\ m = k + n /\ x \in 0..n
            BY <1>14, <2>8, <2>9, <3>2
        <3>4. a <= m
            BY <3>3
        <3>. QED BY <1>7, <2>8, <2>9, <2>10, <3>1, <3>4
    <2>12. TxnsOf(i, from, Complete(i)) = Part(a, m) /\ v.got = Part(m, z)
        BY <1>17, <2>3, <2>8, <2>9, <2>10, <2>11
    <2>13. got = Part(a, z)
        BY <1>5, <1>16, <2>11, <2>12, PartsJoin
    <2>14. off = 2 * y
        BY <1>2, <2>3, <2>6
    <2>. HIDE DEF got, off
    <2>15. \A n \in (m + 1)..z : history[n] # Reset
        BY <1>6, <1>16, <2>11, <2>12, PartOfTxns
    <2>16. \A n \in (a + 1)..z : history[n] # Reset
        <3>1. \A n \in (a + 1)..m : history[n] # Reset
            BY <1>17, <2>8, <2>9
        <3>. QED BY <2>15, <3>1
    <2>17. b[j] + x <= b[h] + y /\ got = Part(b[j] + x, b[h] + y)
        BY <2>8, <2>10, <2>11, <2>13
    <2>18. \A n \in (b[j] + x + 1)..(b[h] + y) : history[n] # Reset
        BY <2>8, <2>10, <2>16
    <2>19. \E jj, xx, yy \in Nat : file[i].seq = jj /\ from = 2 * xx /\ Gathers(c, b, r, jj, xx, yy, i, off, got)
        BY <1>18, <1>20, <2>2, <2>3, <2>4, <2>6, <2>14, <2>17, <2>18
    <2>. QED BY <1>1, <1>4, <1>15, <2>19 DEF got, off
<1>. HIDE DEF got, off
<1>. QED BY <1>7, <1>8, <1>10, <1>19, <1>20

(* Under the lock everything there is gets mapped. *)
LEMMA GathersAll ==
    ASSUME NEW c, NEW b, Calm(c, b), NEW p \in Procs, pc[p] = "mapf", locked[p],
           NEW j, NEW x, NEW y \in Nat, NEW i, NEW off, NEW got, Gathers(c, b, Local(p), j, x, y, i, off, got),
           i = Found(p)[view[p].todo], ~MapFails(p, i)
    PROVE  /\ head[p] = path /\ file[head[p]].seq = Last
           /\ off = Size(path) /\ After(b[Last] + y) = Effective(history)
<1>1. PICK r : r = Local(p)
    OBVIOUS
<1>2. r.pc = "mapf" /\ r.locked /\ r.head = head[p] /\ r.view = view[p]
    BY <1>1, LocalFields
<1>3. Owns(r) /\ Owner(r) /\ TInv /\ LInv /\ Reader(c, b, r)
    BY <1>1, <1>2, Before DEF Owns
<1>4. head[p] = path
    BY <1>1, <1>3, OwnsLog
<1>5. path \in Inodes /\ Whole(path) \in Nat /\ Len(history) = b[Last] + Whole(path)
      /\ After(Len(history)) = Effective(history) /\ Last \in Nat
    BY EndOfLog
<1>6. off = 2 * y /\ y \in 0..Whole(path)
    BY <1>1, <1>2, <1>4 DEF Gathers
<1>7. off = Size(path)
    <2>1. CASE i = path
        <3>1. Complete(i) = Size(i)
            BY <1>4, <2>1 DEF MapFails
        <3>2. Complete(i) = 2 * Whole(i) /\ y = Whole(path)
            BY <1>1, <1>2, <1>4, <2>1 DEF Gathers
        <3>. QED BY <1>6, <2>1, <3>1, <3>2
    <2>2. CASE i # path
        <3>1. r.sync[r.head] = off /\ j < file[r.head].seq /\ j = r.view.tail + r.view.todo - 1
              /\ file[r.head].seq \in 1..Last /\ j \in 1..file[r.head].seq
            BY <1>1, <1>2, <1>4, <2>2 DEF Gathers
        <3>2. view[p] \in ViewT
            BY <1>3 DEF TInv, Types, MemTypes
        <3>3. r.view.tail \in Nat /\ r.view.todo \in Nat
            BY <1>2, <3>2, ViewOf
        <3>4. PICK h \in Nat : h = file[r.head].seq
            BY <1>5, <3>1
        <3>5. r.view.tail + r.view.todo <= h
            BY <3>1, <3>3, <3>4
        <3>6. r.sync[r.head] = Size(r.head)
            BY <1>2, <1>3, <3>4, <3>5 DEF Owner, MappedAll
        <3>. QED BY <1>2, <1>4, <3>1, <3>6
    <2>. QED BY <2>1, <2>2
<1>8. y = Whole(path)
    BY <1>3, <1>5, <1>6, <1>7, WholeOK
<1>. QED BY <1>4, <1>5, <1>7, <1>8 DEF Last

(* The contents of the map once the range has been applied. *)
LEMMA GathersContents ==
    ASSUME NEW c, NEW b, Calm(c, b), NEW p \in Procs, pc[p] = "mapf",
           NEW j \in Nat, NEW x \in Nat, NEW y \in Nat, NEW i, NEW off, NEW got,
           Gathers(c, b, Local(p), j, x, y, i, off, got),
           NEW resets, resets = (file[i].prevSeq = 0 /\ (view[p].todo > 1 \/ x = 0)),
           resets \/ view[p].todo = 1
    PROVE  (IF resets THEN got ELSE map[p].hist \o got) = After(b[file[head[p]].seq] + y)
<1>1. PICK r : r = Local(p)
    OBVIOUS
<1>2. r.pc = "mapf" /\ r.head = head[p] /\ r.view = view[p] /\ r.map = map[p]
    BY <1>1, LocalFields
<1>3. Reader(c, b, r) /\ TInv
    BY <1>1, Before
<1>4. view[p] \in ViewT /\ view[p].tail # 0
    BY <1>3 DEF TInv, ProcOK, FindingOK, Types, MemTypes
<1>5. PICK v \in ViewT : v = view[p] /\ v.tail # 0
    BY <1>4
<1>6. v.tail \in Nat /\ v.todo \in Nat /\ v.seq \in Nat
    BY <1>5, ViewOf
<1>7. PICK h : h = file[head[p]].seq
    OBVIOUS
<1>8. /\ After(b[h] + y) = After(b[j] + x) \o got
      /\ j = v.tail + v.todo - 1 /\ (IF j = v.seq THEN v.off ELSE 0) = 2 * x
      /\ c[j] = i /\ j \in 1..h /\ h \in 1..Last /\ got = Part(b[j] + x, b[h] + y)
    BY <1>1, <1>2, <1>5, <1>7 DEF Gathers
<1>9. /\ At(c, b, v.seq, v.off, map[p].hist)
      /\ v.tail = v.seq \/ (v.tail > v.seq /\ file[c[v.tail]].prevSeq = 0)
    BY <1>2, <1>3, <1>5 DEF Reader, Viewing
<1>10. j \in 1..Last /\ b[j] \in Nat
    <2>1. Last \in Nat
        BY EndOfLog
    <2>2. j \in 1..Last
        BY <1>8, <2>1
    <2>. QED BY <2>2, Before, ChainBounds
<1>11. CASE resets
    <2>1. x = 0
        <3>1. CASE v.todo > 1
            <4>1. j # v.seq
                BY <1>6, <1>8, <1>9, <3>1
            <4>2. 2 * x = 0
                BY <1>8, <4>1
            <4>. QED BY <4>2
        <3>. QED BY <1>5, <1>11, <3>1
    <2>2. After(b[j]) = <<>>
        BY <1>8, <1>10, <1>11, Before DEF Chain, Restarts
    <2>3. After(b[h] + y) = <<>> \o got
        <3>1. b[j] + x = b[j]
            BY <1>10, <2>1
        <3>. QED BY <1>8, <2>2, <3>1
    <2>4. got \in Seq(Entries)
        <3>1. PICK a : a = b[j] + x
            OBVIOUS
        <3>2. PICK z : z = b[h] + y
            OBVIOUS
        <3>3. a \in Int /\ z \in Int /\ z <= Len(history) /\ a >= 0 /\ Len(history) \in Nat
            <4>1. b[h] \in Nat /\ Whole(c[h]) \in Nat /\ b[h] + Whole(c[h]) <= Len(history) /\ Len(history) \in Nat
                BY <1>8, Before, ChainBounds
            <4>2. y \in 0..Whole(c[h])
                BY <1>1, <1>2, <1>7 DEF Gathers
            <4>. QED BY <1>10, <3>1, <3>2, <4>1, <4>2
        <3>4. \A n \in (a + 1)..z : history[n] \in Entries
            BY <3>3, EndOfLog
        <3>. QED BY <1>8, <3>1, <3>2, <3>3, <3>4, SubSeqProperties DEF Part
    <2>. QED BY <1>7, <1>11, <2>3, <2>4, ConcatEmptySeq
<1>12. CASE ~resets
    <2>1. v.todo = 1 /\ j = v.tail
        BY <1>5, <1>6, <1>8, <1>12
    <2>2. v.tail = v.seq
        <3>1. ASSUME v.tail > v.seq, file[c[v.tail]].prevSeq = 0 PROVE FALSE
            <4>1. j # v.seq /\ file[i].prevSeq = 0
                BY <1>6, <1>8, <2>1, <3>1
            <4>2. 2 * x = 0
                BY <1>8, <4>1
            <4>3. x = 0
                BY <4>2
            <4>. QED BY <1>12, <4>1, <4>3
        <3>. QED BY <1>9, <3>1
    <2>3. PICK u \in 0..Whole(c[j]) : v.off = 2 * u /\ map[p].hist = After(b[j] + u)
        BY <1>9, <2>1, <2>2 DEF At
    <2>4. u = x
        <3>1. Whole(c[j]) \in Nat
            BY <1>10, Before, ChainBounds
        <3>2. 2 * u = 2 * x /\ u \in Nat
            BY <1>8, <2>1, <2>2, <2>3, <3>1
        <3>. QED BY <3>2
    <2>. QED BY <1>7, <1>8, <1>12, <2>3, <2>4
<1>. QED BY <1>11, <1>12

(* mail_index_sync_map() ends. *)
LEMMA MapDoneData ==
    ASSUME NEW c, NEW b, Calm(c, b), NEW p \in Procs, pc[p] = "mapf", Quiet, index' = index, path2' = path2,
           UNCHANGED <<head, new, locked, bad, idx>>,
           NEW y \in 0..Whole(head[p]), NEW off, off = 2 * y, NEW contents,
           MapDone(p, off, contents), contents = After(b[file[head[p]].seq] + y),
           locked[p] => /\ head[p] = path /\ file[head[p]].seq = Last /\ off = Size(path)
                        /\ contents = Effective(history)
    PROVE  DInv(c, b)'
<1>1. PICK t : t = [seq |-> file[head[p]].seq, off |-> off, hist |-> contents]
    OBVIOUS
<1>2. PICK u : u = [j \in Inodes |-> IF j = head[p] THEN off ELSE 0]
    OBVIOUS
<1>3. /\ map' = [map EXCEPT ![p] = t] /\ seen' = [seen EXCEPT ![p] = contents]
      /\ files' = [files EXCEPT ![p] = {head[p]}] /\ sync' = [sync EXCEPT ![p] = u]
      /\ view' = [view EXCEPT ![p] = NoView]
    BY <1>1, <1>2 DEF MapDone, Only
<1>4. /\ pc' = [pc EXCEPT ![p] = CASE op[p] = "read" -> "idle"
                 [] op[p] = "sync" -> "synced"
                 [] op[p] = "reset" -> "rot1"
                 [] OTHER -> "write"]
      /\ op' = IF op[p] = "read" THEN [op EXCEPT ![p] = "none"] ELSE op
    BY DEF MapDone, Goto
<1>5. Others(p)
    BY <1>3, <1>4 DEF Calm, Safe, TInv, Types, MemTypes, GhostTypes, OthersStay, Others
<1>6. /\ map'[p] = t /\ seen'[p] = contents /\ files'[p] = {head[p]} /\ sync'[p] = u /\ view'[p] = NoView
    BY <1>3 DEF Calm, Safe, TInv, Types, MemTypes, GhostTypes
<1>7. PICK r : r = Local(p)
    OBVIOUS
<1>8. PICK s : s = Local(p)'
    OBVIOUS
<1>9. /\ r.pc = "mapf" /\ s.map = t /\ s.seen = contents /\ s.files = {r.head} /\ s.sync = u
      /\ s.view = NoView /\ s.head = r.head /\ s.locked = r.locked /\ s.bad = r.bad /\ r.head = head[p]
    BY <1>6, <1>7, <1>8, LocalFields, LocalNext
<1>10. Reader(c, b, r) /\ TInv /\ LProc(p) /\ Chain(c, b) /\ c \in Numbering /\ b \in Numbering /\ LInv
    BY <1>7, Before
<1>11. r.op \in {"read", "commit", "sync", "reset", "fill"}
    <2>1. r.op \in Ops
        BY <1>7, Before DEF LocalT
    <2>. QED BY <1>9, <1>10, <2>1 DEF Reader, OpsOK, Ops
<1>12. \/ r.op = "read" /\ s.pc = "idle" /\ s.op = "none"
       \/ r.op = "sync" /\ s.pc = "synced" /\ s.op = "sync"
       \/ r.op = "reset" /\ s.pc = "rot1" /\ s.op = "reset"
       \/ r.op \in {"commit", "fill"} /\ s.pc = "write" /\ s.op = r.op
    <2>1. op[p] = r.op /\ op'[p] = s.op /\ pc'[p] = s.pc
        BY <1>7, <1>8, LocalFields, LocalNext
    <2>2. op'[p] = IF op[p] = "read" THEN "none" ELSE op[p]
        BY <1>4 DEF Calm, Safe, TInv, Types, MemTypes
    <2>3. pc'[p] = CASE op[p] = "read" -> "idle"
                 [] op[p] = "sync" -> "synced"
                 [] op[p] = "reset" -> "rot1"
                 [] OTHER -> "write"
        BY <1>4 DEF Calm, Safe, TInv, Types, MemTypes
    <2>. QED BY <1>11, <2>1, <2>2, <2>3
<1>13. r.op = "read" => ~s.locked
    BY <1>7, <1>9, <1>10, LocalFields DEF LProc, PlacesOK
<1>14. s.view.tail = 0 /\ s.view.got = <<>> /\ s.view.tries = 0
    BY <1>9 DEF NoView
<1>15. OpsOK(s) /\ ViewOK(s)
    <2>1. r.op \in {"commit", "fill"} => s.locked
        BY <1>9, <1>10 DEF Reader, OpsOK
    <2>. QED BY <1>12, <1>14, <2>1 DEF OpsOK, ViewOK
<1>16. PICK h \in 1..Last : h = file[r.head].seq /\ c[h] = r.head /\ b[h] \in Nat /\ Whole(r.head) \in Nat
                            /\ r.head \in Inodes
    <2>1. Known(c, r.head)
        BY <1>9, <1>10 DEF Reader
    <2>. QED BY <1>10, <2>1, HeadKnown
<1>17. t.seq = h /\ t.off = 2 * y /\ t.hist = contents /\ contents = After(b[h] + y)
    BY <1>1, <1>9, <1>16
<1>18. Fits(c, b, s.map)
    BY <1>9, <1>16, <1>17 DEF Fits, At
<1>19. Seen(c, b, s)
    <2>1. b[h] + y \in 0..(b[h] + Whole(r.head))
        BY <1>9, <1>16
    <2>. QED BY <1>9, <1>12, <1>16, <1>17, <2>1 DEF Seen
<1>20. Viewing(c, b, s) /\ Mapped(c, b, s)
    BY <1>12 DEF Viewing, Mapped
<1>21. Reader(c, b, s)
    BY <1>9, <1>10, <1>12, <1>15, <1>18, <1>19, <1>20 DEF Reader
<1>22. Owner(s)
    <2>. SUFFICES ASSUME s.locked PROVE Owner(s)
        BY DEF Owner, Owns
    <2>1. /\ head[p] = path /\ file[head[p]].seq = Last /\ off = Size(path)
          /\ contents = Effective(history)
        BY <1>7, <1>9, LocalFields
    <2>2. s.map.seq = Last /\ s.map.off = Size(path) /\ s.map.hist = Effective(history) /\ s.seen = s.map.hist
        BY <1>9, <1>16, <1>17, <2>1
    <2>3. s.sync[path] = s.map.off
        BY <1>2, <1>9, <1>16, <1>17, <2>1
    <2>4. s.pc \in {"synced", "rot1", "write"}
        BY <1>12, <1>13
    <2>41. s.map.off + 0 = Size(path)
        BY <1>9, <1>10, <1>16, <2>1, <2>2, WholeOK
    <2>5. Ends(s)
        BY <2>2, <2>3, <2>4, <2>41 DEF Ends
    <2>. QED BY <2>4, <2>5 DEF Owner, NewIs, MappedAll, Reopened, Rotating
<1>. QED BY <1>5, <1>8, <1>21, <1>22, Step

(* The data stays in order when the next file is mapped. *)
LEMMA MapFileData ==
    ASSUME NEW c, NEW b, Calm(c, b), NEW p \in Procs, MapFile(p)
    PROVE  DInv(c, b)'
<1>1. /\ pc[p] = "mapf" /\ Quiet /\ index' = index /\ path2' = path2
      /\ UNCHANGED <<head, new, locked, bad, idx>>
    BY DEF MapFile, diskVars, Quiet
<1>2. PICK i : i = Found(p)[view[p].todo]
    OBVIOUS
<1>3. PICK from : from = (IF file[i].seq = view[p].seq THEN view[p].off ELSE 0)
    OBVIOUS
<1>4. PICK got : got = TxnsOf(i, from, Complete(i)) \o view[p].got
    OBVIOUS
<1>5. PICK off : off = (IF i = head[p] THEN Complete(i) ELSE sync[p][head[p]])
    OBVIOUS
<1>6. PICK end : end = Complete(i)
    OBVIOUS
<1>7. from <= end /\ i \in Inodes
    BY <1>1, <1>2, <1>3, <1>6, Gathering
<1>8. \E j, x, y \in Nat : file[i].seq = j /\ from = 2 * x /\ Gathers(c, b, Local(p), j, x, y, i, off, got)
    <2>1. \E j, x, y \in Nat :
              /\ file[i].seq = j /\ from = 2 * x
              /\ Gathers(c, b, Local(p), j, x, y, i, IF i = head[p] THEN Complete(i) ELSE sync[p][head[p]],
                         TxnsOf(i, from, Complete(i)) \o view[p].got)
        BY <1>1, <1>2, <1>3, Gathering
    <2>. QED BY <1>4, <1>5, <2>1
<1>9. PICK j, x, y \in Nat : file[i].seq = j /\ from = 2 * x /\ Gathers(c, b, Local(p), j, x, y, i, off, got)
    BY <1>8
<1>10. PICK resets : resets = (file[i].prevSeq = 0 /\ (view[p].todo > 1 \/ from = 0))
    OBVIOUS
<1>11. /\ ~MapFails(p, i)
       /\ IF from > end
              THEN /\ Goto(p, "lost")
                   /\ files' = [files EXCEPT ![p] = {head[p]}]
                   /\ sync' = [sync EXCEPT ![p][i] = end]
                   /\ UNCHANGED <<op, map, view, seen>>
              ELSE IF resets \/ view[p].todo = 1
              THEN MapDone(p, off, IF resets THEN got ELSE map[p].hist \o got)
              ELSE /\ view' = [view EXCEPT ![p].todo = @ - 1, ![p].got = got]
                   /\ sync' = [sync EXCEPT ![p][i] = end]
                   /\ UNCHANGED <<pc, op, files, map, seen>>
    BY <1>2, <1>3, <1>4, <1>5, <1>6, <1>10, Zenon DEF MapFile
<1>12. PICK r : r = Local(p)
    OBVIOUS
<1>13. /\ r.pc = "mapf" /\ r.head = head[p] /\ r.view = view[p] /\ r.map = map[p] /\ r.sync = sync[p]
       /\ r.locked = locked[p]
    BY <1>1, <1>12, LocalFields
<1>14. Reader(c, b, r) /\ Owner(r) /\ TInv /\ LocalT(r)
    BY <1>12, Before
<1>15. /\ off = 2 * y /\ y \in 0..Whole(head[p]) /\ Complete(i) = 2 * Whole(i)
    BY <1>9, <1>12, <1>13 DEF Gathers
<1>16. locked[p] => /\ head[p] = path /\ file[head[p]].seq = Last
                    /\ off = Size(path) /\ After(b[Last] + y) = Effective(history)
    <2>1. ~MapFails(p, i) /\ Gathers(c, b, Local(p), j, x, y, i, off, got)
        BY <1>9, <1>11
    <2>. QED BY <1>1, <1>2, <2>1, GathersAll
<1>17. resets = (file[i].prevSeq = 0 /\ (view[p].todo > 1 \/ x = 0)) /\ resets \in BOOLEAN
    <2>1. from = 0 <=> x = 0
        BY <1>9
    <2>. QED BY <1>10, <2>1
<1>18. from > end => FALSE
    <2>1. Whole(i) \in Nat
        BY <1>7, <1>14, WholeOK
    <2>. QED BY <1>6, <1>7, <1>9, <1>15, <2>1
<1>19. CASE resets \/ view[p].todo = 1
    <2>1. PICK contents : contents = (IF resets THEN got ELSE map[p].hist \o got)
        OBVIOUS
    <2>2. MapDone(p, off, contents)
        BY <1>11, <1>18, <1>19, <2>1
    <2>3. contents = After(b[file[head[p]].seq] + y)
        BY <1>1, <1>9, <1>17, <1>19, <2>1, GathersContents
    <2>. QED BY <1>1, <1>15, <1>16, <2>2, <2>3, MapDoneData
<1>20. CASE ~resets /\ view[p].todo # 1
    <2>1. PICK t : t = [sync[p] EXCEPT ![i] = end]
        OBVIOUS
    <2>2. PICK v \in ViewT : v = view[p] /\ v = r.view
        BY <1>13, <1>14 DEF TInv, Types, MemTypes
    <2>3. v.tail \in Nat /\ v.todo \in Nat /\ v.todo # 0 /\ v.seq \in Nat
        <3>1. v.todo # 0
            BY <1>1, <1>14, <2>2, MappedFile
        <3>. QED BY <2>2, <3>1, ViewOf
    <2>4. PICK n \in Nat : n = v.todo - 1
        BY <2>3
    <2>5. PICK w : w = [v EXCEPT !.todo = n, !.got = got]
        OBVIOUS
    <2>6. w.tail = v.tail /\ w.seq = v.seq /\ w.off = v.off /\ w.tries = v.tries /\ w.todo = n /\ w.got = got
        BY <2>5 DEF ViewT
    <2>7. /\ view' = [view EXCEPT ![p].todo = @ - 1, ![p].got = got]
          /\ sync' = [sync EXCEPT ![p][i] = end]
          /\ UNCHANGED <<pc, op, files, map, seen>>
        BY <1>11, <1>18, <1>20
    <2>8. view' = [view EXCEPT ![p] = w] /\ sync' = [sync EXCEPT ![p] = t]
        BY <1>14, <2>1, <2>2, <2>4, <2>5, <2>7 DEF TInv, Types, MemTypes
    <2>9. Others(p)
        BY <1>1, <2>7, <2>8 DEF Calm, Safe, TInv, Types, MemTypes, OthersStay, Others
    <2>10. view'[p] = w /\ sync'[p] = t
        BY <2>8 DEF Calm, Safe, TInv, Types, MemTypes
    <2>11. PICK s : s = Local(p)'
        OBVIOUS
    <2>12. /\ s.pc = "mapf" /\ s.op = r.op /\ s.head = r.head /\ s.files = r.files /\ s.map = r.map
           /\ s.seen = r.seen /\ s.locked = r.locked /\ s.bad = r.bad /\ s.idx = r.idx
           /\ s.view = w /\ s.sync = t
        <3>1. /\ pc'[p] = "mapf" /\ op'[p] = op[p] /\ head'[p] = head[p] /\ files'[p] = files[p]
              /\ map'[p] = map[p] /\ seen'[p] = seen[p] /\ locked'[p] = locked[p] /\ bad'[p] = bad[p]
              /\ idx'[p] = idx[p]
            BY <1>1, <2>7
        <3>. QED BY <1>12, <2>10, <2>11, <3>1, LocalFields, LocalNext
    <2>13. PICK h : h = file[r.head].seq
        OBVIOUS
    <2>14. /\ j = v.tail + v.todo - 1 /\ j \in 1..h /\ h \in 1..Last /\ c[j] = i /\ c[h] = r.head
           /\ (IF j = v.seq THEN v.off ELSE 0) = 2 * x
           /\ got = Part(b[j] + x, b[h] + y)
           /\ \E u \in 0..(b[h] + y) : r.seen = After(u)
           /\ i = r.head => j = h /\ y = Whole(r.head)
           /\ i # r.head => r.sync[r.head] = 2 * y /\ \A k \in (j + 1)..h : file[c[k]].prevSeq # 0
        BY <1>9, <1>12, <2>2, <2>13 DEF Gathers
    <2>15. Last \in Nat /\ h \in Nat /\ n >= 1 /\ v.todo > 1 /\ w.tail + w.todo = j
        <3>1. Last \in Nat
            BY EndOfLog
        <3>2. v.todo > 1 /\ n >= 1
            BY <1>20, <2>2, <2>3, <2>4
        <3>. QED BY <2>3, <2>4, <2>6, <2>14, <3>1, <3>2
    <2>16. x = 0
        <3>1. j # v.seq
            <4>1. v.tail = v.seq \/ v.tail > v.seq
                <5>1. v.tail # 0
                    BY <1>1, <1>14, <2>2 DEF TInv, ProcOK, FindingOK
                <5>. QED BY <1>13, <1>14, <2>2, <5>1 DEF Reader, Viewing
            <4>. QED BY <2>3, <2>14, <2>15, <4>1
        <3>2. 2 * x = 0
            BY <2>14, <3>1
        <3>. QED BY <3>2
    <2>17. file[c[j]].prevSeq # 0
        BY <1>17, <1>20, <2>2, <2>14, <2>15
    <2>18. \A k \in j..h : file[c[k]].prevSeq # 0
        <3>1. CASE i = r.head
            BY <2>14, <2>15, <2>17, <3>1
        <3>2. CASE i # r.head
            <4>1. \A k \in j..h : k = j \/ k \in (j + 1)..h
                BY <2>15
            <4>. QED BY <2>14, <2>17, <3>2, <4>1
        <3>. QED BY <3>1, <3>2
    <2>19. s.sync[s.head] = 2 * y
        <3>1. r.head \in Inodes /\ sync[p] \in [Inodes -> Nat]
            <4>1. Known(c, r.head)
                BY <1>13, <1>14 DEF Reader
            <4>2. r.head \in Inodes
                BY <1>14, <4>1, Allocated DEF Known, TInv, Types
            <4>. QED BY <1>14, <4>2 DEF TInv, Types, MemTypes
        <3>2. CASE i = r.head
            BY <1>6, <1>15, <2>1, <2>12, <2>14, <3>1, <3>2
        <3>3. CASE i # r.head
            BY <1>13, <2>1, <2>12, <2>14, <3>1, <3>3
        <3>. QED BY <3>2, <3>3
    <2>20. Rest(c, b, s, j, h)
        <3>1. b[j] + x = b[j]
            <4>1. j \in 1..Last
                BY <2>14, <2>15
            <4>2. b[j] \in Nat
                BY <4>1, Before, ChainBounds
            <4>. QED BY <2>16, <4>2
        <3>2. s.view.got = Part(b[j], b[h] + y)
            BY <2>6, <2>12, <2>14, <3>1
        <3>3. y \in 0..Whole(s.head)
            BY <1>13, <1>15, <2>12
        <3>4. \E u \in 0..(b[h] + y) : s.seen = After(u)
            BY <2>12, <2>14
        <3>. QED BY <2>18, <2>19, <3>2, <3>3, <3>4 DEF Rest
    <2>21. Mapped(c, b, s)
        <3>1. s.view.tail + s.view.todo = j /\ file[s.head].seq = h
            BY <2>6, <2>12, <2>13, <2>15
        <3>2. j \in 1..(h + 1) /\ j # h + 1
            BY <2>14, <2>15
        <3>. QED BY <2>20, <3>1, <3>2 DEF Mapped
    <2>22. Viewing(c, b, s)
        BY <1>13, <1>14, <2>2, <2>6, <2>12 DEF Reader, Viewing
    <2>23. OpsOK(s) /\ ViewOK(s) /\ Seen(c, b, s)
        BY <1>13, <1>14, <2>12 DEF Reader, OpsOK, ViewOK, Seen
    <2>24. Reader(c, b, s)
        BY <1>14, <1>13, <2>12, <2>21, <2>22, <2>23 DEF Reader
    <2>25. Owner(s)
        <3>. SUFFICES ASSUME Owns(s) PROVE Owner(s)
            BY DEF Owner
        <3>1. Owns(r) /\ locked[p]
            BY <1>13, <2>12 DEF Owns
        <3>2. MappedAll(s)
            BY <1>13, <1>15, <1>16, <2>12, <2>19, <3>1 DEF MappedAll
        <3>3. Reopened(s)
            BY <1>13, <1>14, <2>2, <2>6, <2>12, <3>1 DEF Reopened, Owner
        <3>. QED BY <2>12, <3>2, <3>3 DEF Owner, Ends, AtEnd, NewIs, Rotating
    <2>. QED BY <1>1, <2>9, <2>11, <2>24, <2>25, Step
<1>. QED BY <1>17, <1>19, <1>20

(* Only the records of the log change. *)
Rewrites(new_data) ==
    /\ nfile' = nfile /\ path' = path
    /\ \A i \in 1..nfile : i # path => file'[i] = file[i]
    /\ file'[path].seq = file[path].seq /\ file'[path].prevSeq = file[path].prevSeq
    /\ file'[path].prevOff = file[path].prevOff /\ file'[path].data = new_data

(* An assignment to the data of the log changes only that. *)
LEMMA RewritesIs ==
    ASSUME TInv, path \in 1..nfile, NEW a, nfile' = nfile, path' = path,
           file' = [file EXCEPT ![path].data = a]
    PROVE  Rewrites(a)
<1>1. path \in Inodes /\ \A i \in 1..nfile : i \in Inodes
    BY Allocated DEF TInv, Types
<1>2. PICK f \in FileT : f = file[path]
    BY <1>1 DEF TInv, Types, DiskTypes
<1>3. PICK g : g = [f EXCEPT !.data = a]
    OBVIOUS
<1>4. g.seq = f.seq /\ g.prevSeq = f.prevSeq /\ g.prevOff = f.prevOff /\ g.data = a
    BY <1>3 DEF FileT
<1>5. file' = [file EXCEPT ![path] = g]
    BY <1>2, <1>3
<1>6. file'[path] = g /\ \A i \in 1..nfile : i # path => file'[i] = file[i]
    BY <1>1, <1>5 DEF TInv, Types, DiskTypes
<1>. QED BY <1>2, <1>4, <1>6 DEF Rewrites

(* The log goes on as the history does. *)
LEMMA Rewritten ==
    ASSUME NEW c, NEW b, Calm(c, b), NEW a, Rewrites(a),
           Whole(path)' \in Nat, Whole(path) <= Whole(path)',
           Len(history) <= Len(history'), \A n \in 1..Len(history) : history'[n] = history[n],
           Len(history') = b[Last] + Whole(path)',
           \A j \in 1..Whole(path)' : a[2 * j][1] = history'[b[Last] + j]
    PROVE  Grown(c, b, c, b) /\ Chain(c, b)'
<1>1. /\ TInv /\ TInv' /\ Chain(c, b) /\ c \in Numbering /\ b \in Numbering
    BY DEF Calm, Safe, DInv
<1>2. Last \in Nat /\ c[Last] = path /\ path \in 1..nfile /\ b[Last] \in Nat /\ Len(history) \in Nat
      /\ Whole(path) \in Nat /\ Last \in 1..Last
    BY EndOfLog
<1>3. Last' = Last
    BY DEF Rewrites, Last
<1>4. ASSUME NEW k \in 1..Last
      PROVE  /\ c[k] \in 1..nfile /\ file'[c[k]].seq = k /\ file'[c[k]].prevSeq = file[c[k]].prevSeq
             /\ file'[c[k]].prevOff = file[c[k]].prevOff /\ k \in Nat
             /\ k # Last => c[k] # path /\ file'[c[k]] = file[c[k]] /\ Size(c[k])' = Size(c[k]) /\ Whole(c[k])' = Whole(c[k])
             /\ Whole(c[k]) <= Whole(c[k])' /\ Whole(c[k])' \in Nat
    <2>1. c[k] \in 1..nfile /\ file[c[k]].seq = k /\ Whole(c[k]) \in Nat /\ k \in Nat
        BY <1>1, <1>2, ChainBounds
    <2>2. CASE c[k] = path
        <3>1. k = Last
            BY <2>1, <2>2 DEF Last
        <3>. QED BY <2>1, <2>2, <3>1 DEF Rewrites
    <2>3. CASE c[k] # path
        <3>1. file'[c[k]] = file[c[k]]
            BY <2>1, <2>3 DEF Rewrites
        <3>2. Size(c[k])' = Size(c[k])
            BY <3>1 DEF Size
        <3>3. Whole(c[k])' = Whole(c[k])
            BY <3>2 DEF Whole
        <3>. QED BY <2>1, <2>3, <3>1, <3>2, <3>3
    <2>. QED BY <2>2, <2>3
<1>5. \A i \in 1..nfile : /\ file'[i].seq = file[i].seq /\ file'[i].prevSeq = file[i].prevSeq
                          /\ file'[i].prevOff = file[i].prevOff
    BY <1>2 DEF Rewrites
<1>6. Growth(c, b, c, b)
    BY <1>2, <1>3, <1>4, <1>5 DEF Growth, Rewrites
<1>7. Grown(c, b, c, b)
    BY <1>1, <1>6 DEF Grown
<1>8. Numbered(c)'
    BY <1>1, <1>2, <1>3, <1>4 DEF Chain, Numbered, Rewrites
<1>9. Recorded(c, b)'
    <2>. SUFFICES ASSUME NEW k \in 1..Last, NEW j \in 1..(Whole(c[k])')
                  PROVE  b[k] + j <= Len(history') /\ file'[c[k]].data[2 * j][1] = history'[b[k] + j]
        BY <1>3 DEF Recorded
    <2>1. CASE k = Last
        <3>1. Whole(path)' = Whole(c[k])' /\ c[k] = path /\ c[k]' = path
            BY <1>2, <2>1 DEF Rewrites, Whole, Size
        <3>2. b[Last] + j <= Len(history')
            BY <1>2, <3>1
        <3>3. a[2 * j][1] = history'[b[Last] + j]
            BY <3>1
        <3>. QED BY <2>1, <3>1, <3>2, <3>3 DEF Rewrites
    <2>2. CASE k # Last
        <3>1. j \in 1..Whole(c[k]) /\ file'[c[k]] = file[c[k]]
            BY <1>4, <2>2
        <3>2. b[k] + j <= Len(history) /\ file[c[k]].data[2 * j][1] = history[b[k] + j]
            BY <1>1, <3>1 DEF Chain, Recorded
        <3>3. b[k] + j \in 1..Len(history)
            <4>1. b[k] \in Nat /\ j \in Nat /\ j >= 1
                BY <1>1, <1>4, ChainBounds
            <4>. QED BY <1>2, <3>2, <4>1
        <3>4. Len(history') \in Nat
            BY <1>2
        <3>. QED BY <1>2, <3>1, <3>2, <3>3, <3>4
    <2>. QED BY <2>1, <2>2
<1>10. Ordered(c, b)'
    <2>1. ASSUME NEW j \in 1..Last, NEW k \in 1..Last, j < k PROVE b[j] + Whole(c[j])' <= b[k]
        <3>1. b[j] + Whole(c[j]) <= b[k]
            BY <1>1, <2>1 DEF Chain, Ordered
        <3>2. j # Last
            BY <1>2, <2>1
        <3>. QED BY <1>4, <3>1, <3>2
    <2>. QED BY <1>3, <2>1 DEF Ordered
<1>11. Linked(c, b)'
    <2>. SUFFICES ASSUME NEW k \in 1..Last, file'[c[k]].prevSeq # 0
                  PROVE  /\ k > 1
                         /\ file'[c[k]].prevSeq = k - 1
                         /\ file'[c[k]].prevOff = Size(c[k - 1])'
                         /\ Size(c[k - 1])' = 2 * Whole(c[k - 1])'
                         /\ b[k] = b[k - 1] + Whole(c[k - 1])'
        BY <1>3 DEF Linked
    <2>1. file[c[k]].prevSeq # 0
        BY <1>4
    <2>2. /\ k > 1 /\ file[c[k]].prevSeq = k - 1 /\ file[c[k]].prevOff = Size(c[k - 1])
          /\ Size(c[k - 1]) = 2 * Whole(c[k - 1]) /\ b[k] = b[k - 1] + Whole(c[k - 1])
        BY <1>1, <2>1 DEF Chain, Linked
    <2>3. k - 1 \in 1..Last /\ k - 1 # Last
        BY <1>2, <2>2
    <2>4. Size(c[k - 1])' = Size(c[k - 1]) /\ Whole(c[k - 1])' = Whole(c[k - 1])
        BY <1>4, <2>3
    <2>. QED BY <1>4, <2>2, <2>4
<1>12. Restarts(c, b)'
    <2>. SUFFICES ASSUME NEW k \in 1..Last, file'[c[k]].prevSeq = 0
                  PROVE  After(b[k])' = <<>>
        BY <1>3 DEF Restarts
    <2>1. After(b[k]) = <<>>
        BY <1>1, <1>4 DEF Chain, Restarts
    <2>2. b[k] \in 0..Len(history)
        <3>1. b[k] \in Nat /\ Whole(c[k]) \in Nat /\ b[k] + Whole(c[k]) <= Len(history)
            BY <1>1, ChainBounds
        <3>. QED BY <1>2, <3>1
    <2>3. After(b[k])' = After(b[k])
        BY <1>1, <1>6, <2>2, AfterStays
    <2>. QED BY <2>1, <2>3
<1>13. Chain(c, b)'
    BY <1>8, <1>9, <1>10, <1>11, <1>12 DEF Chain
<1>. QED BY <1>7, <1>13

(* A step of the owner that rewrites the log. *)
LEMMA OwnerStep ==
    ASSUME NEW c, NEW b, Calm(c, b), NEW p \in Procs, Others(p), Owns(Local(p)),
           Grown(c, b, c, b), Chain(c, b)', index' = index, path2' = path2,
           NEW s, s = Local(p)', Reader(c, b, s), Owner(s)'
    PROVE  DInv(c, b)'
<1>1. Reader(c, b, s)'
    BY ReaderStays
<1>2. Good(c, b, Local(p))'
    BY <1>1 DEF Good
<1>3. Fits(c, b, index)'
    <2>1. PICK m : m = index
        OBVIOUS
    <2>2. Fits(c, b, m)'
        BY <2>1, Before, FitsStays
    <2>. QED BY <2>1, <2>2
<1>4. path2' # 0 => Known(c, path2)'
    <2>1. PICK i : i = path2
        OBVIOUS
    <2>2. i # 0 => Known(c, i)'
        BY <2>1, KnownStays DEF Calm, DInv
    <2>. QED BY <2>1, <2>2
<1>5. LInv /\ DInv(c, b)
    BY DEF Calm, Safe
<1>. QED BY <1>2, <1>3, <1>4, <1>5, DStep

(* Whoever writes owns the log and has mapped it all. *)
LEMMA WriterOwns ==
    ASSUME NEW c, NEW b, Calm(c, b), NEW p \in Procs, pc[p] \in {"write", "write2", "synced", "fsync"}
    PROVE  /\ Owns(Local(p)) /\ head[p] = path
           /\ map[p].seq = Last /\ sync[p][path] = map[p].off
           /\ \E x \in Nat : map[p].off = 2 * x /\ x = Whole(path) - (IF pc[p] = "fsync" THEN 1 ELSE 0)
           /\ Size(path) = map[p].off + (IF pc[p] = "write2" THEN 1 ELSE IF pc[p] = "fsync" THEN 2 ELSE 0)
           /\ pc[p] # "fsync" => map[p].hist = Effective(history) /\ seen[p] = map[p].hist
<1>1. PICK r : r = Local(p)
    OBVIOUS
<1>2. /\ r.pc = pc[p] /\ r.op = op[p] /\ r.map = map[p] /\ r.sync = sync[p] /\ r.head = head[p] /\ r.locked = locked[p]
      /\ r.seen = seen[p]
    BY <1>1, LocalFields
<1>3. Reader(c, b, r) /\ Owner(r) /\ LProc(p) /\ TInv /\ LInv
    BY <1>1, Before
<1>4. r.locked
    BY <1>2, <1>3 DEF Reader, OpsOK, LProc, PlacesOK
<1>5. Owns(r)
    BY <1>2, <1>4 DEF Owns
<1>6. head[p] = path
    BY <1>1, <1>3, <1>5, OwnsLog
<1>7. /\ r.map.seq = Last /\ r.sync[path] = r.map.off
      /\ Size(path) = r.map.off + (IF r.pc = "write2" THEN 1 ELSE IF r.pc = "fsync" THEN 2 ELSE 0)
      /\ r.pc # "fsync" => r.map.hist = Effective(history) /\ r.seen = r.map.hist
    BY <1>2, <1>3, <1>5 DEF Owner, Ends, AtEnd
<1>8. Last \in Nat /\ Last \in 1..Last /\ c[Last] = path /\ path \in Inodes /\ Whole(path) \in Nat
    BY EndOfLog
<1>9. PICK x \in 0..Whole(path) : r.map.off = 2 * x
    <2>1. r.map # NoMap
        BY <1>7, <1>8 DEF NoMap
    <2>. QED BY <1>3, <1>7, <1>8, <2>1 DEF Reader, Fits, At
<1>10. x \in Nat
    BY <1>8, <1>9
<1>11. x = Whole(path) - (IF r.pc = "fsync" THEN 1 ELSE 0)
    <2>1. \A z \in Nat : Size(path) \in {2 * z, 2 * z + 1} => Whole(path) = z
        BY <1>3, <1>8, WholeOK
    <2>2. CASE r.pc = "fsync"
        <3>1. Size(path) = 2 * (x + 1) /\ x + 1 \in Nat
            BY <1>7, <1>9, <1>10, <2>2
        <3>2. Whole(path) = x + 1
            BY <2>1, <3>1
        <3>. QED BY <1>10, <2>2, <3>2
    <2>3. CASE r.pc # "fsync"
        <3>1. Size(path) \in {2 * x, 2 * x + 1}
            BY <1>7, <1>9, <1>10, <2>3
        <3>2. Whole(path) = x
            BY <1>10, <2>1, <3>1
        <3>. QED BY <1>10, <2>3, <3>2
    <2>. QED BY <2>2, <2>3
<1>. QED BY <1>1, <1>2, <1>5, <1>6, <1>7, <1>9, <1>10, <1>11

(* What the records of the log are before a transaction is written. *)
LEMMA LogRecords ==
    ASSUME NEW c, NEW b, Calm(c, b)
    PROVE  /\ file[path].data \in Seq(Txns \X (1..TxnSize)) /\ Size(path) = Len(file[path].data)
           /\ \A j \in 1..Whole(path) : /\ 2 * j \in 1..Len(file[path].data)
                                        /\ file[path].data[2 * j][1] = history[b[Last] + j]
                                        /\ b[Last] + j \in 1..Len(history)
<1>1. /\ path \in Inodes /\ Whole(path) \in Nat /\ Last \in 1..Last /\ c[Last] = path /\ b[Last] \in Nat
      /\ Len(history) \in Nat /\ TInv
    BY EndOfLog DEF Calm, Safe
<1>2. file[path].data \in Seq(Txns \X (1..TxnSize)) /\ Size(path) = Len(file[path].data)
    BY <1>1, FileOf DEF TInv, Types, Size
<1>3. 2 * Whole(path) <= Size(path) /\ Size(path) \in Nat
    BY <1>1, WholeOK
<1>4. ASSUME NEW j \in 1..Whole(path)
      PROVE  b[Last] + j <= Len(history) /\ file[path].data[2 * j][1] = history[b[Last] + j]
    BY <1>1 DEF Calm, DInv, Chain, Recorded
<1>5. ASSUME NEW j \in 1..Whole(path) PROVE 2 * j \in 1..Len(file[path].data) /\ b[Last] + j \in 1..Len(history)
    <2>1. PICK e \in Nat, z \in Nat, m \in Nat : e = Whole(path) /\ z = Size(path) /\ m = b[Last]
        BY <1>1, <1>3
    <2>2. j \in 1..e /\ 2 * e <= z /\ m + j <= Len(history)
        BY <1>3, <1>4, <2>1
    <2>3. 2 * j \in 1..z /\ m + j \in 1..Len(history)
        BY <1>1, <2>2
    <2>. QED BY <1>2, <2>1, <2>3
<1>. QED BY <1>2, <1>4, <1>5

(* The data stays in order when the first half of a transaction is written. *)
LEMMA WritePartData ==
    ASSUME NEW c, NEW b, Calm(c, b), NEW p \in Procs, WritePart(p)
    PROVE  DInv(c, b)'
<1>1. PICK n : n = count'.txns
    OBVIOUS
<1>2. PICK a : a = Append(file[head[p]].data, <<n, 1>>)
    OBVIOUS
<1>3. /\ pc[p] \in {"write", "synced"}
      /\ file' = [file EXCEPT ![head[p]].data = a]
      /\ pc' = [pc EXCEPT ![p] = "write2"]
      /\ view' = [view EXCEPT ![p].txn = n]
      /\ UNCHANGED <<nfile, path, path2, index, op, head, new, locked, bad, files, sync, map, idx, history, seen>>
    BY <1>1, <1>2 DEF WritePart, Goto
<1>4. PICK w : w = [view[p] EXCEPT !.txn = n]
    OBVIOUS
<1>5. view' = [view EXCEPT ![p] = w]
    BY <1>3, <1>4
<1>6. view[p] \in ViewT /\ TInv /\ TInv' /\ path \in 1..nfile /\ path \in Inodes
    BY EndOfLog DEF Calm, Safe, TInv, Types, MemTypes
<1>7. w.tail = view[p].tail /\ w.got = view[p].got /\ w.tries = view[p].tries
    BY <1>4, <1>6 DEF ViewT
<1>8. Others(p)
    BY <1>3, <1>5 DEF Calm, Safe, TInv, Types, MemTypes, OthersStay, Others
<1>9. /\ Owns(Local(p)) /\ head[p] = path /\ map[p].seq = Last /\ sync[p][path] = map[p].off
      /\ Size(path) = map[p].off /\ map[p].hist = Effective(history) /\ seen[p] = map[p].hist
      /\ map[p].off = 2 * Whole(path)
    <2>1. /\ Owns(Local(p)) /\ head[p] = path /\ map[p].seq = Last /\ sync[p][path] = map[p].off
          /\ Size(path) = map[p].off + 0 /\ map[p].hist = Effective(history) /\ seen[p] = map[p].hist
          /\ \E x \in Nat : map[p].off = 2 * x /\ x = Whole(path) - 0
        BY <1>3, WriterOwns
    <2>2. map[p].off \in Nat /\ Whole(path) \in Nat
        BY <1>6, MapOf, EndOfLog DEF TInv, Types, MemTypes
    <2>. QED BY <2>1, <2>2
<1>10. PICK e \in Nat : e = Whole(path)
    BY EndOfLog
<1>11. PICK f \in Seq(Txns \X (1..TxnSize)) :
           /\ f = file[path].data /\ Len(f) = 2 * e
           /\ \A j \in 1..e : 2 * j \in 1..Len(f) /\ f[2 * j][1] = history[b[Last] + j]
    BY <1>9, <1>10, LogRecords
<1>12. a = Append(f, <<n, 1>>) /\ Rewrites(a)
    <2>1. file' = [file EXCEPT ![path].data = a] /\ nfile' = nfile /\ path' = path
        BY <1>3, <1>9
    <2>. QED BY <1>2, <1>6, <1>9, <1>11, <2>1, RewritesIs
<1>13. Len(a) = 2 * e + 1 /\ \A j \in 1..Len(f) : a[j] = f[j]
    <2>1. PICK t : t = <<n, 1>>
        OBVIOUS
    <2>2. a = Append(f, t)
        BY <1>12, <2>1
    <2>. QED BY <1>11, <2>2
<1>14. Size(path)' = 2 * e + 1 /\ Whole(path)' = e
    <2>1. Size(path)' = Len(a)
        BY <1>12 DEF Size, Rewrites
    <2>2. (\A x \in Nat : Size(path)' \in {2 * x, 2 * x + 1} => Whole(path)' = x)
        <3>1. PICK z \in Nat : z = Size(path)'
            BY <1>10, <1>13, <2>1
        <3>2. Whole(path)' = z \div 2
            BY <3>1 DEF Whole, TxnSize
        <3>. QED BY <3>1, <3>2, WholeNumber
    <2>3. Size(path)' = 2 * e + 1
        BY <1>13, <2>1
    <2>. QED BY <1>10, <2>2, <2>3
<1>15. Grown(c, b, c, b) /\ Chain(c, b)'
    <2>1. Len(history') = b[Last] + Whole(path)' /\ Len(history) <= Len(history') /\ history' = history
        BY <1>3, <1>10, <1>14, EndOfLog
    <2>2. \A j \in 1..Whole(path)' : a[2 * j][1] = history'[b[Last] + j]
        BY <1>11, <1>13, <1>14, <2>1
    <2>3. Whole(path)' \in Nat /\ Whole(path) <= Whole(path)'
        BY <1>10, <1>14
    <2>. QED BY <1>12, <2>1, <2>2, <2>3, Rewritten
<1>16. PICK r : r = Local(p)
    OBVIOUS
<1>17. PICK s : s = Local(p)'
    OBVIOUS
<1>18. /\ pc'[p] = "write2" /\ view'[p] = w
    BY <1>3, <1>5, <1>6 DEF TInv, Types, MemTypes
<1>19. /\ op'[p] = op[p] /\ head'[p] = head[p] /\ locked'[p] = locked[p] /\ bad'[p] = bad[p] /\ files'[p] = files[p]
       /\ sync'[p] = sync[p] /\ map'[p] = map[p] /\ seen'[p] = seen[p]
    BY <1>3
<1>20. /\ r.pc \in {"write", "synced"} /\ s.pc = "write2" /\ s.view = w /\ r.view = view[p] /\ s.op = r.op
       /\ s.head = r.head /\ s.locked = r.locked /\ s.bad = r.bad /\ s.files = r.files /\ s.sync = sync[p]
       /\ s.map = r.map /\ s.map = map[p] /\ s.seen = r.seen /\ s.seen = seen[p]
    BY <1>3, <1>16, <1>17, <1>18, <1>19, LocalFields, LocalNext
<1>21. Reader(c, b, r) /\ LProc(p)
    BY <1>16, Before
<1>22. OpsOK(s) /\ ViewOK(s)
    <2>1. r.op \in {"commit", "fill", "sync"}
        BY <1>16, <1>20, <1>21, LocalFields DEF Reader, OpsOK, LProc, PlacesOK
    <2>. QED BY <1>7, <1>20, <1>21, <2>1 DEF Reader, OpsOK, ViewOK
<1>23. Reader(c, b, s)
    BY <1>20, <1>21, <1>22, Moves DEF Reader
<1>24. Owner(s)'
    <2>1. Last' = Last /\ path' = path /\ history' = history
        BY <1>3, <1>12 DEF Rewrites, Last
    <2>2. Size(path)' = s.map.off + 1
        BY <1>9, <1>10, <1>14, <1>20
    <2>3. Ends(s)'
        BY <1>9, <1>20, <2>1, <2>2 DEF Ends
    <2>. QED BY <1>20, <2>3 DEF Owner, NewIs, MappedAll, Reopened, Rotating
<1>. QED BY <1>3, <1>8, <1>9, <1>15, <1>17, <1>23, <1>24, OwnerStep

(* The data stays in order when the second half is written: the            *)
(* transaction is committed.                                               *)
LEMMA WriteRestData ==
    ASSUME NEW c, NEW b, Calm(c, b), NEW p \in Procs, WriteRest(p)
    PROVE  DInv(c, b)'
<1>1. PICK n : n = view[p].txn
    OBVIOUS
<1>2. PICK a : a = Append(file[head[p]].data, <<n, 2>>)
    OBVIOUS
<1>3. /\ pc[p] = "write2"
      /\ file' = [file EXCEPT ![head[p]].data = a]
      /\ history' = Append(history, n)
      /\ pc' = [pc EXCEPT ![p] = "fsync"]
      /\ view' = [view EXCEPT ![p] = NoView]
      /\ UNCHANGED <<nfile, path, path2, index, op, head, new, locked, bad, files, sync, map, idx, seen>>
    BY <1>1, <1>2 DEF WriteRest, Goto
<1>6. TInv /\ TInv' /\ path \in 1..nfile /\ path \in Inodes
    BY EndOfLog DEF Calm, Safe
<1>7. n \in Txns
    <2>1. n \in 1..count.txns /\ count.txns \in 0..MaxTxns /\ MaxTxns \in Nat
        BY <1>1, <1>3, <1>6, LogAssumption DEF TInv, ProcOK, TxnOK, Types, GhostTypes, CountT
    <2>. QED BY <2>1 DEF Txns
<1>8. Others(p)
    BY <1>3 DEF Calm, Safe, TInv, Types, MemTypes, OthersStay, Others
<1>9. /\ Owns(Local(p)) /\ head[p] = path /\ map[p].seq = Last /\ sync[p][path] = map[p].off
      /\ Size(path) = 2 * Whole(path) + 1 /\ map[p].off = 2 * Whole(path)
    <2>1. /\ Owns(Local(p)) /\ head[p] = path /\ map[p].seq = Last /\ sync[p][path] = map[p].off
          /\ Size(path) = map[p].off + 1
          /\ \E x \in Nat : map[p].off = 2 * x /\ x = Whole(path) - 0
        BY <1>3, WriterOwns
    <2>2. Whole(path) \in Nat
        BY EndOfLog
    <2>. QED BY <2>1, <2>2
<1>10. PICK e \in Nat : e = Whole(path)
    BY EndOfLog
<1>11. PICK f \in Seq(Txns \X (1..TxnSize)) :
           /\ f = file[path].data /\ Len(f) = 2 * e + 1
           /\ \A j \in 1..e : /\ 2 * j \in 1..Len(f) /\ f[2 * j][1] = history[b[Last] + j]
                              /\ b[Last] + j \in 1..Len(history)
    <2>1. Size(path) = 2 * e + 1
        BY <1>9, <1>10
    <2>. QED BY <1>10, <2>1, LogRecords
<1>12. a = Append(f, <<n, 2>>) /\ Rewrites(a)
    <2>1. file' = [file EXCEPT ![path].data = a] /\ nfile' = nfile /\ path' = path
        BY <1>3, <1>9
    <2>. QED BY <1>2, <1>6, <1>9, <1>11, <2>1, RewritesIs
<1>13. Len(a) = 2 * e + 2 /\ (\A j \in 1..Len(f) : a[j] = f[j]) /\ a[2 * e + 2][1] = n
    <2>1. PICK t : t = <<n, 2>>
        OBVIOUS
    <2>2. a = Append(f, t)
        BY <1>12, <2>1
    <2>20. PICK z \in Nat : z = Len(f) /\ z = 2 * e + 1
        BY <1>11
    <2>21. Len(a) = z + 1 /\ (\A j \in 1..z : a[j] = f[j]) /\ a[z + 1] = t
        <3>1. t \in Txns \X (1..TxnSize)
            BY <1>7, <2>1 DEF TxnSize
        <3>2. PICK S : S = Txns \X (1..TxnSize)
            OBVIOUS
        <3>3. f \in Seq(S) /\ t \in S
            BY <3>1, <3>2
        <3>4. Len(Append(f, t)) = Len(f) + 1 /\ (\A j \in 1..Len(f) : Append(f, t)[j] = f[j]) /\ Append(f, t)[Len(f) + 1] = t
            BY <3>3, AppendProperties
        <3>. QED BY <2>2, <2>20, <3>4
    <2>22. z + 1 = 2 * e + 2
        BY <1>10, <2>20
    <2>3. Len(a) = 2 * e + 2 /\ (\A j \in 1..Len(f) : a[j] = f[j]) /\ a[2 * e + 2] = t
        BY <2>20, <2>21, <2>22
    <2>. QED BY <2>1, <2>3
<1>14. Size(path)' = 2 * e + 2 /\ Whole(path)' = e + 1
    <2>1. Size(path)' = Len(a)
        BY <1>12 DEF Size, Rewrites
    <2>2. (\A x \in Nat : Size(path)' \in {2 * x, 2 * x + 1} => Whole(path)' = x)
        <3>1. PICK z \in Nat : z = Size(path)'
            BY <1>10, <1>13, <2>1
        <3>2. Whole(path)' = z \div 2
            BY <3>1 DEF Whole, TxnSize
        <3>. QED BY <3>1, <3>2, WholeNumber
    <2>3. Size(path)' = 2 * (e + 1) /\ e + 1 \in Nat
        BY <1>10, <1>13, <2>1
    <2>4. Whole(path)' = e + 1
        BY <2>2, <2>3
    <2>. QED BY <1>13, <2>1, <2>4
<1>15. Grown(c, b, c, b) /\ Chain(c, b)'
    <2>1. /\ history \in Seq(Entries) /\ Len(history) \in Nat /\ b[Last] \in Nat /\ Len(history) = b[Last] + e
        BY <1>10, EndOfLog
    <2>2. Len(history') = Len(history) + 1 /\ (\A k \in 1..Len(history) : history'[k] = history[k])
          /\ history'[Len(history) + 1] = n
        <3>1. PICK g \in Seq(Entries) : g = history
            BY <2>1
        <3>2. n \in Entries
            BY <1>7 DEF Entries
        <3>3. history' = Append(g, n)
            BY <1>3, <3>1
        <3>4. Len(Append(g, n)) = Len(g) + 1 /\ (\A k \in 1..Len(g) : Append(g, n)[k] = g[k]) /\ Append(g, n)[Len(g) + 1] = n
            BY <3>2
        <3>. QED BY <3>1, <3>3, <3>4
    <2>20. PICK m \in Nat : m = b[Last] /\ Len(history) = m + e
        BY <2>1
    <2>3. Len(history') = b[Last] + Whole(path)' /\ Len(history) <= Len(history')
        <3>1. Len(history') = m + (e + 1) /\ Len(history) <= Len(history')
            BY <1>10, <2>2, <2>20
        <3>. QED BY <1>14, <2>20, <3>1
    <2>4. ASSUME NEW j \in 1..Whole(path)' PROVE a[2 * j][1] = history'[b[Last] + j]
        <3>1. j \in 1..(e + 1)
            BY <1>14
        <3>2. CASE j = e + 1
            <4>1. 2 * j = 2 * e + 2 /\ b[Last] + j = Len(history) + 1
                <5>1. m + j = Len(history) + 1
                    BY <1>10, <2>20, <3>2
                <5>2. 2 * j = 2 * e + 2
                    BY <1>10, <3>2
                <5>. QED BY <2>20, <5>1, <5>2
            <4>. QED BY <1>13, <2>2, <4>1
        <3>3. CASE j # e + 1
            <4>1. j \in 1..e
                BY <1>10, <3>1, <3>3
            <4>. QED BY <1>11, <1>13, <2>2, <4>1
        <3>. QED BY <3>2, <3>3
    <2>5. Whole(path)' \in Nat /\ Whole(path) <= Whole(path)'
        BY <1>10, <1>14
    <2>. QED BY <1>12, <2>2, <2>3, <2>4, <2>5, Rewritten
<1>16. PICK r : r = Local(p)
    OBVIOUS
<1>17. PICK s : s = Local(p)'
    OBVIOUS
<1>18. /\ pc'[p] = "fsync" /\ view'[p] = NoView
    BY <1>3, <1>6 DEF TInv, Types, MemTypes
<1>19. /\ op'[p] = op[p] /\ head'[p] = head[p] /\ locked'[p] = locked[p] /\ bad'[p] = bad[p] /\ files'[p] = files[p]
       /\ sync'[p] = sync[p] /\ map'[p] = map[p] /\ seen'[p] = seen[p]
    BY <1>3
<1>20. /\ r.pc = "write2" /\ s.pc = "fsync" /\ s.view = NoView /\ s.op = r.op
       /\ s.head = r.head /\ s.locked = r.locked /\ s.bad = r.bad /\ s.files = r.files /\ s.sync = sync[p]
       /\ s.map = r.map /\ s.map = map[p] /\ s.seen = r.seen
    BY <1>3, <1>16, <1>17, <1>18, <1>19, LocalFields, LocalNext
<1>21. Reader(c, b, r)
    BY <1>16, Before
<1>22. OpsOK(s) /\ ViewOK(s)
    BY <1>20, <1>21 DEF Reader, OpsOK, ViewOK, NoView
<1>23. Reader(c, b, s)
    BY <1>20, <1>21, <1>22, Moves DEF Reader
<1>24. Owner(s)'
    <2>1. Last' = Last /\ path' = path
        BY <1>3, <1>12 DEF Rewrites, Last
    <2>2. Size(path)' = s.map.off + 2
        BY <1>9, <1>10, <1>14, <1>20
    <2>3. Ends(s)'
        BY <1>9, <1>20, <2>1, <2>2 DEF Ends
    <2>. QED BY <1>20, <2>3 DEF Owner, NewIs, MappedAll, Reopened, Rotating
<1>. QED BY <1>3, <1>8, <1>9, <1>15, <1>17, <1>23, <1>24, OwnerStep

(* The data stays in order when a write fails and what was written is cut  *)
(* off.                                                                    *)
LEMMA WriteFailData ==
    ASSUME NEW c, NEW b, Calm(c, b), NEW p \in Procs, WriteFail(p)
    PROVE  DInv(c, b)'
<1>2. PICK a : a = SubSeq(file[head[p]].data, 1, Min({sync[p][head[p]], Len(file[head[p]].data)}))
    OBVIOUS
<1>3. /\ pc[p] = "write2" /\ Forget(p)
      /\ file' = [file EXCEPT ![head[p]].data = a]
      /\ UNCHANGED <<nfile, path, path2, index, history>>
    BY <1>2 DEF WriteFail, MoveToMemory
<1>6. TInv /\ TInv' /\ path \in 1..nfile /\ path \in Inodes
    BY EndOfLog DEF Calm, Safe
<1>8. PICK s : s = Local(p)'
    OBVIOUS
<1>81. Others(p) /\ Blank(s)
    BY <1>3, <1>6, <1>8, ForgetBlank
<1>9. /\ Owns(Local(p)) /\ head[p] = path /\ sync[p][path] = 2 * Whole(path)
      /\ Size(path) = 2 * Whole(path) + 1
    <2>1. /\ Owns(Local(p)) /\ head[p] = path /\ map[p].seq = Last /\ sync[p][path] = map[p].off
          /\ Size(path) = map[p].off + 1
          /\ \E x \in Nat : map[p].off = 2 * x /\ x = Whole(path) - 0
        BY <1>3, WriterOwns
    <2>2. Whole(path) \in Nat
        BY EndOfLog
    <2>. QED BY <2>1, <2>2
<1>10. PICK e \in Nat : e = Whole(path)
    BY EndOfLog
<1>11. PICK f \in Seq(Txns \X (1..TxnSize)) :
           /\ f = file[path].data /\ Len(f) = 2 * e + 1
           /\ \A j \in 1..e : 2 * j \in 1..Len(f) /\ f[2 * j][1] = history[b[Last] + j]
    <2>1. Size(path) = 2 * e + 1
        BY <1>9, <1>10
    <2>. QED BY <1>10, <2>1, LogRecords
<1>12. a = SubSeq(f, 1, 2 * e) /\ Rewrites(a)
    <2>1. file' = [file EXCEPT ![path].data = a] /\ nfile' = nfile /\ path' = path
        BY <1>3, <1>9
    <2>2. Min({2 * e, 2 * e + 1}) = 2 * e
        <3>1. 2 * e \in Nat /\ 2 * e + 1 \in Nat /\ 2 * e <= 2 * e + 1
            OBVIOUS
        <3>2. {2 * e, 2 * e + 1} \subseteq Nat /\ {2 * e, 2 * e + 1} # {}
            BY <3>1
        <3>3. Min({2 * e, 2 * e + 1}) \in {2 * e, 2 * e + 1}
            BY <3>2, MinNat
        <3>4. Min({2 * e, 2 * e + 1}) <= 2 * e
            BY <3>1, MinOfTwo
        <3>. QED BY <3>3, <3>4
    <2>3. a = SubSeq(f, 1, Min({2 * e, 2 * e + 1}))
        BY <1>2, <1>9, <1>10, <1>11
    <2>. QED BY <1>6, <2>1, <2>2, <2>3, RewritesIs
<1>13. Len(a) = 2 * e /\ \A j \in 1..(2 * e) : a[j] = f[j]
    <2>1. PICK z \in Nat : z = 2 * e /\ z <= Len(f)
        BY <1>11
    <2>2. a = SubSeq(f, 1, z)
        BY <1>12, <2>1
    <2>. QED BY <2>1, <2>2
<1>14. Whole(path)' = e
    <2>1. Size(path)' = Len(a)
        BY <1>12 DEF Size, Rewrites
    <2>2. (\A x \in Nat : Size(path)' \in {2 * x, 2 * x + 1} => Whole(path)' = x)
        <3>1. PICK z \in Nat : z = Size(path)'
            BY <1>10, <1>13, <2>1
        <3>2. Whole(path)' = z \div 2
            BY <3>1 DEF Whole, TxnSize
        <3>. QED BY <3>1, <3>2, WholeNumber
    <2>3. Size(path)' = 2 * e
        BY <1>13, <2>1
    <2>. QED BY <1>10, <2>2, <2>3
<1>15. Grown(c, b, c, b) /\ Chain(c, b)'
    <2>1. Len(history') = b[Last] + Whole(path)' /\ Len(history) <= Len(history') /\ history' = history
        BY <1>3, <1>10, <1>14, EndOfLog
    <2>2. \A j \in 1..e : 2 * j \in 1..(2 * e)
        BY <1>10
    <2>3. \A j \in 1..Whole(path)' : a[2 * j][1] = history'[b[Last] + j]
        BY <1>11, <1>13, <1>14, <2>1, <2>2
    <2>4. Whole(path)' \in Nat /\ Whole(path) <= Whole(path)'
        BY <1>10, <1>14
    <2>. QED BY <1>12, <2>1, <2>3, <2>4, Rewritten
<1>16. Reader(c, b, s)
    BY <1>81, BlankGood
<1>17. Owner(s)'
    BY <1>81 DEF Owner, Owns, Blank
<1>. QED BY <1>3, <1>8, <1>81, <1>9, <1>15, <1>16, <1>17, OwnerStep

(* The larger of two numbers. *)
LEMMA MaxIs ==
    ASSUME NEW m \in Nat, NEW n \in Nat, m <= n
    PROVE  Max({m, n}) = n
<1>1. \E x \in {m, n} : \A y \in {m, n} : x >= y
    OBVIOUS
<1>2. Max({m, n}) \in {m, n} /\ Max({m, n}) >= n
    BY <1>1 DEF Max
<1>. QED BY <1>2

(* A file that is not the log yet changes nothing. *)
LEMMA CreatedChain ==
    ASSUME TInv, TInv', NEW c \in Numbering, NEW b \in Numbering, Chain(c, b),
           UNCHANGED <<path, history>>, \A i \in 1..nfile : file'[i] = file[i],
           nfile \in Nat, nfile' \in Nat, nfile <= nfile'
    PROVE  Grown(c, b, c, b) /\ Chain(c, b)'
<1>1. Last \in Nat /\ Last \in 1..Last /\ c[Last] = path
    BY DEF Chain, Numbered
<1>2. ASSUME NEW k \in 1..Last
      PROVE  /\ c[k] \in 1..nfile /\ c[k] \in 1..nfile' /\ file'[c[k]] = file[c[k]]
             /\ Size(c[k])' = Size(c[k]) /\ Whole(c[k])' = Whole(c[k]) /\ Whole(c[k]) \in Nat
    <2>1. c[k] \in 1..nfile /\ Whole(c[k]) \in Nat
        BY <1>1, ChainBounds
    <2>2. file'[c[k]] = file[c[k]]
        BY <2>1
    <2>3. Size(c[k])' = Size(c[k])
        BY <2>2 DEF Size
    <2>4. Whole(c[k])' = Whole(c[k])
        BY <2>3 DEF Whole
    <2>. QED BY <2>1, <2>2, <2>3, <2>4
<1>3. Last' = Last
    BY <1>1, <1>2 DEF Last
<1>4. Len(history) \in Nat
    BY DEF TInv, Types, GhostTypes
<1>5. Growth(c, b, c, b)
    BY <1>1, <1>2, <1>3, <1>4 DEF Growth
<1>6. Grown(c, b, c, b)
    BY <1>5 DEF Grown
<1>7. Numbered(c)'
    BY <1>1, <1>2, <1>3 DEF Chain, Numbered
<1>8. Recorded(c, b)'
    BY <1>2, <1>3 DEF Chain, Recorded
<1>9. Ordered(c, b)'
    <2>1. Whole(path)' = Whole(path)
        BY <1>1, <1>2
    <2>. QED BY <1>2, <1>3, <2>1 DEF Chain, Ordered
<1>10. Linked(c, b)'
    <2>. SUFFICES ASSUME NEW k \in 1..Last, file'[c[k]].prevSeq # 0
                  PROVE  /\ k > 1
                         /\ file'[c[k]].prevSeq = k - 1
                         /\ file'[c[k]].prevOff = Size(c[k - 1])'
                         /\ Size(c[k - 1])' = 2 * Whole(c[k - 1])'
                         /\ b[k] = b[k - 1] + Whole(c[k - 1])'
        BY <1>3 DEF Linked
    <2>1. /\ k > 1 /\ file[c[k]].prevSeq = k - 1 /\ file[c[k]].prevOff = Size(c[k - 1])
          /\ Size(c[k - 1]) = 2 * Whole(c[k - 1]) /\ b[k] = b[k - 1] + Whole(c[k - 1])
        BY <1>2 DEF Chain, Linked
    <2>2. k - 1 \in 1..Last
        BY <1>1, <2>1
    <2>. QED BY <1>2, <2>1, <2>2
<1>11. Restarts(c, b)'
    BY <1>2, <1>3 DEF Chain, Restarts, After
<1>. QED BY <1>6, <1>7, <1>8, <1>9, <1>10, <1>11 DEF Chain

(* Whoever rotates owns the log. *)
LEMMA RotatorOwns ==
    ASSUME NEW c, NEW b, Calm(c, b), NEW p \in Procs, pc[p] \in Rotating \cup {"rot1"}
    PROVE  /\ Owns(Local(p)) /\ head[p] = path /\ op[p] \in {"sync", "reset"} /\ locked[p]
           /\ map[p].seq \in Nat /\ map[p].seq <= Last
           /\ op[p] = "sync" =>
                /\ map[p].seq = Last /\ sync[p][path] = map[p].off /\ Size(path) = map[p].off
                /\ map[p].hist = Effective(history) /\ seen[p] = map[p].hist
<1>1. PICK r : r = Local(p)
    OBVIOUS
<1>2. /\ r.pc = pc[p] /\ r.op = op[p] /\ r.map = map[p] /\ r.sync = sync[p] /\ r.head = head[p] /\ r.locked = locked[p]
      /\ r.seen = seen[p]
    BY <1>1, LocalFields
<1>3. Reader(c, b, r) /\ Owner(r) /\ LProc(p) /\ TInv /\ LInv /\ LocalT(r)
    BY <1>1, Before
<1>4. r.op \in {"sync", "reset"} /\ r.locked
    BY <1>2, <1>3 DEF LProc, PlacesOK, Rotating
<1>5. Owns(r)
    BY <1>2, <1>4 DEF Owns, Rotating
<1>6. head[p] = path
    BY <1>1, <1>3, <1>5, OwnsLog
<1>7. Last \in Nat
    BY EndOfLog
<1>8. r.map.seq \in Nat /\ r.map.seq <= Last
    <2>1. CASE r.map = NoMap
        BY <1>7, <2>1 DEF NoMap
    <2>2. CASE r.map # NoMap
        BY <1>3, <1>7, <2>2 DEF Reader, Fits, At
    <2>. QED BY <2>1, <2>2
<1>9. r.op = "sync" =>
        /\ r.map.seq = Last /\ r.sync[path] = r.map.off /\ Size(path) = r.map.off
        /\ r.map.hist = Effective(history) /\ r.seen = r.map.hist
    <2>. SUFFICES ASSUME r.op = "sync"
                  PROVE  /\ r.map.seq = Last /\ r.sync[path] = r.map.off /\ Size(path) = r.map.off
                         /\ r.map.hist = Effective(history) /\ r.seen = r.map.hist
        OBVIOUS
    <2>1. Ends(r) /\ AtEnd(r) /\ r.pc \notin {"write2", "fsync"}
        BY <1>2, <1>3, <1>5 DEF Owner, AtEnd, Rotating
    <2>2. r.map.off \in Nat
        BY <1>3 DEF LocalT, MapT
    <2>. QED BY <2>1, <2>2 DEF Ends
<1>. QED BY <1>1, <1>2, <1>4, <1>5, <1>6, <1>8, <1>9

(* The data stays in order when a rotation creates its file. *)
LEMMA RotateCreateData ==
    ASSUME NEW c, NEW b, Calm(c, b), NEW p \in Procs, RotateCreate(p)
    PROVE  DInv(c, b)'
<1>1. PICK n : n = nfile + 1
    OBVIOUS
<1>2. PICK h : h = NewHeader(p)
    OBVIOUS
<1>3. PICK place : place = IF op[p] = "reset" \/ path = 0 THEN "rot4" ELSE "rot2"
    OBVIOUS
<1>4. /\ pc[p] = "rot1" /\ nfile' = n /\ file' = [file EXCEPT ![n] = h]
      /\ new' = [new EXCEPT ![p] = n] /\ pc' = [pc EXCEPT ![p] = place]
      /\ UNCHANGED <<path, path2, index, op, head, locked, bad, files, sync, map, idx, view, history, seen>>
      /\ nfile < MaxFiles
    BY <1>1, <1>2, <1>3 DEF RotateCreate, Goto, ghostVars
<1>5. TInv /\ TInv' /\ Chain(c, b) /\ c \in Numbering /\ b \in Numbering /\ LInv /\ DInv(c, b)
    BY DEF Calm, Safe, DInv
<1>6. /\ Owns(Local(p)) /\ head[p] = path /\ op[p] \in {"sync", "reset"} /\ locked[p]
      /\ map[p].seq \in Nat /\ map[p].seq <= Last
      /\ op[p] = "sync" =>
           /\ map[p].seq = Last /\ sync[p][path] = map[p].off /\ Size(path) = map[p].off
           /\ map[p].hist = Effective(history) /\ seen[p] = map[p].hist
    BY <1>4, RotatorOwns
<1>7. path \in 1..nfile /\ Last \in Nat /\ path # 0 /\ nfile \in Nat /\ n \in Inodes
    <2>1. path \in 1..nfile /\ Last \in Nat /\ nfile \in Nat
        BY EndOfLog, InodesNat DEF Calm, Safe, TInv, Types, DiskTypes
    <2>. QED BY <1>1, <1>4, <2>1, LogAssumption DEF Inodes
<1>8. /\ h.seq = Last + 1 /\ h.data = <<>>
      /\ op[p] = "reset" => h.prevSeq = 0
      /\ op[p] = "sync" => h.prevSeq = Last /\ h.prevOff = Size(path)
    <2>1. Max({map[p].seq, file[head[p]].seq}) = Last
        BY <1>6, <1>7, MaxIs DEF Last
    <2>2. StartsOver(p) <=> op[p] = "reset"
        BY <1>7 DEF StartsOver
    <2>3. /\ h.seq = Max({map[p].seq, file[head[p]].seq}) + 1 /\ h.data = <<>>
          /\ h.prevSeq = (IF StartsOver(p) THEN 0 ELSE map[p].seq)
          /\ h.prevOff = (IF StartsOver(p) THEN 0 ELSE map[p].off)
        BY <1>2 DEF NewHeader, NoFile
    <2>. QED BY <1>6, <2>1, <2>2, <2>3
<1>9. /\ \A i \in 1..nfile : file'[i] = file[i]
      /\ file'[n] = h /\ nfile' \in Nat /\ nfile <= nfile'
    <2>1. \A i \in 1..nfile : i # n /\ i \in Inodes
        BY <1>1, <1>5, <1>7, Allocated DEF TInv, Types
    <2>. QED BY <1>1, <1>4, <1>5, <1>7, <2>1 DEF TInv, Types, DiskTypes
<1>10. Grown(c, b, c, b) /\ Chain(c, b)'
    BY <1>4, <1>5, <1>7, <1>9, CreatedChain
<1>11. Others(p)
    BY <1>4, <1>5 DEF TInv, Types, MemTypes, GhostTypes, OthersStay, Others
<1>12. PICK r : r = Local(p)
    OBVIOUS
<1>13. PICK s : s = Local(p)'
    OBVIOUS
<1>14. pc'[p] = place /\ new'[p] = n /\ place \in {"rot2", "rot4"}
    BY <1>3, <1>4, <1>5 DEF TInv, Types, MemTypes
<1>15. /\ op'[p] = op[p] /\ head'[p] = head[p] /\ locked'[p] = locked[p] /\ bad'[p] = bad[p] /\ files'[p] = files[p]
       /\ sync'[p] = sync[p] /\ map'[p] = map[p] /\ seen'[p] = seen[p] /\ view'[p] = view[p]
    BY <1>4
<1>16. /\ r.pc = "rot1" /\ s.pc \in {"rot2", "rot4"} /\ s.view = r.view /\ s.op = r.op /\ s.op = op[p] /\ s.new = n
       /\ s.head = r.head /\ s.locked = r.locked /\ s.bad = r.bad /\ s.files = r.files /\ s.sync = sync[p]
       /\ s.map = r.map /\ s.map = map[p] /\ s.seen = r.seen /\ s.seen = seen[p]
    BY <1>4, <1>12, <1>13, <1>14, <1>15, LocalFields, LocalNext
<1>17. Reader(c, b, r)
    BY <1>12, Before
<1>18. OpsOK(s) /\ ViewOK(s)
    BY <1>6, <1>16, <1>17 DEF Reader, OpsOK, ViewOK
<1>19. Reader(c, b, s)
    BY <1>16, <1>17, <1>18, Moves DEF Reader
<1>20. Owner(s)'
    <2>1. Last' = Last /\ path' = path /\ history' = history /\ Size(path)' = Size(path)
        <3>1. file'[path] = file[path] /\ path' = path /\ history' = history
            BY <1>4, <1>7, <1>9
        <3>. QED BY <3>1 DEF Last, Size
    <2>2. Ends(s)'
        <3>1. AtEnd(s) => s.op = "sync"
            BY <1>16 DEF AtEnd
        <3>2. map[p].off \in Nat
            BY <1>5, MapOf DEF TInv, Types, MemTypes
        <3>. QED BY <1>6, <1>16, <2>1, <3>1, <3>2 DEF Ends, AtEnd
    <2>3. NewIs(s)'
        BY <1>8, <1>9, <1>16, <2>1 DEF NewIs
    <2>. QED BY <1>16, <2>2, <2>3 DEF Owner, MappedAll, Reopened
<1>. QED BY <1>4, <1>6, <1>10, <1>11, <1>13, <1>19, <1>20, OwnerStep

(* The new file becomes the log. *)
Publishes(c, b, d, e, n) ==
    /\ path' = n /\ file' = file /\ nfile' = nfile
    /\ n \in 1..nfile /\ file[n].seq = Last + 1 /\ file[n].data = <<>>
    /\ d = [c EXCEPT ![Last + 1] = n]
    /\ e = [b EXCEPT ![Last + 1] = Len(history')]
    /\ \/ /\ history' = history
          /\ file[n].prevSeq = Last /\ file[n].prevOff = Size(path) /\ Size(path) = 2 * Whole(path)
       \/ history' = Append(history, Reset) /\ file[n].prevSeq = 0

(* What a publication does to the numbering. *)
LEMMA PublishesIs ==
    ASSUME NEW c, NEW b, Calm(c, b), NEW d, NEW e, NEW n, Publishes(c, b, d, e, n)
    PROVE  /\ d \in Numbering /\ e \in Numbering
           /\ Last' = Last + 1 /\ d[Last + 1] = n /\ e[Last + 1] = Len(history')
           /\ \A k \in 1..Last : d[k] = c[k] /\ e[k] = b[k]
           /\ Whole(n)' = 0 /\ Size(n)' = 0
           /\ Len(history') \in Nat /\ Len(history) <= Len(history')
           /\ \A k \in 1..Len(history) : history'[k] = history[k]
           /\ history' = history \/ (Len(history') = Len(history) + 1 /\ history'[Len(history')] = Reset)
<1>. USE DEF Publishes
<1>1. TInv' /\ c \in Numbering /\ b \in Numbering /\ Last \in Nat /\ Last + 1 \in Nat /\ nfile \in Nat
    BY EndOfLog, InodesNat DEF Calm, Safe, TInv, Types, DiskTypes
<1>2. Len(history') \in Nat /\ history \in Seq(Entries) /\ Len(history) \in Nat
    BY <1>1, EndOfLog DEF TInv, Types, GhostTypes
<1>3. n \in Nat
    BY <1>1
<1>4. PICK m \in Nat : m = Len(history')
    BY <1>2
<1>5. PICK l \in Nat : l = Last + 1 /\ l \notin 1..Last
    BY <1>1
<1>6. d = [c EXCEPT ![l] = n] /\ e = [b EXCEPT ![l] = m]
    BY <1>4, <1>5
<1>7. d \in Numbering /\ e \in Numbering /\ d[l] = n /\ e[l] = m /\ \A k \in Nat : k # l => d[k] = c[k] /\ e[k] = b[k]
    <2>. HIDE DEF Publishes
    <2>1. d \in Numbering /\ d[l] = n /\ \A k \in Nat : k # l => d[k] = c[k]
        BY <1>1, <1>3, <1>6 DEF Numbering
    <2>2. e \in Numbering /\ e[l] = m /\ \A k \in Nat : k # l => e[k] = b[k]
        BY <1>1, <1>4, <1>6 DEF Numbering
    <2>. QED BY <2>1, <2>2
<1>8. \A k \in 1..Last : d[k] = c[k] /\ e[k] = b[k]
    BY <1>1, <1>5, <1>7
<1>9. Last' = Last + 1
    BY DEF Last
<1>10. Size(n)' = 0
    BY DEF Size
<1>11. Whole(n)' = 0
    <2>1. Whole(n)' = 0 \div 2
        BY <1>10 DEF Whole, TxnSize
    <2>. QED BY <2>1
<1>12. /\ Len(history) <= Len(history')
       /\ \A k \in 1..Len(history) : history'[k] = history[k]
       /\ history' = history \/ (Len(history') = Len(history) + 1 /\ history'[Len(history')] = Reset)
    <2>1. CASE history' = history
        BY <1>2, <2>1
    <2>2. CASE history' = Append(history, Reset)
        <3>1. Reset \in Entries
            BY DEF Entries
        <3>2. PICK g \in Seq(Entries) : g = history
            BY <1>2
        <3>3. Len(Append(g, Reset)) = Len(g) + 1 /\ (\A k \in 1..Len(g) : Append(g, Reset)[k] = g[k]) /\ Append(g, Reset)[Len(g) + 1] = Reset
            BY <3>1
        <3>4. history' = Append(g, Reset)
            BY <2>2, <3>2
        <3>. QED BY <1>2, <3>2, <3>3, <3>4
    <2>. QED BY <2>1, <2>2
<1>. QED BY <1>2, <1>4, <1>5, <1>7, <1>8, <1>9, <1>10, <1>11, <1>12

(* The files are in order with the new log as the last one. *)
LEMMA Published ==
    ASSUME NEW c, NEW b, Calm(c, b), NEW d, NEW e, NEW n, Publishes(c, b, d, e, n)
    PROVE  Grown(c, b, d, e) /\ Chain(d, e)'
<1>1. /\ d \in Numbering /\ e \in Numbering
      /\ Last' = Last + 1 /\ d[Last + 1] = n /\ e[Last + 1] = Len(history')
      /\ \A k \in 1..Last : d[k] = c[k] /\ e[k] = b[k]
      /\ Whole(n)' = 0 /\ Size(n)' = 0
      /\ Len(history') \in Nat /\ Len(history) <= Len(history')
      /\ \A k \in 1..Len(history) : history'[k] = history[k]
      /\ history' = history \/ (Len(history') = Len(history) + 1 /\ history'[Len(history')] = Reset)
    BY PublishesIs
<1>2. /\ TInv /\ TInv' /\ Chain(c, b) /\ c \in Numbering /\ b \in Numbering
    BY DEF Calm, Safe, DInv
<1>3. Last \in Nat /\ Last \in 1..Last /\ c[Last] = path /\ b[Last] \in Nat /\ Len(history) \in Nat
      /\ Whole(path) \in Nat /\ Len(history) = b[Last] + Whole(path)
    BY EndOfLog
<1>4. ASSUME NEW k \in 1..Last
      PROVE  /\ k \in Nat /\ c[k] \in 1..nfile /\ file[c[k]].seq = k /\ d[k] = c[k] /\ e[k] = b[k] /\ b[k] \in Nat
             /\ Size(c[k])' = Size(c[k]) /\ Whole(c[k])' = Whole(c[k]) /\ Whole(c[k]) \in Nat
             /\ b[k] + Whole(c[k]) <= Len(history)
    <2>1. /\ c[k] \in 1..nfile /\ file[c[k]].seq = k /\ b[k] \in Nat /\ Whole(c[k]) \in Nat
          /\ b[k] + Whole(c[k]) <= Len(history)
        BY <1>2, ChainBounds
    <2>2. Size(c[k])' = Size(c[k])
        BY DEF Publishes, Size
    <2>3. Whole(c[k])' = Whole(c[k])
        BY <2>2 DEF Whole
    <2>. QED BY <1>1, <1>3, <2>1, <2>2, <2>3
<1>5. Growth(c, b, d, e)
    <2>1. Last' \in Nat /\ Last <= Last'
        BY <1>1, <1>3
    <2>2. \A k \in 1..Last : Whole(c[k]) <= Whole(c[k])' /\ Whole(c[k])' \in Nat
        BY <1>4
    <2>3. file' = file /\ nfile' = nfile
        BY DEF Publishes
    <2>. QED BY <1>1, <1>3, <2>1, <2>2, <2>3 DEF Growth
<1>6. Grown(c, b, d, e)
    BY <1>1, <1>2, <1>5 DEF Grown
<1>7. file' = file /\ nfile' = nfile /\ path' = n /\ n \in 1..nfile /\ file[n].seq = Last + 1
    BY DEF Publishes
<1>8. PICK l \in Nat : l = Last + 1 /\ l > Last /\ l > 0 /\ \A k \in 1..l : k = l \/ k \in 1..Last
    BY <1>3
<1>9. Last' = l /\ d[l] = n /\ e[l] = Len(history') /\ l \in 1..l
    BY <1>1, <1>8
<1>10. Numbered(d)'
    <2>1. \A k \in 1..l : d[k] \in 1..nfile /\ file[d[k]].seq = k
        BY <1>4, <1>7, <1>8, <1>9
    <2>. QED BY <1>7, <1>8, <1>9, <2>1 DEF Numbered
<1>11. Recorded(d, e)'
    <2>. SUFFICES ASSUME NEW k \in 1..l, NEW j \in 1..(Whole(d[k])')
                  PROVE  e[k] + j <= Len(history') /\ file[d[k]].data[2 * j][1] = history'[e[k] + j]
        BY <1>7, <1>9 DEF Recorded
    <2>1. k # l
        <3>1. CASE k = l
            <4>1. Whole(d[k])' = 0
                BY <1>1, <1>9, <3>1
            <4>. QED BY <4>1
        <3>. QED BY <3>1
    <2>2. k \in 1..Last
        BY <1>8, <2>1
    <2>3. d[k] = c[k] /\ e[k] = b[k] /\ Whole(d[k])' = Whole(c[k])
        BY <1>4, <2>2
    <2>4. b[k] + j <= Len(history) /\ file[c[k]].data[2 * j][1] = history[b[k] + j]
        BY <1>2, <2>2, <2>3 DEF Chain, Recorded
    <2>5. b[k] + j \in 1..Len(history)
        <3>1. PICK x \in Nat, w \in Nat : x = b[k] /\ w = Whole(d[k])'
            BY <1>4, <2>2, <2>3
        <3>2. j \in 1..w
            BY <3>1
        <3>. QED BY <1>3, <2>4, <3>1, <3>2
    <2>6. history'[b[k] + j] = history[b[k] + j] /\ b[k] + j <= Len(history')
        BY <1>1, <1>3, <2>5
    <2>. QED BY <2>3, <2>4, <2>6
<1>12. Ordered(d, e)'
    <2>1. Len(history') = e[l] + Whole(n)'
        BY <1>1, <1>9
    <2>2. ASSUME NEW j \in 1..l, NEW k \in 1..l, j < k PROVE e[j] + Whole(d[j])' <= e[k]
        <3>1. j \in 1..Last
            BY <1>3, <1>8, <2>2
        <3>2. e[j] = b[j] /\ Whole(d[j])' = Whole(c[j]) /\ b[j] + Whole(c[j]) <= Len(history)
            BY <1>4, <3>1
        <3>3. CASE k = l
            <4>1. b[j] + Whole(c[j]) <= Len(history')
                BY <1>1, <1>3, <1>4, <3>1, <3>2
            <4>. QED BY <1>9, <3>2, <3>3, <4>1
        <3>4. CASE k # l
            <4>1. k \in 1..Last
                BY <1>8, <3>4
            <4>. QED BY <1>2, <1>4, <2>2, <3>1, <3>2, <4>1 DEF Chain, Ordered
        <3>. QED BY <3>3, <3>4
    <2>. QED BY <1>7, <1>9, <2>1, <2>2 DEF Ordered
<1>13. Linked(d, e)'
    <2>. SUFFICES ASSUME NEW k \in 1..l, file[d[k]].prevSeq # 0
                  PROVE  /\ k > 1
                         /\ file[d[k]].prevSeq = k - 1
                         /\ file[d[k]].prevOff = Size(d[k - 1])'
                         /\ Size(d[k - 1])' = 2 * Whole(d[k - 1])'
                         /\ e[k] = e[k - 1] + Whole(d[k - 1])'
        BY <1>7, <1>9 DEF Linked
    <2>1. CASE k = l
        <3>1. file[n].prevSeq # 0
            BY <1>9, <2>1
        <3>2. history' = history /\ file[n].prevSeq = Last /\ file[n].prevOff = Size(path) /\ Size(path) = 2 * Whole(path)
            BY <3>1 DEF Publishes
        <3>3. k - 1 = Last /\ k > 1
            BY <1>3, <1>8, <2>1
        <3>4. PICK q \in 1..Last : q = Last
            BY <1>3
        <3>41. d[q] = path /\ e[q] = b[q] /\ Size(d[q])' = Size(path) /\ Whole(d[q])' = Whole(path)
            BY <1>3, <1>4, <3>4
        <3>42. k - 1 = q
            BY <3>3, <3>4
        <3>5. e[k] = b[Last] + Whole(path)
            BY <1>3, <1>9, <2>1, <3>2
        <3>. QED BY <1>9, <2>1, <3>2, <3>3, <3>4, <3>41, <3>42, <3>5
    <2>2. CASE k # l
        <3>1. k \in 1..Last
            BY <1>8, <2>2
        <3>2. d[k] = c[k] /\ e[k] = b[k]
            BY <1>4, <3>1
        <3>3. /\ k > 1 /\ file[c[k]].prevSeq = k - 1 /\ file[c[k]].prevOff = Size(c[k - 1])
              /\ Size(c[k - 1]) = 2 * Whole(c[k - 1]) /\ b[k] = b[k - 1] + Whole(c[k - 1])
            BY <1>2, <3>1, <3>2 DEF Chain, Linked
        <3>4. k - 1 \in 1..Last
            BY <1>3, <3>1, <3>3
        <3>5. d[k - 1] = c[k - 1] /\ e[k - 1] = b[k - 1] /\ Size(d[k - 1])' = Size(c[k - 1]) /\ Whole(d[k - 1])' = Whole(c[k - 1])
            BY <1>4, <3>4
        <3>. QED BY <3>2, <3>3, <3>5
    <2>. QED BY <2>1, <2>2
<1>14. Restarts(d, e)'
    <2>. SUFFICES ASSUME NEW k \in 1..l, file[d[k]].prevSeq = 0
                  PROVE  After(e[k])' = <<>>
        BY <1>7, <1>9 DEF Restarts
    <2>1. CASE k = l
        <3>1. file[n].prevSeq # Last
            BY <1>3, <1>9, <2>1
        <3>2. history' = Append(history, Reset)
            BY <3>1 DEF Publishes
        <3>3. history'[Len(history')] = Reset
            <4>1. CASE history' = history
                <5>1. Len(Append(history, Reset)) = Len(history) + 1
                    BY EndOfLog DEF Entries
                <5>. QED BY <1>3, <3>2, <4>1, <5>1
            <4>. QED BY <1>1, <4>1
        <3>4. PICK g : g = history'
            OBVIOUS
        <3>5. g \in Seq(Entries) /\ Len(g) \in 0..Len(g)
            BY <1>1, <1>2, <3>4 DEF TInv, Types, GhostTypes, Entries
        <3>6. Upto(g, Len(g)) = <<>>
            BY <3>3, <3>4, <3>5, UptoReset
        <3>7. After(e[k])' = Upto(g, Len(g))
            BY <1>9, <2>1, <3>4 DEF After
        <3>. QED BY <3>6, <3>7
    <2>2. CASE k # l
        <3>1. k \in 1..Last
            BY <1>8, <2>2
        <3>2. d[k] = c[k] /\ e[k] = b[k] /\ b[k] \in 0..Len(history)
            BY <1>3, <1>4, <3>1
        <3>3. After(b[k]) = <<>>
            BY <1>2, <3>1, <3>2 DEF Chain, Restarts
        <3>4. After(b[k])' = After(b[k])
            BY <1>2, <1>5, <3>2, AfterStays
        <3>. QED BY <3>2, <3>3, <3>4
    <2>. QED BY <2>1, <2>2
<1>. QED BY <1>6, <1>10, <1>11, <1>12, <1>13, <1>14 DEF Chain

(* The data stays in order when a rotation publishes its file. *)
LEMMA RotateRenameData ==
    ASSUME NEW c, NEW b, Calm(c, b), NEW p \in Procs, RotateRename(p)
    PROVE  \E d \in Numbering : \E e \in Numbering : DInv(d, e)'
<1>1. PICK n : n = new[p]
    OBVIOUS
<1>2. PICK m : m = map'[p]
    OBVIOUS
<1>3. /\ pc[p] = "rot4" /\ path' = n /\ head' = [head EXCEPT ![p] = n]
      /\ new' = [new EXCEPT ![p] = 0] /\ bad' = [bad EXCEPT ![p] = FALSE]
      /\ files' = [files EXCEPT ![p] = {n}]
      /\ sync' = [sync EXCEPT ![p] = [j \in Inodes |-> IF j = 0 THEN 0 ELSE 0]]
      /\ UNCHANGED <<file, nfile, path2, index, locked, idx, view, seen>>
    BY <1>1 DEF RotateRename, Only
<1>4. \/ /\ op[p] = "reset" /\ op' = [op EXCEPT ![p] = "fill"] /\ history' = Append(history, Reset)
         /\ pc' = [pc EXCEPT ![p] = "view"] /\ map' = map
      \/ /\ op[p] # "reset" /\ op' = op /\ history' = history /\ pc' = [pc EXCEPT ![p] = "rotated"]
         /\ map' = [map EXCEPT ![p].seq = file[n].seq, ![p].off = 0]
    BY <1>1 DEF RotateRename, Goto
<1>5. TInv /\ TInv' /\ Chain(c, b) /\ c \in Numbering /\ b \in Numbering /\ LInv /\ DInv(c, b)
    BY DEF Calm, Safe, DInv
<1>6. /\ Owns(Local(p)) /\ head[p] = path /\ op[p] \in {"sync", "reset"} /\ locked[p]
      /\ op[p] = "sync" =>
           /\ map[p].seq = Last /\ sync[p][path] = map[p].off /\ Size(path) = map[p].off
           /\ map[p].hist = Effective(history) /\ seen[p] = map[p].hist
    BY <1>3, RotatorOwns DEF Rotating
<1>7. /\ history \in Seq(Entries) /\ Len(history) \in Nat
      /\ Last \in 1..Last /\ Last \in Nat /\ c[Last] = path /\ path \in Inodes
      /\ b[Last] \in Nat /\ Whole(path) \in Nat /\ Len(history) = b[Last] + Whole(path)
      /\ After(Len(history)) = Effective(history)
    BY EndOfLog
<1>8. n \in 1..nfile /\ n \in Inodes
    <2>1. n # 0 /\ n \in 0..nfile /\ nfile \in Nat
        BY <1>1, <1>3, <1>5, InodesNat DEF TInv, ProcOK, HandlesOK, Types, DiskTypes, Rotating
    <2>2. n \in 1..nfile
        BY <2>1
    <2>. QED BY <1>5, <2>2, Allocated DEF TInv, Types
<1>9. PICK r : r = Local(p)
    OBVIOUS
<1>10. /\ r.pc = "rot4" /\ r.op = op[p] /\ r.new = n /\ r.map = map[p] /\ r.view = view[p] /\ r.seen = seen[p] /\ r.head = path
       /\ Reader(c, b, r) /\ Owner(r) /\ Owns(r)
    BY <1>1, <1>3, <1>6, <1>9, LocalFields, Before
<1>11. /\ file[n].seq = Last + 1 /\ file[n].data = <<>>
       /\ op[p] = "reset" => file[n].prevSeq = 0
       /\ op[p] = "sync" => file[n].prevSeq = Last /\ file[n].prevOff = Size(path)
    BY <1>10 DEF Owner, NewIs, Rotating
<1>12. op[p] = "sync" => Size(path) = 2 * Whole(path)
    <2>. SUFFICES ASSUME op[p] = "sync" PROVE Size(path) = 2 * Whole(path)
        OBVIOUS
    <2>1. r.map # NoMap
        BY <1>6, <1>7, <1>10 DEF NoMap
    <2>2. PICK x \in 0..Whole(path) : r.map.off = 2 * x
        BY <1>6, <1>7, <1>10, <2>1 DEF Reader, Fits, At
    <2>3. x \in Nat /\ Size(path) = 2 * x
        BY <1>6, <1>7, <1>10, <2>2
    <2>4. Whole(path) = x
        BY <1>5, <1>7, <2>3, WholeOK
    <2>. QED BY <2>3, <2>4
<1>13. PICK d : d = [c EXCEPT ![Last + 1] = n]
    OBVIOUS
<1>14. PICK e : e = [b EXCEPT ![Last + 1] = Len(history')]
    OBVIOUS
<1>15. Publishes(c, b, d, e, n)
    BY <1>3, <1>4, <1>6, <1>8, <1>11, <1>12, <1>13, <1>14 DEF Publishes
<1>16. /\ d \in Numbering /\ e \in Numbering
       /\ Last' = Last + 1 /\ d[Last + 1] = n /\ e[Last + 1] = Len(history')
       /\ Whole(n)' = 0 /\ Size(n)' = 0
       /\ Len(history') \in Nat /\ Len(history) <= Len(history')
    BY <1>15, PublishesIs
<1>17. Grown(c, b, d, e) /\ Chain(d, e)'
    BY <1>15, Published
<1>18. Others(p)
    BY <1>3, <1>4, <1>5 DEF TInv, Types, MemTypes, GhostTypes, OthersStay, Others
<1>19. Fits(d, e, index)' /\ (path2' # 0 => Known(d, path2)')
    <2>1. PICK x : x = index
        OBVIOUS
    <2>2. PICK i : i = path2
        OBVIOUS
    <2>3. Fits(d, e, x)' /\ (i # 0 => Known(d, i)')
        BY <1>5, <1>17, <2>1, <2>2, FitsStays, KnownStays DEF DInv
    <2>. QED BY <1>3, <2>1, <2>2, <2>3
<1>20. PICK s : s = Local(p)'
    OBVIOUS
<1>21. /\ head'[p] = n /\ files'[p] = {n} /\ view'[p] = view[p] /\ seen'[p] = seen[p]
       /\ sync'[p] = [j \in Inodes |-> IF j = 0 THEN 0 ELSE 0]
    BY <1>3, <1>5 DEF TInv, Types, MemTypes, GhostTypes
<1>22. ~bad'[p] /\ (locked'[p] <=> locked[p])
    BY <1>3, <1>5, Zenon DEF TInv, Types, MemTypes
<1>23. \/ op[p] = "reset" /\ op'[p] = "fill" /\ pc'[p] = "view" /\ m = map[p]
       \/ op[p] = "sync" /\ op'[p] = "sync" /\ pc'[p] = "rotated" /\ m.seq = file[n].seq /\ m.off = 0 /\ m.hist = map[p].hist
    <2>1. CASE op[p] = "reset"
        BY <1>2, <1>4, <1>5, <2>1 DEF TInv, Types, MemTypes
    <2>2. CASE op[p] # "reset"
        <3>1. op'[p] = "sync" /\ pc'[p] = "rotated"
            BY <1>4, <1>5, <1>6, <2>2 DEF TInv, Types, MemTypes
        <3>2. PICK t \in MapT : t = map[p]
            BY <1>5 DEF TInv, Types, MemTypes
        <3>3. PICK u : u = [t EXCEPT !.seq = file[n].seq, !.off = 0]
            OBVIOUS
        <3>4. map' = [map EXCEPT ![p] = u]
            BY <1>4, <2>2, <3>2, <3>3
        <3>5. m = u
            BY <1>2, <1>5, <3>4 DEF TInv, Types, MemTypes
        <3>6. u.seq = file[n].seq /\ u.off = 0 /\ u.hist = t.hist
            BY <3>3 DEF MapT
        <3>. QED BY <1>6, <2>2, <3>1, <3>2, <3>5, <3>6
    <2>. QED BY <2>1, <2>2
<1>24. /\ s.head = n /\ s.files = {n} /\ s.view = r.view /\ s.seen = r.seen /\ s.map = m
       /\ s.sync[n] = 0
       /\ \/ r.op = "reset" /\ s.op = "fill" /\ s.pc = "view"
          \/ r.op = "sync" /\ s.op = "sync" /\ s.pc = "rotated"
    <2>1. [j \in Inodes |-> IF j = 0 THEN 0 ELSE 0][n] = 0
        BY <1>8
    <2>. QED BY <1>2, <1>10, <1>20, <1>21, <1>23, <2>1, LocalNext
<1>25. ~s.bad /\ s.locked
    BY <1>6, <1>20, <1>22, LocalNext
<1>26. OpsOK(s) /\ ViewOK(s) /\ s.view.tail = 0 /\ s.view.tries = 0 /\ s.view.got = <<>>
    <2>1. r.view.tail = 0 /\ r.view.tries = 0 /\ r.view.got = <<>>
        BY <1>6, <1>10 DEF Reader, ViewOK
    <2>. QED BY <1>24, <1>25, <2>1 DEF OpsOK, ViewOK
<1>27. path' = n /\ file' = file /\ nfile' = nfile /\ Last \in 1..(Last + 1) /\ Last + 1 \in 1..(Last + 1)
    BY <1>3, <1>7
<1>28. Known(d, n)'
    <2>1. file'[n].seq = Last + 1 /\ Last' = Last + 1 /\ n \in 1..nfile'
        BY <1>8, <1>11, <1>16, <1>27
    <2>. QED BY <1>16, <1>27, <2>1 DEF Known
<1>29. Fits(d, e, s.map)'
    <2>1. CASE r.op = "reset"
        <3>1. s.map = r.map
            BY <1>10, <1>23, <1>24, <2>1
        <3>2. PICK x : x = r.map
            OBVIOUS
        <3>3. Fits(d, e, x)'
            BY <1>10, <1>17, <3>2, FitsStays DEF Reader
        <3>. QED BY <3>1, <3>2, <3>3
    <2>2. CASE r.op = "sync"
        <3>1. m.seq = Last + 1 /\ m.off = 0 /\ m.hist = After(Len(history)) /\ history' = history
            BY <1>4, <1>6, <1>7, <1>10, <1>11, <1>23, <2>2
        <3>2. PICK q : q = Last + 1
            OBVIOUS
        <3>3. q \in 1..Last' /\ Whole(d[q])' = 0 /\ After(e[q] + 0)' = m.hist
            <4>1. d[q] = n /\ e[q] = Len(history') /\ q = Last'
                BY <1>16, <3>2
            <4>2. After(Len(history))' = After(Len(history))
                BY <3>1 DEF After
            <4>3. After(e[q] + 0)' = After(Len(history))'
                <5>1. e[q] + 0 = Len(history')
                    BY <1>16, <4>1
                <5>. QED BY <5>1
            <4>. QED BY <1>16, <1>27, <3>1, <3>2, <4>1, <4>2, <4>3
        <3>4. m.seq = q /\ m.off = 2 * 0
            BY <3>1, <3>2
        <3>5. 0 \in 0..Whole(d[q])'
            BY <3>3
        <3>6. At(d, e, m.seq, m.off, m.hist)'
            <4>1. At(d, e, q, m.off, m.hist)'
                BY <3>3, <3>4, <3>5 DEF At
            <4>. QED BY <3>4, <4>1
        <3>. QED BY <1>24, <3>6 DEF Fits
    <2>. QED BY <1>6, <1>10, <2>1, <2>2
<1>30. Seen(d, e, s)'
    <2>1. PICK x \in 0..(b[Last] + Whole(path)) : r.seen = After(x)
        BY <1>10 DEF Reader, Seen, Last
    <2>2. x \in 0..Len(history)
        BY <1>7, <2>1
    <2>3. After(x)' = After(x)
        BY <1>5, <1>17, <2>2, AfterStays DEF Grown
    <2>4. PICK q : q = Last + 1
        OBVIOUS
    <2>5. file'[n].seq = q /\ e[q] + Whole(n)' = Len(history')
        BY <1>11, <1>16, <1>27, <2>4
    <2>6. x \in 0..(e[file'[n].seq] + Whole(n)')
        BY <1>7, <1>16, <2>2, <2>5
    <2>. QED BY <1>24, <2>1, <2>3, <2>6 DEF Seen
<1>31. Reader(d, e, s)'
    <2>1. Viewing(d, e, s)' /\ Mapped(d, e, s)'
        BY <1>24, <1>26 DEF Viewing, Mapped
    <2>2. (\A i \in s.files : Known(d, i))'
        BY <1>24, <1>28
    <2>3. OpsOK(s)' /\ ViewOK(s)'
        BY <1>26 DEF OpsOK, ViewOK
    <2>. QED BY <1>24, <1>25, <1>29, <1>30, <2>1, <2>2, <2>3 DEF Reader
<1>32. Owner(s)'
    <2>1. Ends(s)'
        <3>1. CASE r.op = "reset"
            BY <1>24, <3>1 DEF Ends, AtEnd, Rotating
        <3>2. CASE r.op = "sync"
            <4>1. history' = history /\ m.seq = Last + 1 /\ m.off = 0 /\ m.hist = Effective(history) /\ s.seen = m.hist
                BY <1>4, <1>6, <1>10, <1>11, <1>23, <1>24, <3>2
            <4>. QED BY <1>16, <1>24, <1>27, <3>2, <4>1 DEF Ends, AtEnd
        <3>. QED BY <1>6, <1>10, <3>1, <3>2
    <2>2. NewIs(s)' /\ MappedAll(s)' /\ Reopened(s)'
        BY <1>24, <1>26 DEF NewIs, MappedAll, Reopened, Rotating
    <2>. QED BY <2>1, <2>2 DEF Owner
<1>33. Good(d, e, Local(p))'
    BY <1>20, <1>31, <1>32 DEF Good
<1>34. DInv(d, e)'
    BY <1>5, <1>6, <1>17, <1>18, <1>19, <1>33, DStep
<1>. QED BY <1>16, <1>34

(* A file that is marked corrupted stays so. *)
OkStays == nfile \in Nat /\ nfile' \in Nat /\ nfile <= nfile' /\ \A i \in 1..nfile : file'[i].ok => file[i].ok

(* Writing marks nothing as sound. *)
LEMMA DataOkStays ==
    ASSUME TInv, NEW h \in Inodes, NEW a, file' = [file EXCEPT ![h].data = a], nfile' = nfile
    PROVE  OkStays
<1>1. nfile \in Nat /\ (\A i \in 1..nfile : i \in Inodes) /\ file \in [Inodes -> FileT]
    BY InodesNat, Allocated DEF TInv, Types, DiskTypes
<1>2. PICK f \in FileT : f = file[h]
    BY <1>1
<1>3. PICK g : g = [f EXCEPT !.data = a]
    OBVIOUS
<1>4. g.ok = f.ok
    BY <1>3 DEF FileT
<1>5. file' = [file EXCEPT ![h] = g]
    BY <1>2, <1>3
<1>6. \A i \in Inodes : file'[i] = IF i = h THEN g ELSE file[i]
    BY <1>1, <1>5
<1>. QED BY <1>1, <1>2, <1>4, <1>6 DEF OkStays

(* Marking a file as corrupted does not, either. *)
LEMMA MarkOkStays ==
    ASSUME TInv, NEW h \in Inodes, file' = [file EXCEPT ![h].ok = FALSE], nfile' = nfile
    PROVE  OkStays /\ ~file'[h].ok
<1>1. nfile \in Nat /\ (\A i \in 1..nfile : i \in Inodes) /\ file \in [Inodes -> FileT]
    BY InodesNat, Allocated DEF TInv, Types, DiskTypes
<1>2. PICK f \in FileT : f = file[h]
    BY <1>1
<1>3. PICK g : g = [f EXCEPT !.ok = FALSE]
    OBVIOUS
<1>4. ~g.ok
    BY <1>3 DEF FileT
<1>5. file' = [file EXCEPT ![h] = g]
    BY <1>2, <1>3
<1>6. \A i \in Inodes : file'[i] = IF i = h THEN g ELSE file[i]
    BY <1>1, <1>5
<1>. QED BY <1>1, <1>2, <1>4, <1>6 DEF OkStays

(* Nor does a new file. *)
LEMMA NewOkStays ==
    ASSUME TInv, TInv', NEW h, nfile' = nfile + 1, file' = [file EXCEPT ![nfile'] = h]
    PROVE  OkStays
<1>1. nfile \in Nat /\ (\A i \in 1..nfile : i \in Inodes) /\ file \in [Inodes -> FileT]
    BY InodesNat, Allocated DEF TInv, Types, DiskTypes
<1>2. \A i \in 1..nfile : i # nfile'
    BY <1>1
<1>. QED BY <1>1, <1>2 DEF OkStays

(* Nor does a step that changes no file. *)
LEMMA SameOkStays ==
    ASSUME TInv, file' = file, nfile' = nfile
    PROVE  OkStays
<1>1. nfile \in Nat
    BY InodesNat DEF TInv, Types, DiskTypes
<1>. QED BY <1>1 DEF OkStays

(* Nor does cutting a file short. *)
LEMMA TruncatedOkStays ==
    ASSUME TInv, NEW p \in Procs, pc[p] \notin NoLogPlaces, file' = Truncated(p), nfile' = nfile
    PROVE  OkStays
<1>1. head[p] \in Inodes
    BY HeadOK
<1>2. PICK a : a = SubSeq(file[head[p]].data, 1, Min({sync[p][head[p]], Len(file[head[p]].data)}))
    OBVIOUS
<1>3. file' = file \/ file' = [file EXCEPT ![head[p]].data = a]
    BY <1>2 DEF Truncated
<1>. QED BY <1>1, <1>3, SameOkStays, DataOkStays

(* Bookkeeping of what has gone wrong: it is not undone. *)
LEMMA FlawsStay ==
    ASSUME TInv, TInv', Next
    PROVE  OkStays /\ (loss => loss')
<1>1. PICK p \in Procs : Work(p) \/ Other(p)
    BY DEF Next
<1>2. loss => loss'
    <2>1. CASE Other(p)
        BY <2>1 DEF Other, OpenLog, OpenCorrupted, Close, Begin, Refresh, Crash, CrashInWrite, WriteFail, FsyncFail,
               RotateFail, IndexWriteFail, MoveToMemory, ghostVars, diskVars
    <2>2. CASE \/ OpenNoLog(p) \/ CreateUse(p) \/ CreateNew(p) \/ CreateFail(p) \/ OpenIndex(p)
               \/ Acquire(p) \/ Timeout(p) \/ CheckChanged(p) \/ CheckUnusable(p) \/ LogGone(p)
               \/ CheckSame(p) \/ ResetBegin(p) \/ SyncLock(p) \/ SyncLockFail(p)
        BY <2>2 DEF OpenNoLog, CreateUse, CreateNew, CreateFail, OpenIndex, Acquire, Timeout, CheckChanged,
               CheckUnusable, LogGone, CheckSame, ResetBegin, SyncLock, SyncLockFail, GiveUp, ghostVars
    <2>3. CASE \/ FindRefresh(p) \/ FindUnusable(p) \/ FindGone(p)
               \/ FindEnd(p) \/ FindOld(p) \/ MapFile(p) \/ MapFileFail(p)
        BY <2>3 DEF FindRefresh, FindUnusable, FindGone, FindEnd, FindOld, MapFile, MapFileFail, MapDone, GiveUp, ghostVars
    <2>4. CASE \/ Reopen(p) \/ LostFsck(p) \/ LostFail(p) \/ IndexGone(p)
               \/ Fsck(p) \/ FsckFail(p) \/ Trunc(p)
        BY <2>4 DEF Reopen, LostFsck, LostFail, IndexGone, Fsck, FsckFail, Trunc, GiveUp, ghostVars
    <2>5. CASE \/ WriteNothing(p) \/ WritePart(p) \/ WriteRest(p) \/ Fsynced(p) \/ UnlinkIndex(p)
               \/ RotateBegin(p) \/ RotateCreate(p) \/ RotateBroken(p) \/ RotateUnlink(p)
               \/ RotateLink(p) \/ RotateRename(p) \/ WriteIndex(p) \/ SkipIndex(p)
        BY <2>5 DEF WriteNothing, WritePart, WriteRest, Fsynced, UnlinkIndex, RotateBegin, RotateCreate, RotateBroken,
               RotateUnlink, RotateLink, RotateRename, WriteIndex, SkipIndex, SyncEnd, ghostVars
    <2>. QED BY <1>1, <2>1, <2>2, <2>3, <2>4, <2>5 DEF Work
<1>3. OkStays
    <2>1. CASE WriteFail(p) \/ FsyncFail(p)
        <3>1. /\ pc[p] \in {"write2", "fsync"} /\ nfile' = nfile
              /\ file' = [file EXCEPT ![head[p]].data = SubSeq(@, 1, Min({sync[p][head[p]], Len(@)}))]
            BY <2>1 DEF WriteFail, FsyncFail, MoveToMemory
        <3>2. head[p] \in Inodes
            BY <3>1, HeadOK DEF NoLogPlaces
        <3>. QED BY <3>1, <3>2, DataOkStays
    <2>2. CASE \/ OpenLog(p) \/ OpenCorrupted(p) \/ Close(p) \/ Begin(p) \/ Refresh(p)
               \/ Crash(p) \/ CrashInWrite(p) \/ RotateFail(p) \/ IndexWriteFail(p)
        <3>1. file' = file /\ nfile' = nfile
            BY <2>2 DEF OpenLog, OpenCorrupted, Close, Begin, Refresh, Crash, CrashInWrite,
                   RotateFail, IndexWriteFail, diskVars
        <3>. QED BY <3>1, SameOkStays
    <2>3. CASE CreateNew(p) \/ RotateCreate(p)
        <3>1. PICK h : nfile' = nfile + 1 /\ file' = [file EXCEPT ![nfile'] = h]
            BY <2>3 DEF CreateNew, RotateCreate
        <3>. QED BY <3>1, NewOkStays
    <2>4. CASE SyncLockFail(p) \/ FsckFail(p)
        <3>1. /\ pc[p] \in {"check", "fsck"} /\ nfile' = nfile /\ file' = [file EXCEPT ![head[p]].ok = FALSE]
            BY <2>4 DEF SyncLockFail, FsckFail, GiveUp
        <3>2. head[p] \in Inodes
            BY <3>1, HeadOK DEF NoLogPlaces
        <3>. QED BY <3>1, <3>2, MarkOkStays
    <2>5. CASE MapFileFail(p)
        <3>1. PICK i : i = Found(p)[view[p].todo]
            OBVIOUS
        <3>2. pc[p] = "mapf" /\ nfile' = nfile /\ (file' = file \/ file' = [file EXCEPT ![i].ok = FALSE])
            BY <2>5, <3>1 DEF MapFileFail
        <3>3. i \in Inodes
            BY <3>1, <3>2, MappedFile
        <3>. QED BY <3>2, <3>3, SameOkStays, MarkOkStays
    <2>6. CASE LostFail(p) \/ Trunc(p)
        <3>1. pc[p] \in {"view", "lost", "trunc"} /\ file' = Truncated(p) /\ nfile' = nfile
            BY <2>6 DEF LostFail, Trunc, Lost, Finding, GiveUp
        <3>. QED BY <3>1, TruncatedOkStays DEF NoLogPlaces
    <2>7. CASE WritePart(p) \/ WriteRest(p)
        <3>1. PICK e : file' = [file EXCEPT ![head[p]].data = Append(@, e)]
            BY <2>7 DEF WritePart, WriteRest
        <3>2. nfile' = nfile /\ pc[p] \in {"write", "write2", "synced"}
            BY <2>7 DEF WritePart, WriteRest
        <3>3. head[p] \in Inodes
            BY <3>2, HeadOK DEF NoLogPlaces
        <3>. QED BY <3>1, <3>2, <3>3, DataOkStays
    <2>8. CASE \/ OpenNoLog(p) \/ CreateUse(p) \/ CreateFail(p) \/ OpenIndex(p)
               \/ Acquire(p) \/ Timeout(p) \/ CheckChanged(p) \/ CheckUnusable(p) \/ LogGone(p)
               \/ CheckSame(p) \/ ResetBegin(p) \/ SyncLock(p)
               \/ FindRefresh(p) \/ FindUnusable(p) \/ FindGone(p) \/ FindEnd(p) \/ FindOld(p)
        <3>1. file' = file /\ nfile' = nfile
            BY <2>8 DEF OpenNoLog, CreateUse, CreateFail, OpenIndex, Acquire, Timeout, CheckChanged,
               CheckUnusable, LogGone, CheckSame, ResetBegin, SyncLock, FindRefresh, FindUnusable, FindGone, FindEnd,
               FindOld, GiveUp, diskVars
        <3>. QED BY <3>1, SameOkStays
    <2>9. CASE \/ MapFile(p) \/ Reopen(p) \/ LostFsck(p) \/ IndexGone(p) \/ Fsck(p)
               \/ WriteNothing(p) \/ Fsynced(p) \/ UnlinkIndex(p)
               \/ RotateBegin(p) \/ RotateBroken(p) \/ RotateUnlink(p)
               \/ RotateLink(p) \/ RotateRename(p) \/ WriteIndex(p) \/ SkipIndex(p)
        <3>1. file' = file /\ nfile' = nfile
            BY <2>9 DEF MapFile, MapDone, Reopen, LostFsck, IndexGone, Fsck, WriteNothing, Fsynced, UnlinkIndex,
               RotateBegin, RotateBroken, RotateUnlink, RotateLink, RotateRename, WriteIndex, SkipIndex, SyncEnd, diskVars
        <3>. QED BY <3>1, SameOkStays
    <2>. QED BY <1>1, <2>1, <2>2, <2>3, <2>4, <2>5, <2>6, <2>7, <2>8, <2>9 DEF Work, Other
<1>. QED BY <1>2, <1>3

(* A file is damaged, or an fsck has made a position up. *)
Flawed == Damaged \/ loss

(* What has gone wrong is not undone. *)
LEMMA FlawedStays ==
    ASSUME TInv, TInv', [Next]_vars, Flawed
    PROVE  Flawed'
<1>1. CASE UNCHANGED vars
    BY <1>1 DEF vars, diskVars, ghostVars, Flawed, Damaged
<1>2. CASE Next
    <2>1. OkStays /\ (loss => loss')
        BY <1>2, FlawsStay
    <2>. QED BY <2>1 DEF Flawed, Damaged, OkStays
<1>. QED BY <1>1, <1>2

(* The data of the log, unless something has been lost. *)
Whatever == \E c \in Numbering : \E b \in Numbering : DInv(c, b)
WInv == Flawed \/ (LInv /\ Whatever)

(* An undamaged log can be mapped. *)
LEMMA MapFileFailData ==
    ASSUME NEW c, NEW b, Calm(c, b), NEW p \in Procs, MapFileFail(p), ~Damaged'
    PROVE  FALSE
<1>1. PICK i : i = Found(p)[view[p].todo]
    OBVIOUS
<1>2. ~bad[p]
    <2>1. Reader(c, b, Local(p))
        BY Before
    <2>2. PICK r : r = Local(p)
        OBVIOUS
    <2>. QED BY <2>1, <2>2, LocalFields DEF Reader
<1>3. pc[p] = "mapf" /\ nfile' = nfile /\ file' = [file EXCEPT ![i].ok = FALSE]
    BY <1>1, <1>2 DEF MapFileFail
<1>4. i \in files[p] /\ i \in Inodes
    BY <1>1, <1>3, MappedFile DEF Calm, Safe
<1>5. i \in 1..nfile
    BY <1>4 DEF Calm, Safe, TInv, ProcOK, HandlesOK
<1>6. ~file'[i].ok
    BY <1>3, <1>4, MarkOkStays DEF Calm, Safe
<1>. QED BY <1>3, <1>5, <1>6 DEF Damaged

(* Every step keeps the data in order. *)
LEMMA NextData ==
    ASSUME NEW c, NEW b, Calm(c, b), ~Damaged, ~Damaged', ~loss', "fsync" \notin IOFaults, Next
    PROVE  Whatever'
<1>1. PICK p \in Procs : Work(p) \/ Other(p)
    BY DEF Next
<1>2. c \in Numbering /\ b \in Numbering /\ Safe
    BY DEF Calm
<1>3. ~RotateRename(p) => DInv(c, b)'
    <2>. SUFFICES ASSUME ~RotateRename(p) PROVE DInv(c, b)'
        OBVIOUS
    <2>1. CASE Other(p)
        <3>1. ~FsyncFail(p)
            BY DEF FsyncFail
        <3>. QED BY <1>2, <2>1, <3>1, OpenLogData, Excluded, ForgettersData, BeginData, RefreshData, WriteFailData, RotateFailData
             DEF Other
    <2>2. CASE \/ OpenNoLog(p) \/ CreateUse(p) \/ CreateNew(p) \/ CreateFail(p) \/ OpenIndex(p)
               \/ Acquire(p) \/ Timeout(p) \/ CheckChanged(p) \/ CheckUnusable(p) \/ LogGone(p)
               \/ CheckSame(p) \/ ResetBegin(p) \/ SyncLock(p) \/ SyncLockFail(p)
        BY <1>2, <2>2, Excluded, OpenIndexData, AcquireData, GiversUpData, CheckChangedData, CheckSameData,
           ResetBeginData, SyncLockData
    <2>3. CASE \/ FindRefresh(p) \/ FindUnusable(p) \/ FindGone(p)
               \/ FindEnd(p) \/ FindOld(p) \/ MapFile(p) \/ MapFileFail(p)
        BY <1>2, <2>3, Excluded, FindRefreshData, GiversUpData, FindEndData, FindOldData, MapFileData, MapFileFailData
    <2>4. CASE \/ Reopen(p) \/ LostFsck(p) \/ LostFail(p) \/ IndexGone(p)
               \/ Fsck(p) \/ FsckFail(p) \/ Trunc(p)
        BY <1>2, <2>4, Excluded, ReopenData, LostFsckData, GiversUpData, ForgettersData, FsckData
    <2>5. CASE \/ WriteNothing(p) \/ WritePart(p) \/ WriteRest(p) \/ Fsynced(p) \/ UnlinkIndex(p)
               \/ RotateBegin(p) \/ RotateCreate(p) \/ RotateBroken(p) \/ RotateUnlink(p)
               \/ RotateLink(p) \/ RotateRename(p) \/ WriteIndex(p) \/ SkipIndex(p)
        BY <2>5, WriteNothingData, WritePartData, WriteRestData, FsyncedData, UnlinkIndexData, RotateBeginData,
           RotateCreateData, RotateBrokenData, RotateUnlinkData, RotateLinkData, WriteIndexData, SkipIndexData
    <2>. QED BY <1>1, <2>1, <2>2, <2>3, <2>4, <2>5 DEF Work
<1>4. CASE RotateRename(p)
    BY <1>4, RotateRenameData DEF Whatever
<1>5. CASE ~RotateRename(p)
    BY <1>2, <1>3, <1>5 DEF Whatever
<1>. QED BY <1>4, <1>5

(* A step that changes nothing. *)
LEMMA StutterData ==
    ASSUME NEW c, NEW b, Calm(c, b), UNCHANGED vars
    PROVE  DInv(c, b)'
<1>1. Quiet /\ index' = index /\ path2' = path2
    BY DEF vars, diskVars, ghostVars, Quiet
<1>2. \A p \in Procs : Local(p)' = Local(p)
    BY DEF vars, memVars, ghostVars, Local
<1>3. TInv /\ TInv' /\ Chain(c, b) /\ c \in Numbering /\ b \in Numbering /\ DInv(c, b)
    BY DEF Calm, Safe, DInv
<1>4. Grown(c, b, c, b) /\ Chain(c, b)'
    BY <1>1, <1>3, QuietGrown, QuietChain
<1>5. ASSUME NEW p \in Procs PROVE Good(c, b, Local(p))'
    <2>1. PICK r : r = Local(p)
        OBVIOUS
    <2>2. Good(c, b, r)
        BY <1>3, <2>1 DEF DInv
    <2>3. Reader(c, b, r)' /\ Owner(r)'
        BY <1>1, <1>4, <2>2, ReaderStays, QuietOwner DEF Good
    <2>4. Local(p)' = r
        BY <1>2, <2>1
    <2>. QED BY <2>3, <2>4 DEF Good
<1>6. Fits(c, b, index)' /\ (path2' # 0 => Known(c, path2)')
    <2>1. PICK x : x = index
        OBVIOUS
    <2>2. PICK i : i = path2
        OBVIOUS
    <2>3. Fits(c, b, x)' /\ (i # 0 => Known(c, i)')
        BY <1>3, <1>4, <2>1, <2>2, FitsStays, KnownStays DEF DInv
    <2>. QED BY <1>1, <2>1, <2>2, <2>3
<1>. QED BY <1>4, <1>5, <1>6 DEF DInv

(* Initially the log is the first file, and empty. *)
LEMMA InitData == ASSUME Init, TInv PROVE Whatever
<1>. USE DEF Init
<1>1. PICK c : c = [k \in Nat |-> 1]
    OBVIOUS
<1>2. PICK b : b = [k \in Nat |-> 0]
    OBVIOUS
<1>3. c \in Numbering /\ b \in Numbering /\ c[1] = 1 /\ b[1] = 0
    BY <1>1, <1>2 DEF Numbering
<1>4. 1 \in Inodes
    BY InodesNat
<1>5. file[1].seq = 1 /\ file[1].data = <<>> /\ file[1].prevSeq = 0
    BY <1>4 DEF NoFile
<1>6. nfile = 1 /\ path = 1 /\ path2 = 0 /\ index = NoMap /\ history = <<>> /\ Last = 1 /\ 1..1 = {1}
    BY <1>5 DEF Last
<1>7. \A p \in Procs : /\ pc[p] = "closed" /\ op[p] = "none" /\ ~locked[p] /\ ~bad[p] /\ files[p] = {} /\ map[p] = NoMap
                       /\ view[p] = NoView /\ seen[p] = <<>>
    OBVIOUS
<1>. HIDE DEF Init
<1>8. Whole(1) = 0
    <2>1. Whole(1) = 0 \div 2
        BY <1>5 DEF Whole, Size, TxnSize
    <2>. QED BY <2>1
<1>9. After(0) = <<>>
    <2>1. history \in Seq(Entries) /\ 0 \in 0..Len(history)
        BY <1>6
    <2>. QED BY <2>1, UptoReset DEF After
<1>10. Numbered(c)
    BY <1>3, <1>5, <1>6 DEF Numbered
<1>11. Recorded(c, b)
    BY <1>3, <1>6, <1>8 DEF Recorded
<1>12. Ordered(c, b)
    <2>1. Len(history) = 0
        BY <1>6
    <2>2. \A j, k \in 1..Last : ~(j < k)
        BY <1>6
    <2>. QED BY <1>3, <1>6, <1>8, <2>1, <2>2 DEF Ordered
<1>13. Linked(c, b)
    BY <1>3, <1>5, <1>6 DEF Linked
<1>14. Restarts(c, b)
    BY <1>3, <1>6, <1>9 DEF Restarts
<1>15. ASSUME NEW p \in Procs PROVE Good(c, b, Local(p))
    <2>1. PICK r : r = Local(p)
        OBVIOUS
    <2>2. /\ r.pc = "closed" /\ r.op = "none" /\ r.files = {} /\ r.map = NoMap /\ r.view = NoView /\ r.seen = <<>>
        BY <1>7, <2>1, LocalFields
    <2>3. ~r.locked /\ ~r.bad
        BY <1>7, <2>1, LocalFields
    <2>4. OpsOK(r) /\ ViewOK(r)
        BY <2>2, <2>3 DEF OpsOK, ViewOK, NoView
    <2>5. Fits(c, b, r.map) /\ Viewing(c, b, r) /\ Mapped(c, b, r) /\ Seen(c, b, r)
        BY <2>2 DEF Fits, Viewing, Mapped, Seen
    <2>6. Reader(c, b, r)
        BY <2>2, <2>3, <2>4, <2>5 DEF Reader
    <2>7. Owner(r)
        BY <2>3 DEF Owner, Owns
    <2>. QED BY <2>1, <2>6, <2>7 DEF Good
<1>16. DInv(c, b)
    BY <1>6, <1>10, <1>11, <1>12, <1>13, <1>14, <1>15 DEF DInv, Chain, Fits
<1>. QED BY <1>3, <1>16 DEF Whatever

(* The data stays in order, or a flaw is on record. *)
LEMMA WNext ==
    ASSUME LockMethod = "flock", "fsync" \notin IOFaults, TInv, TInv', WInv, [Next]_vars
    PROVE  WInv'
<1>1. CASE Flawed
    BY <1>1, FlawedStays DEF WInv
<1>2. CASE ~Flawed /\ ~Flawed'
    <2>1. LInv /\ Safe
        BY <1>2 DEF WInv, Safe
    <2>2. PICK c \in Numbering : \E b \in Numbering : DInv(c, b)
        BY <1>2 DEF WInv, Whatever
    <2>3. PICK b \in Numbering : DInv(c, b)
        BY <2>2
    <2>4. Calm(c, b)
        BY <2>1, <2>3 DEF Calm
    <2>5. ~Damaged /\ ~Damaged' /\ ~loss'
        BY <1>2 DEF Flawed
    <2>6. CASE UNCHANGED vars
        <3>1. LInv'
            BY <2>1, <2>6, StutterImplements DEF Implements
        <3>2. DInv(c, b)'
            BY <2>4, <2>6, StutterData
        <3>. QED BY <3>1, <3>2 DEF WInv, Whatever
    <2>7. CASE Next
        <3>1. \A p \in Procs : Fsck(p) => op[p] # "reset"
            BY <2>4, <2>5, FsckKeeps
        <3>2. LInv'
            BY <2>1, <2>5, <2>7, <3>1, StepImplements DEF Implements
        <3>3. Whatever'
            BY <2>4, <2>5, <2>7, NextData
        <3>. QED BY <3>2, <3>3 DEF WInv
    <2>. QED BY <2>6, <2>7
<1>3. CASE Flawed'
    BY <1>3 DEF WInv
<1>. QED BY <1>1, <1>2, <1>3

(* The data invariant.  With flock() and where fsync() does not fail,      *)
(* whatever commits, syncs, rotations, resets, failing writes and deaths   *)
(* are interleaved, either a flaw is on record (a file was damaged, or     *)
(* fsck made a position up) or the files that have been the log hold the   *)
(* history in the order of their sequences, and dovecot.index, every map,  *)
(* every log view and what every process has seen agree with it.           *)
THEOREM DataInvariant ==
    ASSUME LockMethod = "flock", "fsync" \notin IOFaults
    PROVE  Spec => []WInv
<1>1. TInv /\ TInv' /\ WInv /\ [Next]_vars => WInv'
    BY WNext
<1>2. Init => WInv
    BY InitData, InitOK, InitImplements DEF WInv
<1>. QED BY <1>1, <1>2, LogInvariant, PTL DEF Spec

(* Who acts as the owner has everything. *)
LEMMA SeesAll ==
    ASSUME NEW c, NEW b, Calm(c, b), NEW p \in Procs,
           pc[p] \in {"write", "synced", "rot1", "rotated"}, op[p] # "reset"
    PROVE  map[p].hist = Effective(history)
<1>1. CASE pc[p] \in {"write", "synced"}
    BY <1>1, WriterOwns
<1>2. CASE pc[p] = "rot1"
    BY <1>2, RotatorOwns
<1>3. CASE pc[p] = "rotated"
    <2>1. PICK r : r = Local(p)
        OBVIOUS
    <2>2. r.pc = "rotated" /\ r.op = op[p] /\ r.locked = locked[p] /\ r.map = map[p]
        BY <1>3, <2>1, LocalFields
    <2>3. Owner(r) /\ LProc(p)
        BY <2>1, Before
    <2>4. locked[p]
        BY <1>3, <2>3 DEF LProc, PlacesOK
    <2>5. r.map.hist = Effective(history)
        BY <2>2, <2>3, <2>4 DEF Owner, Owns, Ends, AtEnd
    <2>. QED BY <2>2, <2>5
<1>. QED BY <1>1, <1>2, <1>3

(* What a process has seen is what the index was after some number of      *)
(* commits.                                                                *)
LEMMA SeesAPrefix ==
    ASSUME NEW c, NEW b, Calm(c, b), NEW p \in Procs, pc[p] # "closed"
    PROVE  \E k \in 0..Len(history) : seen[p] = After(k)
<1>1. PICK r : r = Local(p)
    OBVIOUS
<1>2. r.pc = pc[p] /\ r.seen = seen[p] /\ Reader(c, b, r) /\ TInv /\ Chain(c, b) /\ c \in Numbering /\ b \in Numbering
    BY <1>1, LocalFields, Before
<1>3. Known(c, r.head)
    BY <1>2 DEF Reader
<1>4. PICK h \in 1..Last : h = file[r.head].seq /\ b[h] \in Nat /\ Whole(r.head) \in Nat /\ b[h] + Whole(r.head) <= Len(history)
                           /\ Len(history) \in Nat
    BY <1>2, <1>3, HeadKnown
<1>5. PICK s \in 0..(b[h] + Whole(r.head)) : r.seen = After(s)
    BY <1>2, <1>4 DEF Reader, Seen
<1>6. s \in 0..Len(history)
    BY <1>4, <1>5
<1>. QED BY <1>2, <1>5, <1>6

(* Two files that have been the log, one after the other. *)
LEMMA FilesFit ==
    ASSUME NEW c, NEW b, Calm(c, b), NEW i, NEW j, Known(c, i), Known(c, j),
           file[j].prevSeq # 0, file[i].seq = file[j].prevSeq
    PROVE  file[j].prevOff = Size(i)
<1>1. PICK k \in 1..Last : k = file[j].seq /\ c[k] = j
    BY DEF Known
<1>2. k > 1 /\ file[j].prevSeq = k - 1 /\ file[j].prevOff = Size(c[k - 1])
    BY <1>1 DEF Calm, DInv, Chain, Linked
<1>3. c[k - 1] = i
    BY <1>2 DEF Known
<1>. QED BY <1>2, <1>3

(* Files that someone has open, or that have a name, have been the log. *)
LEMMA OpenKnown ==
    ASSUME NEW c, NEW b, Calm(c, b), NEW i \in {path, path2} \cup UNION {files[p] : p \in Procs}, i # 0
    PROVE  Known(c, i)
<1>1. CASE i = path2
    BY <1>1 DEF Calm, DInv
<1>2. CASE i = path
    <2>1. path \in 1..nfile /\ Last \in 1..Last /\ c[Last] = path
        BY EndOfLog
    <2>. QED BY <1>2, <2>1 DEF Known, Last
<1>3. CASE \E p \in Procs : i \in files[p]
    <2>1. PICK p \in Procs : i \in files[p]
        BY <1>3
    <2>2. PICK r : r = Local(p)
        OBVIOUS
    <2>3. r.files = files[p] /\ Reader(c, b, r)
        BY <2>2, LocalFields, Before
    <2>. QED BY <2>1, <2>3 DEF Reader
<1>. QED BY <1>1, <1>2, <1>3

(* What the three theorems below need. *)
LEMMA DataConsequences ==
    ASSUME TInv, TInv', WInv
    PROVE  /\ WriterSeesAll /\ ReadsAPrefix /\ ChainFits
           /\ Flawed \/ LInv
<1>1. CASE Flawed
    BY <1>1 DEF Flawed, WriterSeesAll, ReadsAPrefix, ChainFits
<1>2. CASE ~Flawed
    <2>1. LInv /\ Safe
        BY <1>2 DEF WInv, Safe
    <2>2. PICK c \in Numbering : \E b \in Numbering : DInv(c, b)
        BY <1>2 DEF WInv, Whatever
    <2>3. PICK b \in Numbering : DInv(c, b)
        BY <2>2
    <2>4. Calm(c, b)
        BY <2>1, <2>3 DEF Calm
    <2>5. WriterSeesAll
        BY <2>4, SeesAll DEF WriterSeesAll, Critical
    <2>6. ReadsAPrefix
        BY <2>4, SeesAPrefix DEF ReadsAPrefix, After, Upto
    <2>7. ChainFits
        <3>. SUFFICES ASSUME NEW i \in {path, path2} \cup UNION {files[p] : p \in Procs},
                             NEW j \in {path, path2} \cup UNION {files[p] : p \in Procs},
                             0 \notin {i, j}, file[j].prevSeq # 0, file[i].seq = file[j].prevSeq
                      PROVE  file[j].prevOff = Size(i)
            BY DEF ChainFits
        <3>1. Known(c, i) /\ Known(c, j)
            BY <2>4, OpenKnown
        <3>. QED BY <2>4, <3>1, FilesFit
    <2>. QED BY <2>1, <2>5, <2>6, <2>7
<1>. QED BY <1>1, <1>2

(* Whoever writes to the log, rotates it or rewrites dovecot.index has     *)
(* first read every transaction that was committed before, however the log *)
(* was rotated between its open() and its lock.                            *)
THEOREM WriterIsCurrent ==
    ASSUME LockMethod = "flock", "fsync" \notin IOFaults
    PROVE  Spec => []WriterSeesAll
<1>1. TInv /\ TInv' /\ WInv => WriterSeesAll
    BY DataConsequences
<1>. QED BY <1>1, DataInvariant, LogInvariant, PTL

(* What a reader has got from mail_index_map() is what the index was after *)
(* some number of commits: no transaction is skipped, applied twice or     *)
(* applied out of order, even across rotations it did not see.             *)
THEOREM ReadersSeeCommits ==
    ASSUME LockMethod = "flock", "fsync" \notin IOFaults
    PROVE  Spec => []ReadsAPrefix
<1>1. TInv /\ TInv' /\ WInv => ReadsAPrefix
    BY DataConsequences
<1>. QED BY <1>1, DataInvariant, LogInvariant, PTL

(* Of two log files with successive sequences that are in use, the later   *)
(* one names the earlier one and the offset at which it really ends, or    *)
(* was made by a reset.                                                    *)
THEOREM LogsAreChained ==
    ASSUME LockMethod = "flock", "fsync" \notin IOFaults
    PROVE  Spec => []ChainFits
<1>1. TInv /\ TInv' /\ WInv => ChainFits
    BY DataConsequences
<1>. QED BY <1>1, DataInvariant, LogInvariant, PTL

(* No index is reset. *)
Unreset ==
    /\ \A p \in Procs : op[p] \notin {"reset", "fill"} /\ pc[p] # "unlinkidx"
    /\ \A n \in 1..Len(history) : history[n] # Reset

(* p goes on without a change to what is committed, seen or on disk. *)
Plain(p) ==
    /\ pc[p] \notin {"closed", "rotated"} /\ pc'[p] \notin {"closed", "unlinkidx"}
    /\ op'[p] \notin {"reset", "fill"}
    /\ \A q \in Procs : q # p => pc'[q] = pc[q] /\ op'[q] = op[q]
    /\ UNCHANGED <<index, path, history, seen, gap>>
    /\ Last' = Last

(* The others stay where they are. *)
Stays(p) == \A q \in Procs : q # p => pc'[q] = pc[q] /\ op'[q] = op[q]

(* Operations begin without a change to the log. *)
LEMMA PlainBegins ==
    ASSUME MaxResets = 0, TInv, Unreset, NEW p \in Procs,
           \/ OpenIndex(p) \/ Begin(p) \/ Refresh(p) \/ RotateFail(p) \/ Acquire(p) \/ Timeout(p)
           \/ CheckChanged(p) \/ CheckSame(p) \/ ResetBegin(p) \/ SyncLock(p)
    PROVE  Plain(p)
<1>1. pc \in [Procs -> Places] /\ op \in [Procs -> Ops] /\ count.resets \in Nat /\ op[p] \notin {"reset", "fill"}
    BY DEF TInv, Types, MemTypes, GhostTypes, CountT, Unreset
<1>2. UNCHANGED <<file, index, path, history, seen, gap>> /\ pc[p] \notin {"closed", "rotated"}
    BY DEF OpenIndex, Begin, Refresh, RotateFail, Acquire, Timeout, CheckChanged, CheckSame, ResetBegin, SyncLock,
           GiveUp, diskVars, ghostVars
<1>3. Last' = Last
    BY <1>2 DEF Last
<1>4. ASSUME \/ OpenIndex(p) \/ Begin(p) \/ Refresh(p) \/ RotateFail(p)
      PROVE  Stays(p) /\ pc'[p] \notin {"closed", "unlinkidx"} /\ op'[p] \notin {"reset", "fill"}
    BY <1>1, <1>4 DEF OpenIndex, Begin, Refresh, RotateFail, Goto, Stays
<1>5. ASSUME \/ Acquire(p) \/ Timeout(p) \/ CheckChanged(p) \/ CheckSame(p) \/ ResetBegin(p) \/ SyncLock(p)
      PROVE  Stays(p) /\ pc'[p] \notin {"closed", "unlinkidx"} /\ op'[p] \notin {"reset", "fill"}
    BY <1>1, <1>5 DEF Acquire, Timeout, CheckChanged, CheckSame, ResetBegin, SyncLock, GiveUp, Goto, Stays
<1>. QED BY <1>2, <1>3, <1>4, <1>5 DEF Plain, Stays

(* So do reading and looking for files go on. *)
LEMMA PlainFinds ==
    ASSUME TInv, ~Damaged, path \in 1..nfile, Unreset, NEW p \in Procs,
           \/ FindRefresh(p) \/ FindUnusable(p) \/ FindEnd(p) \/ FindOld(p) \/ Reopen(p) \/ LostFsck(p)
    PROVE  Plain(p)
<1>1. pc \in [Procs -> Places] /\ op \in [Procs -> Ops] /\ op[p] \notin {"reset", "fill"}
      /\ pc[p] # "unlinkidx" /\ file[path].ok
    BY DEF TInv, Types, MemTypes, Unreset, Damaged
<1>2. UNCHANGED <<file, index, path, history, seen, gap>> /\ pc[p] \notin {"closed", "rotated"}
    BY <1>1 DEF FindRefresh, FindUnusable, FindEnd, FindOld, Reopen, LostFsck, Lost, Finding,
           GiveUp, diskVars, ghostVars
<1>3. Last' = Last
    BY <1>2 DEF Last
<1>4. ASSUME \/ FindRefresh(p) \/ FindUnusable(p) \/ Reopen(p) \/ LostFsck(p)
      PROVE  Stays(p) /\ pc'[p] \notin {"closed", "unlinkidx"} /\ op'[p] \notin {"reset", "fill"}
    BY <1>1, <1>2, <1>4 DEF FindRefresh, FindUnusable, Reopen, LostFsck, GiveUp, Goto, Stays
<1>5. ASSUME FindEnd(p) \/ FindOld(p)
      PROVE  Stays(p) /\ pc'[p] \notin {"closed", "unlinkidx"} /\ op'[p] \notin {"reset", "fill"}
    <2>1. op' = op /\ pc[p] = "view"
        BY <1>5 DEF FindEnd, FindOld, Finding
    <2>2. pc' = pc \/ \E l \in {"mapf", "lost", "view"} : pc' = [pc EXCEPT ![p] = l]
        BY <1>5 DEF FindEnd, FindOld, NotFound, Goto
    <2>. QED BY <1>1, <2>1, <2>2 DEF Stays
<1>. QED BY <1>2, <1>3, <1>4, <1>5 DEF Plain, Stays

(* So does the preparation of a rotation. *)
LEMMA PlainRotates ==
    ASSUME TInv, Unreset, NEW p \in Procs,
           \/ WriteNothing(p) \/ Fsynced(p)
           \/ RotateBegin(p) \/ RotateBroken(p) \/ RotateUnlink(p) \/ RotateLink(p) \/ SkipIndex(p)
    PROVE  Plain(p)
<1>1. pc \in [Procs -> Places] /\ op \in [Procs -> Ops] /\ op[p] \notin {"reset", "fill"}
    BY DEF TInv, Types, MemTypes, Unreset
<1>2. UNCHANGED <<file, index, path, history, seen, gap>> /\ pc[p] \notin {"closed", "rotated"}
    BY DEF WriteNothing, Fsynced, RotateBegin, RotateBroken, RotateUnlink, RotateLink, SkipIndex, SyncEnd, ghostVars
<1>3. Last' = Last
    BY <1>2 DEF Last
<1>4. ASSUME WriteNothing(p) \/ Fsynced(p)
      PROVE  Stays(p) /\ pc'[p] \notin {"closed", "unlinkidx"} /\ op'[p] \notin {"reset", "fill"}
    BY <1>1, <1>2, <1>4 DEF WriteNothing, Fsynced, Committed, Goto, Stays
<1>5. ASSUME \/ RotateBegin(p) \/ RotateBroken(p) \/ RotateUnlink(p) \/ RotateLink(p) \/ SkipIndex(p)
      PROVE  Stays(p) /\ pc'[p] \notin {"closed", "unlinkidx"} /\ op'[p] \notin {"reset", "fill"}
    BY <1>1, <1>5 DEF RotateBegin, RotateBroken, RotateUnlink, RotateLink, SkipIndex, SyncEnd, Goto, Stays
<1>. QED BY <1>2, <1>3, <1>4, <1>5 DEF Plain, Stays

(* A log that is written to keeps its sequence. *)
LEMMA PlainWrites ==
    ASSUME TInv, TInv', path \in 1..nfile, Unreset, NEW p \in Procs, WritePart(p) \/ RotateCreate(p)
    PROVE  Plain(p)
<1>1. pc \in [Procs -> Places] /\ op \in [Procs -> Ops] /\ op[p] \notin {"reset", "fill"}
    BY DEF TInv, Types, MemTypes, Unreset
<1>2. UNCHANGED <<index, path, history, seen, gap>> /\ pc[p] \in {"write", "synced", "rot1"}
    BY DEF WritePart, RotateCreate, ghostVars
<1>3. Last' = Last
    <2>1. CASE WritePart(p)
        <3>1. PICK e : file' = [file EXCEPT ![head[p]].data = Append(@, e)]
            BY <2>1 DEF WritePart
        <3>2. head[p] \in Inodes
            BY <1>2, HeadOK DEF NoLogPlaces
        <3>3. \A j \in 1..nfile : file'[j].seq = file[j].seq
            BY <3>1, <3>2, HeadersStay
        <3>. QED BY <1>2, <3>3 DEF Last
    <2>2. CASE RotateCreate(p)
        <3>1. nfile' = nfile + 1 /\ \E h : file' = [file EXCEPT ![nfile'] = h]
            BY <2>2 DEF RotateCreate
        <3>2. path # nfile' /\ path \in Inodes
            <4>1. nfile \in Nat
                BY InodesNat DEF TInv, Types, DiskTypes
            <4>. QED BY <3>1, <4>1, Allocated DEF TInv, Types
        <3>3. file'[path] = file[path]
            BY <3>1, <3>2 DEF TInv, Types, DiskTypes
        <3>. QED BY <1>2, <3>3 DEF Last
    <2>. QED BY <2>1, <2>2
<1>4. Stays(p) /\ pc'[p] \notin {"closed", "unlinkidx"} /\ op'[p] \notin {"reset", "fill"}
    BY <1>1 DEF WritePart, RotateCreate, Goto, Stays
<1>. QED BY <1>2, <1>3, <1>4 DEF Plain, Stays

(* Nothing is truncated: only files that are damaged are. *)
LEMMA PlainGivesUp ==
    ASSUME TInv, NEW p \in Procs, ~bad[p], LostFail(p) \/ Trunc(p), Unreset
    PROVE  Plain(p)
<1>1. pc \in [Procs -> Places] /\ op \in [Procs -> Ops] /\ op[p] \notin {"reset", "fill"}
    BY DEF TInv, Types, MemTypes, Unreset
<1>2. UNCHANGED <<file, index, path, history, seen, gap>> /\ pc[p] \notin {"closed", "rotated"} /\ GiveUp(p)
    BY DEF LostFail, Trunc, Lost, GiveUp, Truncated, ghostVars
<1>3. Last' = Last
    BY <1>2 DEF Last
<1>4. Stays(p) /\ pc'[p] \notin {"closed", "unlinkidx"} /\ op'[p] \notin {"reset", "fill"}
    BY <1>1, <1>2 DEF GiveUp, Goto, Stays
<1>. QED BY <1>2, <1>3, <1>4 DEF Plain, Stays

(* A repair that loses nothing. *)
LEMMA PlainFsck ==
    ASSUME NEW c, NEW b, Calm(c, b), NEW p \in Procs, Fsck(p), ~loss', Unreset
    PROVE  Plain(p)
<1>1. pc \in [Procs -> Places] /\ op \in [Procs -> Ops] /\ op[p] \notin {"reset", "fill"} /\ index' = index
    BY FsckKeeps DEF Calm, Safe, TInv, Types, MemTypes, Unreset
<1>2. UNCHANGED <<file, path, history, seen, gap>> /\ pc[p] = "fsck"
    BY DEF Fsck
<1>3. Last' = Last
    BY <1>2 DEF Last
<1>4. Stays(p) /\ pc'[p] \notin {"closed", "unlinkidx"} /\ op'[p] \notin {"reset", "fill"}
    BY <1>1, <1>2 DEF Fsck, Goto, Stays
<1>. QED BY <1>1, <1>2, <1>3, <1>4 DEF Plain, Stays

(* What p has seen grows. *)
Reads(p) ==
    \E z \in 0..Len(history) : \E u \in 0..z : seen[p] = After(u) /\ seen' = [seen EXCEPT ![p] = After(z)]

(* Mapping shows a process more of what is committed, never less. *)
LEMMA MapFileReads ==
    ASSUME NEW c, NEW b, Calm(c, b), NEW p \in Procs, MapFile(p), Unreset
    PROVE  /\ Stays(p) /\ pc[p] = "mapf" /\ pc'[p] \notin {"closed", "unlinkidx"} /\ op'[p] \notin {"reset", "fill"}
           /\ UNCHANGED <<index, path, history, gap, file>>
           /\ seen' = seen \/ Reads(p)
<1>1. /\ pc[p] = "mapf" /\ UNCHANGED <<index, path, history, gap, file>>
    BY DEF MapFile, diskVars
<1>2. PICK i : i = Found(p)[view[p].todo]
    OBVIOUS
<1>3. PICK from : from = (IF file[i].seq = view[p].seq THEN view[p].off ELSE 0)
    OBVIOUS
<1>4. PICK got : got = TxnsOf(i, from, Complete(i)) \o view[p].got
    OBVIOUS
<1>5. PICK off : off = (IF i = head[p] THEN Complete(i) ELSE sync[p][head[p]])
    OBVIOUS
<1>8. \E j, x, y \in Nat : file[i].seq = j /\ from = 2 * x /\ Gathers(c, b, Local(p), j, x, y, i, off, got)
    <2>1. \E j, x, y \in Nat :
              /\ file[i].seq = j /\ from = 2 * x
              /\ Gathers(c, b, Local(p), j, x, y, i, IF i = head[p] THEN Complete(i) ELSE sync[p][head[p]],
                         TxnsOf(i, from, Complete(i)) \o view[p].got)
        BY <1>1, <1>2, <1>3, Gathering
    <2>. QED BY <1>4, <1>5, <2>1
<1>9. PICK j, x, y \in Nat : file[i].seq = j /\ from = 2 * x /\ Gathers(c, b, Local(p), j, x, y, i, off, got)
    BY <1>8
<1>10. PICK resets : resets = (file[i].prevSeq = 0 /\ (view[p].todo > 1 \/ x = 0))
    OBVIOUS
<1>101. resets = (file[i].prevSeq = 0 /\ (view[p].todo > 1 \/ from = 0))
    <2>1. from = 0 <=> x = 0
        BY <1>9
    <2>. QED BY <1>10, <2>1
<1>11. \/ pc' = [pc EXCEPT ![p] = "lost"] /\ UNCHANGED <<op, seen>>
       \/ UNCHANGED <<pc, op, seen>>
       \/ (resets \/ view[p].todo = 1) /\ MapDone(p, off, IF resets THEN got ELSE map[p].hist \o got)
    BY <1>2, <1>3, <1>4, <1>5, <1>101, Zenon DEF MapFile, Goto
<1>12. pc \in [Procs -> Places] /\ op \in [Procs -> Ops] /\ op[p] \notin {"reset", "fill"}
    BY DEF Calm, Safe, TInv, Types, MemTypes, Unreset
<1>13. CASE UNCHANGED <<op, seen>> /\ (pc' = pc \/ pc' = [pc EXCEPT ![p] = "lost"])
    BY <1>1, <1>12, <1>13 DEF Stays
<1>14. CASE (resets \/ view[p].todo = 1) /\ MapDone(p, off, IF resets THEN got ELSE map[p].hist \o got)
    <2>1. PICK contents : contents = (IF resets THEN got ELSE map[p].hist \o got)
        OBVIOUS
    <2>2. MapDone(p, off, contents)
        BY <1>14, <2>1
    <2>3. contents = After(b[file[head[p]].seq] + y)
        BY <1>1, <1>9, <1>10, <1>14, <2>1, GathersContents
    <2>4. PICK r : r = Local(p)
        OBVIOUS
    <2>5. r.pc = "mapf" /\ r.head = head[p] /\ r.seen = seen[p] /\ Reader(c, b, r) /\ TInv /\ Chain(c, b) /\ c \in Numbering /\ b \in Numbering
        BY <1>1, <2>4, LocalFields, Before
    <2>6. PICK h \in 1..Last : h = file[head[p]].seq /\ b[h] \in Nat /\ Whole(head[p]) \in Nat
                               /\ b[h] + Whole(head[p]) <= Len(history) /\ Len(history) \in Nat
        <3>1. Known(c, head[p])
            BY <2>5 DEF Reader
        <3>. QED BY <2>5, <3>1, HeadKnown
    <2>7. y \in 0..Whole(head[p]) /\ \E u \in 0..(b[h] + y) : seen[p] = After(u)
        BY <1>9, <2>4, <2>5, <2>6 DEF Gathers
    <2>8. PICK z : z = b[h] + y
        OBVIOUS
    <2>9. z \in 0..Len(history) /\ contents = After(z)
        BY <2>3, <2>6, <2>7, <2>8
    <2>10. seen' = [seen EXCEPT ![p] = contents]
        BY <2>2 DEF MapDone
    <2>11. Reads(p)
        BY <2>7, <2>8, <2>9, <2>10 DEF Reads
    <2>12. Stays(p) /\ pc'[p] \notin {"closed", "unlinkidx"} /\ op'[p] \notin {"reset", "fill"}
        BY <1>12, <2>2 DEF MapDone, Goto, Stays
    <2>. QED BY <1>1, <2>11, <2>12
<1>. QED BY <1>11, <1>13, <1>14

(* p closes the index or dies. *)
Forgets(p) ==
    /\ pc[p] # "closed" /\ pc' = [pc EXCEPT ![p] = "closed"] /\ op' = [op EXCEPT ![p] = "none"]
    /\ seen' = [seen EXCEPT ![p] = <<>>]
    /\ UNCHANGED <<index, path, history>> /\ Last' = Last
    /\ gap => gap'
    /\ pc[p] = "rotated" => gap'

(* Closing, dying and moving to memory forget everything; a rotator that   *)
(* does so leaves a gap.                                                   *)
LEMMA ForgettersForget ==
    ASSUME NEW c, NEW b, Calm(c, b), NEW p \in Procs,
           Close(p) \/ Crash(p) \/ CrashInWrite(p) \/ IndexGone(p) \/ IndexWriteFail(p) \/ WriteFail(p)
    PROVE  Forgets(p)
<1>1. /\ pc[p] # "closed" /\ pc' = [pc EXCEPT ![p] = "closed"] /\ op' = [op EXCEPT ![p] = "none"]
      /\ seen' = [seen EXCEPT ![p] = <<>>]
      /\ UNCHANGED <<index, path, history>>
    BY DEF Close, Crash, CrashInWrite, IndexGone, IndexWriteFail, WriteFail, MoveToMemory, Forget, Goto, Lost, diskVars, ghostVars
<1>2. (gap => gap') /\ (pc[p] = "rotated" => gap')
    <2>1. CASE Crash(p)
        <3>1. gap' = (gap \/ pc[p] = "rotated")
            BY <2>1 DEF Crash
        <3>. QED BY <3>1, Zenon
    <2>2. CASE IndexWriteFail(p)
        BY <2>2, Zenon DEF IndexWriteFail
    <2>3. CASE Close(p) \/ CrashInWrite(p) \/ IndexGone(p) \/ WriteFail(p)
        <3>1. gap' = gap
            BY <2>3 DEF Close, CrashInWrite, IndexGone, WriteFail, MoveToMemory
        <3>2. pc[p] # "rotated"
            BY <2>3 DEF Close, CrashInWrite, IndexGone, WriteFail, Lost
        <3>. QED BY <3>1, <3>2, Zenon
    <2>. QED BY <2>1, <2>2, <2>3
<1>3. Last' = Last
    <2>1. CASE WriteFail(p)
        <3>1. PICK a : a = SubSeq(file[head[p]].data, 1, Min({sync[p][head[p]], Len(file[head[p]].data)}))
            OBVIOUS
        <3>2. file' = [file EXCEPT ![head[p]].data = a] /\ nfile' = nfile /\ path' = path /\ pc[p] = "write2"
            BY <2>1, <3>1 DEF WriteFail, MoveToMemory
        <3>3. head[p] = path
            BY <3>2, WriterOwns
        <3>4. Rewrites(a)
            BY <3>2, <3>3, RewritesIs, EndOfLog DEF Calm, Safe
        <3>. QED BY <3>4 DEF Rewrites, Last
    <2>2. CASE ~WriteFail(p)
        <3>1. file' = file /\ path' = path
            BY <2>2 DEF Close, Crash, CrashInWrite, IndexGone, IndexWriteFail, diskVars
        <3>. QED BY <3>1 DEF Last
    <2>. QED BY <2>1, <2>2
<1>. QED BY <1>1, <1>2, <1>3 DEF Forgets

(* Every step is of one of these kinds. *)
LEMMA Kinds ==
    ASSUME NEW c, NEW b, Calm(c, b), ~Damaged, ~Damaged', ~loss', "fsync" \notin IOFaults, MaxResets = 0, Unreset, Next
    PROVE  \E p \in Procs :
               /\ Work(p) \/ Other(p)
               /\ \/ Plain(p) \/ Forgets(p) \/ OpenLog(p) \/ MapFile(p) \/ WriteRest(p)
                  \/ RotateRename(p) \/ WriteIndex(p)
<1>1. PICK p \in Procs : Work(p) \/ Other(p)
    BY DEF Next
<1>. SUFFICES \/ Plain(p) \/ Forgets(p) \/ OpenLog(p) \/ MapFile(p) \/ WriteRest(p)
              \/ RotateRename(p) \/ WriteIndex(p)
    BY <1>1
<1>2. Safe /\ TInv /\ TInv' /\ path \in 1..nfile
    BY EndOfLog DEF Calm, Safe
<1>3. ~bad[p]
    <2>1. Reader(c, b, Local(p))
        BY Before
    <2>2. PICK r : r = Local(p)
        OBVIOUS
    <2>. QED BY <2>1, <2>2, LocalFields DEF Reader
<1>4. CASE Other(p)
    <2>1. ~FsyncFail(p)
        BY DEF FsyncFail
    <2>. QED BY <1>2, <1>4, <2>1, Excluded, ForgettersForget, PlainBegins DEF Other
<1>5. CASE \/ OpenNoLog(p) \/ CreateUse(p) \/ CreateNew(p) \/ CreateFail(p) \/ OpenIndex(p)
           \/ Acquire(p) \/ Timeout(p) \/ CheckChanged(p) \/ CheckUnusable(p) \/ LogGone(p)
           \/ CheckSame(p) \/ ResetBegin(p) \/ SyncLock(p) \/ SyncLockFail(p)
    BY <1>2, <1>5, Excluded, PlainBegins
<1>6. CASE \/ FindRefresh(p) \/ FindUnusable(p) \/ FindGone(p)
           \/ FindEnd(p) \/ FindOld(p) \/ MapFile(p) \/ MapFileFail(p)
    BY <1>2, <1>6, Excluded, PlainFinds, MapFileFailData
<1>7. CASE \/ Reopen(p) \/ LostFsck(p) \/ LostFail(p) \/ IndexGone(p)
           \/ Fsck(p) \/ FsckFail(p) \/ Trunc(p)
    BY <1>2, <1>3, <1>7, Excluded, PlainFinds, PlainGivesUp, ForgettersForget, PlainFsck
<1>8. CASE \/ WriteNothing(p) \/ WritePart(p) \/ WriteRest(p) \/ Fsynced(p) \/ UnlinkIndex(p)
           \/ RotateBegin(p) \/ RotateCreate(p) \/ RotateBroken(p) \/ RotateUnlink(p)
           \/ RotateLink(p) \/ RotateRename(p) \/ WriteIndex(p) \/ SkipIndex(p)
    <2>1. ~UnlinkIndex(p)
        BY DEF UnlinkIndex, Unreset
    <2>. QED BY <1>2, <1>8, <2>1, PlainRotates, PlainWrites
<1>. QED BY <1>1, <1>4, <1>5, <1>6, <1>7, <1>8 DEF Work

(* dovecot.index is of the log that the name leads to, or not needed. *)
Indexed ==
    \/ gap
    \/ \E q \in Procs : pc[q] = "rotated"
    \/ index.seq = Last
    \/ Last = 1 /\ index.seq = 0

(* No transaction is the entry of a reset. *)
LEMMA CommitIs ==
    ASSUME NEW c, NEW b, Calm(c, b), NEW p \in Procs, WriteRest(p)
    PROVE  /\ pc[p] = "write2" /\ view[p].txn \in Txns /\ history' = Append(history, view[p].txn) /\ Last' = Last
           /\ pc' = [pc EXCEPT ![p] = "fsync"] /\ UNCHANGED <<op, seen, index, gap>>
<1>1. PICK n : n = view[p].txn
    OBVIOUS
<1>2. PICK a : a = Append(file[head[p]].data, <<n, 2>>)
    OBVIOUS
<1>3. /\ pc[p] = "write2"
      /\ file' = [file EXCEPT ![head[p]].data = a]
      /\ history' = Append(history, n)
      /\ pc' = [pc EXCEPT ![p] = "fsync"]
      /\ UNCHANGED <<nfile, path, index, op, seen, gap>>
    BY <1>1, <1>2 DEF WriteRest, Goto
<1>4. TInv /\ path \in 1..nfile /\ head[p] = path
    BY <1>3, EndOfLog, WriterOwns DEF Calm, Safe
<1>5. n \in Txns
    <2>1. n \in 1..count.txns /\ count.txns \in 0..MaxTxns /\ MaxTxns \in Nat
        BY <1>1, <1>3, <1>4, LogAssumption DEF TInv, ProcOK, TxnOK, Types, GhostTypes, CountT
    <2>. QED BY <2>1 DEF Txns
<1>6. Rewrites(a)
    BY <1>3, <1>4, RewritesIs
<1>. QED BY <1>1, <1>3, <1>5, <1>6 DEF Rewrites, Last

(* Who has rotated, or synced, has the map of the log. *)
LEMMA SyncedAtLast ==
    ASSUME NEW c, NEW b, Calm(c, b), NEW p \in Procs, pc[p] \in {"synced", "rotated"}
    PROVE  map[p].seq = Last
<1>1. PICK r : r = Local(p)
    OBVIOUS
<1>2. r.pc = pc[p] /\ r.locked = locked[p] /\ r.map = map[p]
    BY <1>1, LocalFields
<1>3. Owner(r) /\ LProc(p)
    BY <1>1, Before
<1>4. locked[p]
    BY <1>3 DEF LProc, PlacesOK
<1>. QED BY <1>2, <1>3, <1>4 DEF Owner, Owns, Ends, AtEnd

(* With MaxResets = 0 no reset ever begins. *)
LEMMA UnresetNext ==
    ASSUME NEW c, NEW b, Calm(c, b), ~Damaged, ~Damaged', ~loss', "fsync" \notin IOFaults, MaxResets = 0, Unreset, Next
    PROVE  Unreset'
<1>1. PICK p \in Procs : \/ Plain(p) \/ Forgets(p) \/ OpenLog(p) \/ MapFile(p) \/ WriteRest(p)
                         \/ RotateRename(p) \/ WriteIndex(p)
    BY Kinds
<1>2. /\ pc \in [Procs -> Places] /\ op \in [Procs -> Ops] /\ history \in Seq(Entries)
      /\ \A q \in Procs : op[q] \notin {"reset", "fill"} /\ pc[q] # "unlinkidx"
      /\ \A n \in 1..Len(history) : history[n] # Reset
    BY DEF Calm, Safe, TInv, Types, MemTypes, GhostTypes, Unreset, Entries
<1>3. CASE Plain(p)
    BY <1>2, <1>3 DEF Plain, Unreset
<1>4. CASE Forgets(p)
    BY <1>2, <1>4 DEF Forgets, Unreset
<1>5. CASE OpenLog(p)
    BY <1>2, <1>5 DEF OpenLog, ghostVars, Goto, Unreset
<1>6. CASE MapFile(p)
    BY <1>2, <1>6, MapFileReads DEF Stays, Unreset
<1>7. CASE WriteRest(p)
    <2>1. /\ view[p].txn \in Txns /\ history' = Append(history, view[p].txn)
          /\ pc' = [pc EXCEPT ![p] = "fsync"] /\ UNCHANGED op
        BY <1>7, CommitIs
    <2>2. \A n \in 1..Len(history') : history'[n] # Reset
        BY <1>2, <2>1 DEF Reset, Txns
    <2>. QED BY <1>2, <2>1, <2>2 DEF Unreset
<1>8. CASE RotateRename(p)
    <2>1. pc' = [pc EXCEPT ![p] = "rotated"] /\ UNCHANGED <<op, history>>
        BY <1>2, <1>8 DEF RotateRename, Goto
    <2>. QED BY <1>2, <2>1 DEF Unreset
<1>9. CASE WriteIndex(p)
    BY <1>2, <1>9 DEF WriteIndex, SyncEnd, ghostVars, Goto, Unreset
<1>. QED BY <1>1, <1>3, <1>4, <1>5, <1>6, <1>7, <1>8, <1>9

(* Without the index the log cannot be read from where the name leads, so  *)
(* a rotation ends with a new one.                                         *)
LEMMA IndexedNext ==
    ASSUME NEW c, NEW b, Calm(c, b), ~Damaged, ~Damaged', ~loss', "fsync" \notin IOFaults, MaxResets = 0, Unreset, Indexed, Next
    PROVE  Indexed'
<1>1. PICK p \in Procs : \/ Plain(p) \/ Forgets(p) \/ OpenLog(p) \/ MapFile(p) \/ WriteRest(p)
                         \/ RotateRename(p) \/ WriteIndex(p)
    BY Kinds
<1>2. pc \in [Procs -> Places] /\ op[p] # "reset"
    BY DEF Calm, Safe, TInv, Types, MemTypes, Unreset
<1>3. ASSUME index' = index, Last' = Last, gap => gap', pc[p] = "rotated" => gap',
             \A q \in Procs : q # p => pc'[q] = pc[q]
      PROVE  Indexed'
    <2>1. CASE gap
        BY <1>3, <2>1, Zenon DEF Indexed
    <2>2. CASE \E q \in Procs : pc[q] = "rotated"
        <3>1. PICK q \in Procs : pc[q] = "rotated"
            BY <2>2
        <3>2. CASE q = p
            BY <1>3, <3>1, <3>2, Zenon DEF Indexed
        <3>3. CASE q # p
            <4>1. pc'[q] = "rotated"
                BY <1>3, <3>1, <3>3
            <4>. QED BY <4>1, Zenon DEF Indexed
        <3>. QED BY <3>2, <3>3
    <2>3. CASE index.seq = Last \/ (Last = 1 /\ index.seq = 0)
        BY <1>3, <2>3, Zenon DEF Indexed
    <2>. QED BY <2>1, <2>2, <2>3, Zenon DEF Indexed
<1>4. CASE Plain(p)
    <2>1. index' = index /\ Last' = Last /\ gap' = gap /\ pc[p] # "rotated" /\ \A q \in Procs : q # p => pc'[q] = pc[q]
        BY <1>4 DEF Plain
    <2>. QED BY <1>3, <2>1, Zenon
<1>5. CASE Forgets(p)
    <2>1. index' = index /\ Last' = Last /\ \A q \in Procs : q # p => pc'[q] = pc[q]
        BY <1>2, <1>5 DEF Forgets
    <2>2. (gap => gap') /\ (pc[p] = "rotated" => gap')
        BY <1>5, Zenon DEF Forgets
    <2>. QED BY <1>3, <2>1, <2>2, Zenon
<1>6. CASE OpenLog(p)
    <2>1. index' = index /\ file' = file /\ path' = path /\ gap' = gap /\ pc[p] = "closed" /\ pc' = [pc EXCEPT ![p] = "openidx"]
        BY <1>6 DEF OpenLog, diskVars, ghostVars, Goto
    <2>2. Last' = Last /\ pc[p] # "rotated" /\ \A q \in Procs : q # p => pc'[q] = pc[q]
        BY <1>2, <2>1 DEF Last
    <2>. QED BY <1>3, <2>1, <2>2, Zenon
<1>7. CASE MapFile(p)
    <2>1. Stays(p) /\ pc[p] = "mapf" /\ index' = index /\ path' = path /\ gap' = gap /\ file' = file
        BY <1>7, MapFileReads
    <2>2. Last' = Last /\ pc[p] # "rotated" /\ \A q \in Procs : q # p => pc'[q] = pc[q]
        BY <2>1 DEF Last, Stays
    <2>. QED BY <1>3, <2>1, <2>2, Zenon
<1>8. CASE WriteRest(p)
    <2>1. pc[p] = "write2" /\ Last' = Last /\ index' = index /\ gap' = gap /\ pc' = [pc EXCEPT ![p] = "fsync"]
        BY <1>8, CommitIs
    <2>2. pc[p] # "rotated" /\ \A q \in Procs : q # p => pc'[q] = pc[q]
        BY <1>2, <2>1
    <2>. QED BY <1>3, <2>1, <2>2, Zenon
<1>9. CASE RotateRename(p)
    <2>1. pc'[p] = "rotated"
        BY <1>2, <1>9 DEF RotateRename, Goto
    <2>. QED BY <2>1, Zenon DEF Indexed
<1>10. CASE WriteIndex(p)
    <2>1. pc[p] \in {"synced", "rotated"} /\ index' = map[p] /\ file' = file /\ path' = path
        BY <1>10 DEF WriteIndex, SyncEnd
    <2>2. index'.seq = Last /\ Last' = Last
        BY <2>1, SyncedAtLast DEF Last
    <2>3. index'.seq = Last'
        BY <2>2
    <2>. QED BY <2>3, Zenon DEF Indexed
<1>. QED BY <1>1, <1>4, <1>5, <1>6, <1>7, <1>8, <1>9, <1>10

(* The invariant of a log that is never reset. *)
RInv == Flawed \/ (Unreset /\ Indexed)

(* Every step keeps the index usable, or a flaw or a gap is on record. *)
LEMMA RNext ==
    ASSUME LockMethod = "flock", "fsync" \notin IOFaults, MaxResets = 0, TInv, TInv', WInv, RInv, [Next]_vars
    PROVE  RInv'
<1>1. CASE Flawed \/ Flawed'
    BY <1>1, FlawedStays DEF RInv
<1>2. CASE ~Flawed /\ ~Flawed'
    <2>1. LInv /\ Safe /\ Unreset /\ Indexed
        BY <1>2 DEF WInv, Safe, RInv
    <2>2. PICK c \in Numbering : \E b \in Numbering : DInv(c, b)
        BY <1>2 DEF WInv, Whatever
    <2>3. PICK b \in Numbering : DInv(c, b)
        BY <2>2
    <2>4. Calm(c, b)
        BY <2>1, <2>3 DEF Calm
    <2>5. CASE Next
        BY <1>2, <2>1, <2>4, <2>5, UnresetNext, IndexedNext DEF Flawed, RInv
    <2>6. CASE UNCHANGED vars
        <3>1. Unreset'
            BY <2>1, <2>6 DEF Unreset, vars, memVars, ghostVars
        <3>2. UNCHANGED <<gap, pc, index, file, path>>
            BY <2>6 DEF vars, memVars, diskVars, ghostVars
        <3>3. Indexed'
            BY <2>1, <3>2, Zenon DEF Indexed, Last
        <3>. QED BY <3>1, <3>3 DEF RInv
    <2>. QED BY <2>5, <2>6
<1>. QED BY <1>1, <1>2

(* Initially there is no index and the log is the first one. *)
LEMMA RInit == ASSUME Init PROVE RInv
<1>1. Unreset
    BY DEF Init, Unreset
<1>2. 1 \in Inodes
    BY InodesNat
<1>3. Last = 1 /\ index.seq = 0
    BY <1>2 DEF Init, Last, NoMap, NoFile
<1>. QED BY <1>1, <1>3, Zenon DEF RInv, Indexed

(* The invariant of a log that is never reset holds throughout. *)
LEMMA ResetFree ==
    ASSUME LockMethod = "flock", "fsync" \notin IOFaults, MaxResets = 0
    PROVE  Spec => []RInv
<1>1. TInv /\ TInv' /\ WInv /\ RInv /\ [Next]_vars => RInv'
    BY RNext
<1>2. Init => RInv
    BY RInit
<1>. QED BY <1>1, <1>2, LogInvariant, DataInvariant, PTL DEF Spec

(* The log of which no one is the owner has been indexed. *)
LEMMA Unrotated ==
    ASSUME NEW c, NEW b, Calm(c, b), lock[path] = NoProc
    PROVE  ~\E p \in Procs : pc[p] = "rotated"
<1>. SUFFICES ASSUME NEW p \in Procs, pc[p] = "rotated" PROVE FALSE
    OBVIOUS
<1>1. LProc(p) /\ p # NoProc
    BY Before, LogAssumption
<1>2. locked[p]
    BY <1>1 DEF LProc, PlacesOK
<1>. QED BY <1>1, <1>2 DEF LProc, OwnerOK

(* What is in the log from x + 1 on completes what the index was then. *)
LEMMA LogCompletes ==
    ASSUME NEW c, NEW b, Calm(c, b), NEW x \in 0..Whole(path)
    PROVE  After(b[Last] + x) \o TxnsOf(path, 2 * x, Complete(path)) = Effective(history)
<1>1. /\ TInv /\ history \in Seq(Entries) /\ path \in Inodes /\ b[Last] \in Nat /\ Whole(path) \in Nat
      /\ Len(history) = b[Last] + Whole(path) /\ After(Len(history)) = Effective(history)
    BY EndOfLog DEF Calm, Safe
<1>2. PICK a \in Nat : a = b[Last]
    BY <1>1
<1>3. PICK e \in Nat : e = Whole(path)
    BY <1>1
<1>4. Complete(path) = 2 * e /\ 2 * e <= Size(path) /\ x \in 0..e
    BY <1>1, <1>3, WholeOK
<1>5. \A j \in 1..e : a + j <= Len(history) /\ file[path].data[2 * j][1] = history[a + j]
    BY <1>2, <1>3, LogRecords
<1>6. /\ TxnsOf(path, 2 * x, 2 * e) = SubSeq(history, a + x + 1, a + e)
      /\ \A n \in (a + x + 1)..(a + e) : history[n] # Reset
    BY <1>1, <1>4, <1>5, TxnsAre
<1>7. PICK z : z = a + e
    OBVIOUS
<1>8. PICK y : y = a + x
    OBVIOUS
<1>9. z \in 0..Len(history) /\ y \in 0..z /\ z = Len(history)
    BY <1>1, <1>2, <1>3, <1>4, <1>7, <1>8
<1>10. Upto(history, z) = Upto(history, y) \o SubSeq(history, y + 1, z)
    BY <1>1, <1>6, <1>7, <1>8, <1>9, UptoGoesOn
<1>. QED BY <1>1, <1>2, <1>4, <1>6, <1>7, <1>8, <1>9, <1>10 DEF After

(* dovecot.index and the log together give all that was committed. *)
LEMMA Replays ==
    ASSUME NEW c, NEW b, Calm(c, b), Indexed, ~gap, lock[path] = NoProc
    PROVE  Replay = Effective(history)
<1>1. /\ TInv /\ Last \in 1..Last /\ Last \in Nat /\ path # 0 /\ c[Last] = path /\ b[Last] \in Nat /\ path \in Inodes
      /\ Whole(path) \in Nat /\ Last = file[path].seq
    BY EndOfLog DEF Calm, Safe, Last
<1>2. Complete(path) = 2 * Whole(path)
    BY <1>1, WholeOK
<1>3. index.seq = Last \/ (Last = 1 /\ index.seq = 0)
    BY Unrotated, Zenon DEF Indexed
<1>4. CASE index.seq = Last
    <2>1. Fits(c, b, index) /\ index # NoMap
        BY <1>1, <1>4 DEF Calm, DInv, NoMap
    <2>2. PICK x \in 0..Whole(path) : index.off = 2 * x /\ index.hist = After(b[Last] + x)
        BY <1>1, <1>4, <2>1 DEF Fits, At
    <2>3. ~(index.off > Complete(path))
        BY <1>1, <1>2, <2>2
    <2>4. Replay = index.hist \o TxnsOf(path, index.off, Complete(path))
        <3>1. index.seq # 0 /\ index.seq = file[path].seq /\ path # 0
            BY <1>1, <1>4
        <3>. QED BY <2>3, <3>1, Zenon DEF Replay
    <2>. QED BY <2>2, <2>4, LogCompletes
<1>5. CASE Last = 1 /\ index.seq = 0
    <2>1. file[path].prevSeq = 0
        BY <1>1, <1>5 DEF Calm, DInv, Chain, Linked
    <2>2. After(b[Last]) = <<>>
        BY <1>1, <2>1 DEF Calm, DInv, Chain, Restarts
    <2>3. Replay = TxnsOf(path, 0, Complete(path))
        BY <1>1, <1>5, <2>1 DEF Replay
    <2>4. After(b[Last] + 0) \o TxnsOf(path, 2 * 0, Complete(path)) = Effective(history)
        <3>1. 0 \in 0..Whole(path)
            BY <1>1
        <3>. QED BY <3>1, LogCompletes
    <2>5. TxnsOf(path, 0, Complete(path)) \in Seq(Txns)
        <3>1. PICK e : e = Complete(path)
            OBVIOUS
        <3>2. e \in Nat /\ e <= Size(path) /\ 0 \in Nat /\ 0 <= e
            BY <1>1, <1>2, <3>1, WholeOK
        <3>3. TxnsOf(path, 0, e) \in Seq(Txns)
            BY <1>1, <3>2, TxnsType
        <3>. QED BY <3>1, <3>3
    <2>6. b[Last] + 0 = b[Last] /\ 2 * 0 = 0
        BY <1>1
    <2>7. <<>> \o TxnsOf(path, 0, Complete(path)) = TxnsOf(path, 0, Complete(path))
        BY <2>5, ConcatEmptySeq
    <2>. QED BY <2>2, <2>3, <2>4, <2>6, <2>7
<1>. QED BY <1>3, <1>4, <1>5

(* Whoever comes when no one has the lock gets everything. *)
LEMMA RecoversAlways ==
    ASSUME TInv, TInv', WInv, RInv
    PROVE  Recoverable
<1>. SUFFICES ASSUME ~gap, ~loss, ~Damaged, path # 0, lock[path] = NoProc
              PROVE  Replay = Effective(history)
    BY Zenon DEF Recoverable
<1>1. ~Flawed
    BY Zenon DEF Flawed
<1>2. LInv /\ Safe /\ Indexed
    BY <1>1 DEF WInv, Safe, RInv
<1>3. PICK c \in Numbering : \E b \in Numbering : DInv(c, b)
    BY <1>1 DEF WInv, Whatever
<1>4. PICK b \in Numbering : DInv(c, b)
    BY <1>3
<1>5. Calm(c, b)
    BY <1>2, <1>4 DEF Calm
<1>. QED BY <1>2, <1>5, Replays

(* While no one holds the lock, dovecot.index and the log on disk together *)
(* hold everything that was committed, however many processes have died    *)
(* between the steps of a commit or a rotation; unless a rotator died      *)
(* before it had rewritten the index, which is what gap stands for.        *)
THEOREM LogIsRecoverable ==
    ASSUME LockMethod = "flock", "fsync" \notin IOFaults, MaxResets = 0
    PROVE  Spec => []Recoverable
<1>1. TInv /\ TInv' /\ WInv /\ RInv => Recoverable
    BY RecoversAlways
<1>. QED BY <1>1, ResetFree, DataInvariant, LogInvariant, PTL

(* The processes that have the index open. *)
Opened == {p \in Procs : pc[p] # "closed"}

(* A step as CommitLog allows it, or none. *)
CommitStep == [Commits!Next]_(Commits!vars)

(* Without resets what the index is after n commits is the first n. *)
LEMMA AfterIs ==
    ASSUME TInv, Unreset, NEW n \in 0..Len(history)
    PROVE  After(n) = SubSeq(history, 1, n) /\ Len(After(n)) = n
<1>1. history \in Seq(Entries) /\ \A i \in 1..Len(history) : history[i] # Reset
    BY DEF TInv, Types, GhostTypes, Entries, Unreset
<1>2. After(n) = SubSeq(history, 1, n)
    BY <1>1, UptoNoReset DEF After
<1>. QED BY <1>1, <1>2, Beginning

(* Nothing that CommitLog speaks of changes. *)
LEMMA Stutters ==
    ASSUME NEW p \in Procs, pc[p] # "closed", pc'[p] # "closed",
           \A q \in Procs : q # p => pc'[q] = pc[q], history' = history, seen' = seen
    PROVE  CommitStep
<1>1. Opened' = Opened
    BY DEF Opened
<1>2. Commits!vars' = Commits!vars
    BY <1>1 DEF Commits!vars, Opened
<1>. QED BY <1>2 DEF CommitStep

(* Opening the log is Open. *)
LEMMA OpenLogCommits ==
    ASSUME TInv, NEW p \in Procs, OpenLog(p)
    PROVE  CommitStep
<1>1. pc[p] = "closed" /\ pc' = [pc EXCEPT ![p] = "openidx"] /\ history' = history /\ seen' = seen
      /\ pc \in [Procs -> Places]
    BY DEF OpenLog, Goto, ghostVars, TInv, Types, MemTypes
<1>2. p \notin Opened /\ Opened' = Opened \cup {p}
    BY <1>1 DEF Opened
<1>3. Commits!Open(p)
    BY <1>1, <1>2 DEF Commits!Open, Opened
<1>. QED BY <1>3 DEF CommitStep, Commits!Next

(* Closing and dying are Close. *)
LEMMA ForgetsCommits ==
    ASSUME TInv, NEW p \in Procs, Forgets(p)
    PROVE  CommitStep
<1>1. pc[p] # "closed" /\ pc' = [pc EXCEPT ![p] = "closed"] /\ history' = history /\ seen' = [seen EXCEPT ![p] = <<>>]
      /\ pc \in [Procs -> Places]
    BY DEF Forgets, TInv, Types, MemTypes
<1>2. p \in Opened /\ Opened' = Opened \ {p}
    BY <1>1 DEF Opened
<1>3. Commits!Close(p)
    BY <1>1, <1>2 DEF Commits!Close, Opened
<1>. QED BY <1>3 DEF CommitStep, Commits!Next

(* Mapping is Read. *)
LEMMA MapFileCommits ==
    ASSUME NEW c, NEW b, Calm(c, b), Unreset, NEW p \in Procs, MapFile(p)
    PROVE  CommitStep
<1>1. Stays(p) /\ pc[p] = "mapf" /\ pc'[p] # "closed" /\ history' = history /\ (seen' = seen \/ Reads(p)) /\ TInv
    BY MapFileReads DEF Calm, Safe
<1>2. CASE seen' = seen
    BY <1>1, <1>2, Stutters DEF Stays
<1>3. CASE Reads(p)
    <2>1. PICK z \in 0..Len(history) : \E u \in 0..z : seen[p] = After(u) /\ seen' = [seen EXCEPT ![p] = After(z)]
        BY <1>3 DEF Reads
    <2>2. PICK u \in 0..z : seen[p] = After(u) /\ seen' = [seen EXCEPT ![p] = After(z)]
        BY <2>1
    <2>3. Len(history) \in Nat /\ u \in 0..Len(history)
        BY <1>1 DEF TInv, Types, GhostTypes
    <2>4. After(z) = SubSeq(history, 1, z) /\ Len(seen[p]) = u
        BY <1>1, <2>2, <2>3, AfterIs
    <2>5. p \in Opened /\ Opened' = Opened
        BY <1>1 DEF Opened, Stays
    <2>6. z \in Len(seen[p])..Len(history) /\ seen' = [seen EXCEPT ![p] = SubSeq(history, 1, z)]
        BY <2>2, <2>3, <2>4
    <2>7. Commits!Read(p)
        BY <1>1, <2>5, <2>6 DEF Commits!Read, Opened
    <2>. QED BY <2>7 DEF CommitStep, Commits!Next
<1>. QED BY <1>1, <1>2, <1>3

(* The last write of a transaction is Commit: whoever writes has read      *)
(* everything.                                                             *)
LEMMA WriteRestCommits ==
    ASSUME NEW c, NEW b, Calm(c, b), Unreset, NEW p \in Procs, WriteRest(p)
    PROVE  CommitStep
<1>1. /\ pc[p] = "write2" /\ view[p].txn \in Txns /\ history' = Append(history, view[p].txn)
      /\ pc' = [pc EXCEPT ![p] = "fsync"] /\ seen' = seen /\ TInv /\ pc \in [Procs -> Places]
    BY CommitIs DEF Calm, Safe, TInv, Types, MemTypes
<1>2. seen[p] = Effective(history)
    BY <1>1, WriterOwns
<1>3. seen[p] = history
    <2>1. history \in Seq(Entries) /\ Len(history) \in Nat /\ After(Len(history)) = Effective(history)
        BY EndOfLog
    <2>2. After(Len(history)) = SubSeq(history, 1, Len(history))
        BY <1>1, <2>1, AfterIs
    <2>3. SubSeq(history, 1, Len(history)) = history
        BY <2>1, SubSeqFull
    <2>. QED BY <1>2, <2>1, <2>2, <2>3
<1>4. p \in Opened /\ Opened' = Opened
    BY <1>1 DEF Opened
<1>5. \E t \in Txns : history' = Append(history, t)
    BY <1>1
<1>6. Commits!Commit(p)
    BY <1>1, <1>3, <1>4, <1>5 DEF Commits!Commit, Opened
<1>. QED BY <1>6 DEF CommitStep, Commits!Next

(* Every step is one of CommitLog, or changes nothing it speaks of. *)
LEMMA NextCommits ==
    ASSUME NEW c, NEW b, Calm(c, b), ~Damaged, ~Damaged', ~loss', "fsync" \notin IOFaults, MaxResets = 0, Unreset, Next
    PROVE  CommitStep
<1>1. PICK p \in Procs : \/ Plain(p) \/ Forgets(p) \/ OpenLog(p) \/ MapFile(p) \/ WriteRest(p)
                         \/ RotateRename(p) \/ WriteIndex(p)
    BY Kinds
<1>2. TInv /\ pc \in [Procs -> Places] /\ op[p] # "reset"
    BY DEF Calm, Safe, TInv, Types, MemTypes, Unreset
<1>3. CASE Plain(p)
    <2>1. /\ pc[p] # "closed" /\ pc'[p] # "closed" /\ history' = history /\ seen' = seen
          /\ \A q \in Procs : q # p => pc'[q] = pc[q]
        BY <1>3 DEF Plain
    <2>. QED BY <2>1, Stutters
<1>4. CASE RotateRename(p)
    <2>1. pc[p] = "rot4" /\ pc' = [pc EXCEPT ![p] = "rotated"] /\ history' = history /\ seen' = seen
        BY <1>2, <1>4 DEF RotateRename, Goto
    <2>. QED BY <1>2, <2>1, Stutters
<1>5. CASE WriteIndex(p)
    <2>1. pc[p] # "closed" /\ pc' = [pc EXCEPT ![p] = "idle"] /\ history' = history /\ seen' = seen
        BY <1>5 DEF WriteIndex, SyncEnd, Goto, ghostVars
    <2>. QED BY <1>2, <2>1, Stutters
<1>. QED BY <1>1, <1>2, <1>3, <1>4, <1>5, OpenLogCommits, ForgetsCommits, MapFileCommits, WriteRestCommits

(* The same for steps that change nothing at all. *)
LEMMA StepCommits ==
    ASSUME "fsync" \notin IOFaults, MaxResets = 0, TInv, TInv', WInv, RInv, ~Damaged, ~loss, ~Damaged', ~loss', [Next]_vars
    PROVE  CommitStep
<1>1. CASE Next
    <2>1. ~Flawed
        BY DEF Flawed
    <2>2. LInv /\ Safe /\ Unreset
        BY <2>1 DEF WInv, Safe, RInv
    <2>3. PICK c \in Numbering : \E b \in Numbering : DInv(c, b)
        BY <2>1 DEF WInv, Whatever
    <2>4. PICK b \in Numbering : DInv(c, b)
        BY <2>3
    <2>5. Calm(c, b)
        BY <2>2, <2>4 DEF Calm
    <2>. QED BY <1>1, <2>2, <2>5, NextCommits
<1>2. CASE UNCHANGED vars
    <2>1. UNCHANGED <<pc, history, seen>>
        BY <1>2 DEF vars, memVars, ghostVars
    <2>2. Commits!vars' = Commits!vars
        BY <2>1 DEF Commits!vars
    <2>. QED BY <2>2 DEF CommitStep
<1>. QED BY <1>1, <1>2

(* As long as nothing is damaged or lost, files, locks and rotations       *)
(* implement the one growing sequence of transactions that CommitLog       *)
(* promises: a commit is appended by someone who has read all of it, and   *)
(* reading only goes forward until the index is closed.                    *)
THEOREM LogImplementsCommitLog ==
    ASSUME LockMethod = "flock", "fsync" \notin IOFaults, MaxResets = 0
    PROVE  Spec /\ [](~Damaged /\ ~loss) => ImplementsCommitLog
<1>1. TInv /\ TInv' /\ WInv /\ RInv /\ (~Damaged /\ ~loss) /\ (~Damaged /\ ~loss)' /\ [Next]_vars => [Commits!Next]_(Commits!vars)
    BY StepCommits DEF CommitStep
<1>2. Init => Commits!Init
    BY DEF Init, Commits!Init
<1>. QED BY <1>1, <1>2, ResetFree, DataInvariant, LogInvariant, PTL DEF Spec, ImplementsCommitLog, Commits!Spec

(* The log with which everything began is never lost, so no one has to     *)
(* fsck for it.                                                            *)
First(p) == Last = 1 => pc[p] \notin {"lost", "fsck"} /\ op[p] # "fsck"

(* Who has reread dovecot.index has the map that is in it. *)
Retries(p) ==
    /\ op[p] = "fsck" => view[p].tries # 0
    /\ view[p].tries # 0 => idx[p].seq = 0 \/ map[p] = idx[p]

(* The log is read to its end before fsck compares positions. *)
Checked(p) == pc[p] = "fsck" /\ op[p] = "fsck" /\ map[p].seq = Last => map[p].off <= sync[p][path]

(* What is true of every process about fscks. *)
Fscks(p) == First(p) /\ Retries(p) /\ Checked(p)

(* The processes other than p go on with what they have. *)
Apart(p) ==
    \A q \in Procs : q # p =>
        /\ pc'[q] = pc[q] /\ op'[q] = op[q] /\ view'[q] = view[q] /\ map'[q] = map[q]
        /\ idx'[q] = idx[q] /\ sync'[q] = sync[q]

(* Closing and dying are apart from the log. *)
LEMMA ForgettersApart ==
    ASSUME TInv, NEW p \in Procs,
           \/ Close(p) \/ Crash(p) \/ CrashInWrite(p) \/ WriteFail(p) \/ FsyncFail(p) \/ IndexWriteFail(p)
           \/ CreateFail(p) \/ LogGone(p) \/ FindGone(p) \/ IndexGone(p)
    PROVE  Apart(p)
<1>1. Forget(p)
    BY DEF Close, Crash, CrashInWrite, WriteFail, FsyncFail, IndexWriteFail, CreateFail, LogGone, FindGone, IndexGone, MoveToMemory
<1>. QED BY <1>1 DEF Forget, Goto, Only, TInv, Types, MemTypes, Apart

(* Giving up is. *)
LEMMA GiversUpApart ==
    ASSUME TInv, NEW p \in Procs,
           Timeout(p) \/ CheckUnusable(p) \/ SyncLockFail(p) \/ FindUnusable(p) \/ LostFail(p) \/ Trunc(p)
    PROVE  Apart(p)
<1>1. GiveUp(p)
    BY DEF Timeout, CheckUnusable, SyncLockFail, FindUnusable, LostFail, Trunc
<1>. QED BY <1>1 DEF GiveUp, Goto, TInv, Types, MemTypes, Apart

(* Beginning an operation is. *)
LEMMA BeginnersApart ==
    ASSUME TInv, NEW p \in Procs,
           \/ OpenLog(p) \/ OpenCorrupted(p) \/ Begin(p) \/ Refresh(p) \/ RotateFail(p) \/ OpenNoLog(p) \/ CreateUse(p)
           \/ CreateNew(p) \/ OpenIndex(p) \/ Acquire(p) \/ CheckChanged(p) \/ CheckSame(p) \/ ResetBegin(p) \/ SyncLock(p)
    PROVE  Apart(p)
<1>1. CASE OpenLog(p) \/ OpenCorrupted(p) \/ Refresh(p) \/ RotateFail(p) \/ OpenNoLog(p) \/ CreateUse(p) \/ CreateNew(p)
    BY <1>1 DEF OpenLog, OpenCorrupted, Refresh, RotateFail, OpenNoLog, CreateUse, CreateNew, Goto, TInv, Types, MemTypes, Apart
<1>2. CASE Begin(p)
    BY <1>2 DEF Begin, Goto, TInv, Types, MemTypes, Apart
<1>3. CASE OpenIndex(p) \/ Acquire(p) \/ CheckChanged(p) \/ CheckSame(p) \/ ResetBegin(p) \/ SyncLock(p)
    BY <1>3 DEF OpenIndex, Acquire, CheckChanged, CheckSame, ResetBegin, SyncLock, Only, Goto, TInv, Types, MemTypes, Apart
<1>. QED BY <1>1, <1>2, <1>3

(* Looking for files is. *)
LEMMA FindersApart ==
    ASSUME TInv, NEW p \in Procs,
           \/ FindRefresh(p) \/ FindEnd(p) \/ FindOld(p) \/ MapFile(p) \/ MapFileFail(p)
           \/ Reopen(p) \/ LostFsck(p) \/ Fsck(p) \/ FsckFail(p)
    PROVE  Apart(p)
<1>1. CASE FindRefresh(p) \/ MapFileFail(p) \/ Reopen(p) \/ LostFsck(p)
    BY <1>1 DEF FindRefresh, MapFileFail, Reopen, LostFsck, Goto, TInv, Types, MemTypes, Apart
<1>2. CASE FindEnd(p) \/ FindOld(p)
    <2>1. UNCHANGED <<op, map, idx, sync>>
        BY <1>2 DEF FindEnd, FindOld
    <2>2. \E l, v : (pc' = pc \/ pc' = [pc EXCEPT ![p] = l]) /\ (view' = view \/ view' = [view EXCEPT ![p] = v])
        BY <1>2 DEF FindEnd, FindOld, NotFound, Goto
    <2>. QED BY <2>1, <2>2 DEF TInv, Types, MemTypes, Apart
<1>3. CASE MapFile(p)
    <2>1. UNCHANGED idx
        BY <1>3 DEF MapFile
    <2>2. \/ \E o, t : MapDone(p, o, t)
          \/ /\ UNCHANGED <<op, map>>
             /\ \E l : pc' = pc \/ pc' = [pc EXCEPT ![p] = l]
             /\ \E v : view' = view \/ view' = [view EXCEPT ![p] = v]
             /\ \E s : sync' = [sync EXCEPT ![p] = s]
        BY <1>3 DEF MapFile, Goto
    <2>3. CASE \E o, t : MapDone(p, o, t)
        BY <2>1, <2>3 DEF MapDone, Only, Goto, TInv, Types, MemTypes, Apart
    <2>4. CASE /\ UNCHANGED <<op, map>>
               /\ \E l : pc' = pc \/ pc' = [pc EXCEPT ![p] = l]
               /\ \E v : view' = view \/ view' = [view EXCEPT ![p] = v]
               /\ \E s : sync' = [sync EXCEPT ![p] = s]
        BY <2>1, <2>4 DEF TInv, Types, MemTypes, Apart
    <2>. QED BY <2>2, <2>3, <2>4
<1>4. CASE Fsck(p) \/ FsckFail(p)
    BY <1>4 DEF Fsck, FsckFail, Goto, TInv, Types, MemTypes, Apart
<1>. QED BY <1>1, <1>2, <1>3, <1>4

(* Writing changes the log, not what others have. *)
LEMMA WritersApart ==
    ASSUME TInv, NEW p \in Procs,
           \/ WriteNothing(p) \/ WritePart(p) \/ WriteRest(p) \/ Fsynced(p) \/ UnlinkIndex(p)
           \/ RotateBegin(p) \/ RotateCreate(p) \/ RotateBroken(p) \/ RotateUnlink(p)
           \/ RotateLink(p) \/ RotateRename(p) \/ WriteIndex(p) \/ SkipIndex(p)
    PROVE  Apart(p)
<1>1. CASE WriteNothing(p) \/ WritePart(p) \/ WriteRest(p) \/ Fsynced(p) \/ UnlinkIndex(p)
    BY <1>1 DEF WriteNothing, WritePart, WriteRest, Fsynced, UnlinkIndex, Committed, Goto, TInv, Types, MemTypes, Apart
<1>2. CASE RotateBegin(p) \/ RotateCreate(p) \/ RotateBroken(p) \/ RotateUnlink(p) \/ RotateLink(p)
    BY <1>2 DEF RotateBegin, RotateCreate, RotateBroken, RotateUnlink, RotateLink, Goto, TInv, Types, MemTypes, Apart
<1>3. CASE RotateRename(p)
    BY <1>3 DEF RotateRename, Only, Goto, TInv, Types, MemTypes, Apart
<1>4. CASE WriteIndex(p) \/ SkipIndex(p)
    BY <1>4 DEF WriteIndex, SkipIndex, SyncEnd, Goto, TInv, Types, MemTypes, Apart
<1>. QED BY <1>1, <1>2, <1>3, <1>4

(* A step of p leaves what the others have in memory. *)
LEMMA StepApart ==
    ASSUME TInv, NEW p \in Procs, Work(p) \/ Other(p)
    PROVE  Apart(p)
BY ForgettersApart, GiversUpApart, BeginnersApart, FindersApart, WritersApart DEF Work, Other

(* A step after which p does not have to look at dovecot.index again. *)
Tame(p) ==
    /\ pc'[p] \notin {"lost", "fsck"}
    /\ op'[p] = "fsck" => op[p] = "fsck"
    /\ \/ view'[p].tries = 0 /\ op'[p] # "fsck"
       \/ view'[p].tries = view[p].tries /\ map'[p] = map[p] /\ idx'[p] = idx[p]

(* Closing, dying and giving up need no fsck. *)
LEMMA TameForgets ==
    ASSUME TInv, NEW p \in Procs,
           \/ Close(p) \/ Crash(p) \/ CrashInWrite(p) \/ WriteFail(p) \/ IndexWriteFail(p) \/ IndexGone(p)
           \/ Timeout(p) \/ FindUnusable(p) \/ LostFail(p) \/ Trunc(p)
    PROVE  Tame(p)
<1>1. Forget(p) \/ GiveUp(p)
    BY DEF Close, Crash, CrashInWrite, WriteFail, IndexWriteFail, IndexGone, MoveToMemory,
           Timeout, FindUnusable, LostFail, Trunc
<1>2. view'[p] = NoView /\ pc'[p] \in {"closed", "idle"} /\ op'[p] = "none"
    BY <1>1 DEF Forget, GiveUp, Goto, TInv, Types, MemTypes
<1>. QED BY <1>2 DEF Tame, NoView

(* Steps that keep the map and the view. *)
LEMMA TameMoves ==
    ASSUME TInv, NEW p \in Procs,
           \/ OpenLog(p) \/ Begin(p) \/ Refresh(p) \/ RotateFail(p) \/ Acquire(p) \/ CheckChanged(p) \/ CheckSame(p)
           \/ ResetBegin(p) \/ WriteNothing(p) \/ Fsynced(p) \/ RotateBegin(p) \/ RotateBroken(p) \/ RotateUnlink(p)
           \/ RotateLink(p) \/ RotateCreate(p) \/ SkipIndex(p) \/ WriteIndex(p)
    PROVE  Tame(p)
<1>1. UNCHANGED <<view, map, idx>>
    BY DEF OpenLog, Begin, Refresh, RotateFail, Acquire, CheckChanged, CheckSame, ResetBegin, WriteNothing, Fsynced,
           RotateBegin, RotateBroken, RotateUnlink, RotateLink, RotateCreate, SkipIndex, WriteIndex, SyncEnd
<1>2. CASE \/ OpenLog(p) \/ Refresh(p) \/ RotateFail(p) \/ Acquire(p) \/ CheckChanged(p) \/ CheckSame(p)
           \/ ResetBegin(p) \/ WriteNothing(p) \/ Fsynced(p)
    BY <1>1, <1>2 DEF OpenLog, Refresh, RotateFail, Acquire, CheckChanged, CheckSame, ResetBegin, WriteNothing, Fsynced,
       Committed, Goto, TInv, Types, MemTypes, Tame
<1>3. CASE Begin(p)
    BY <1>1, <1>3 DEF Begin, Goto, TInv, Types, MemTypes, Tame
<1>4. CASE \/ RotateBegin(p) \/ RotateBroken(p) \/ RotateUnlink(p) \/ RotateLink(p) \/ RotateCreate(p)
           \/ SkipIndex(p) \/ WriteIndex(p)
    BY <1>1, <1>4 DEF RotateBegin, RotateBroken, RotateUnlink, RotateLink, RotateCreate, SkipIndex, WriteIndex, SyncEnd,
       Goto, TInv, Types, MemTypes, Tame
<1>. QED BY <1>2, <1>3, <1>4

(* Opening, writing and publishing need no fsck. *)
LEMMA TameOther ==
    ASSUME NEW c, NEW b, Calm(c, b), NEW p \in Procs, Unreset,
           OpenIndex(p) \/ RotateRename(p) \/ WritePart(p) \/ WriteRest(p) \/ FindRefresh(p)
    PROVE  Tame(p)
<1>1. TInv /\ op[p] # "reset" /\ view[p] \in ViewT
    BY DEF Calm, Safe, Unreset, TInv, Types, MemTypes
<1>2. CASE OpenIndex(p) \/ RotateRename(p)
    <2>1. PICK r : r = Local(p)
        OBVIOUS
    <2>2. r.pc = pc[p] /\ r.op = op[p] /\ r.view = view[p] /\ Reader(c, b, r)
        BY <2>1, LocalFields, Before
    <2>3. pc[p] \in {"openidx", "rot4"}
        BY <1>2 DEF OpenIndex, RotateRename
    <2>4. view[p].tries = 0 /\ op[p] # "fsck"
        BY <2>2, <2>3 DEF Reader, OpsOK, ViewOK
    <2>5. view' = view /\ pc'[p] \in {"view", "rotated"} /\ op'[p] \in {"read", op[p]}
        BY <1>1, <1>2 DEF OpenIndex, RotateRename, Goto, TInv, Types, MemTypes
    <2>. QED BY <2>4, <2>5 DEF Tame
<1>3. CASE WritePart(p)
    <2>1. PICK n : view' = [view EXCEPT ![p].txn = n]
        BY <1>3 DEF WritePart
    <2>2. PICK v : v = [view[p] EXCEPT !.txn = n]
        OBVIOUS
    <2>3. v.tries = view[p].tries
        BY <1>1, <2>2 DEF ViewT
    <2>4. view' = [view EXCEPT ![p] = v]
        BY <2>1, <2>2
    <2>5. view'[p] = v
        BY <1>1, <2>4 DEF TInv, Types, MemTypes
    <2>6. map' = map /\ idx' = idx /\ op' = op /\ pc'[p] = "write2"
        BY <1>1, <1>3 DEF WritePart, Goto, TInv, Types, MemTypes
    <2>. QED BY <2>3, <2>5, <2>6 DEF Tame
<1>4. CASE FindRefresh(p)
    <2>1. Finding(p) /\ view' = [view EXCEPT ![p] = ViewRange(p)] /\ UNCHANGED <<map, idx, op, pc>>
        BY <1>4 DEF FindRefresh
    <2>2. view'[p] = ViewRange(p)
        BY <1>1, <2>1 DEF TInv, Types, MemTypes
    <2>3. view'[p].tries = view[p].tries
        BY <2>1, <2>2, RangeData
    <2>. QED BY <2>1, <2>3 DEF Tame, Finding
<1>5. CASE WriteRest(p)
    <2>1. PICK r : r = Local(p)
        OBVIOUS
    <2>2. r.pc = pc[p] /\ r.op = op[p] /\ Reader(c, b, r)
        BY <2>1, LocalFields, Before
    <2>3. op[p] # "fsck"
        BY <1>5, <2>2 DEF WriteRest, Reader, OpsOK
    <2>4. view'[p] = NoView /\ op' = op /\ pc'[p] = "fsync"
        BY <1>1, <1>5 DEF WriteRest, Goto, TInv, Types, MemTypes
    <2>. QED BY <2>3, <2>4 DEF Tame, NoView
<1>. QED BY <1>2, <1>3, <1>4, <1>5

(* The log with which everything began is found, and has what was read. *)
LEMMA FirstIsFound ==
    ASSUME NEW c, NEW b, Calm(c, b), NEW p \in Procs, pc[p] # "closed", Last = 1
    PROVE  /\ head[p] = path /\ file[path].prevSeq = 0
           /\ ~NoBeginning(p)
<1>1. PICK r : r = Local(p)
    OBVIOUS
<1>2. r.pc = pc[p] /\ r.head = head[p] /\ Reader(c, b, r)
    BY <1>1, LocalFields, Before
<1>3. Known(c, head[p]) /\ c[Last] = path /\ 1 \in 1..Last
    BY <1>2, EndOfLog DEF Reader
<1>4. head[p] = path
    BY <1>3 DEF Known
<1>5. file[path].prevSeq = 0
    BY <1>3 DEF Calm, DInv, Chain, Linked
<1>. QED BY <1>4, <1>5 DEF NoBeginning

(* The first log is found by whoever looks for it. *)
LEMMA FirstNotLost ==
    ASSUME NEW c, NEW b, Calm(c, b), NEW p \in Procs, Finding(p), Last = 1, NEW list, list \subseteq 1..nfile,
           \A i \in list : Known(c, i), head[p] \in list, NotFound(p, list)
    PROVE  pc' = pc \/ pc' = [pc EXCEPT ![p] = "mapf"]
<1>1. head[p] = path
    BY FirstIsFound DEF Finding
<1>2. ViewRange(p).tail = Last
    BY RangeData DEF Starts
<1>3. FoundIn(p, list) # <<>> /\ FoundIn(p, list)[Len(FoundIn(p, list))] = head[p]
    BY <1>1, <1>2, FoundLast
<1>. QED BY <1>3 DEF NotFound, Goto

(* The log stays, or p replaces it by the next one. *)
LogMoves(p) == \/ path' = path /\ Last' = Last
               \/ RotateRename(p) /\ Last' = Last + 1

(* The log is changed by its owner alone. *)
LEMMA StepMoves ==
    ASSUME NEW c, NEW b, Calm(c, b), Unreset, NEW p \in Procs,
           \/ Plain(p) \/ Forgets(p) \/ OpenLog(p) \/ MapFile(p) \/ WriteRest(p)
           \/ RotateRename(p) \/ WriteIndex(p)
    PROVE  LogMoves(p)
<1>1. CASE Plain(p) \/ Forgets(p)
    BY <1>1 DEF Plain, Forgets, LogMoves
<1>2. CASE OpenLog(p) \/ WriteIndex(p)
    <2>1. file' = file /\ path' = path
        BY <1>2 DEF OpenLog, WriteIndex, SyncEnd, diskVars
    <2>. QED BY <2>1 DEF LogMoves, Last
<1>3. CASE MapFile(p)
    BY <1>3, MapFileReads DEF LogMoves, Last
<1>4. CASE WriteRest(p)
    <2>1. path' = path
        BY <1>4 DEF WriteRest
    <2>. QED BY <1>4, <2>1, CommitIs DEF LogMoves
<1>5. CASE RotateRename(p)
    <2>1. PICK r : r = Local(p)
        OBVIOUS
    <2>2. r.pc = pc[p] /\ r.op = op[p] /\ r.locked = locked[p] /\ r.new = new[p] /\ Owner(r) /\ LProc(p)
        BY <2>1, LocalFields, Before
    <2>3. pc[p] = "rot4" /\ path' = new[p] /\ file' = file
        BY <1>5 DEF RotateRename
    <2>4. locked[p]
        BY <2>2, <2>3 DEF LProc, PlacesOK, Rotating
    <2>5. file[r.new].seq = Last + 1
        BY <2>2, <2>3, <2>4 DEF Owner, Owns, NewIs, Rotating
    <2>6. Last' = Last + 1
        BY <2>2, <2>3, <2>5 DEF Last
    <2>. QED BY <1>5, <2>6 DEF LogMoves
<1>. QED BY <1>1, <1>2, <1>3, <1>4, <1>5

(* Another process' step. *)
LEMMA FscksApart ==
    ASSUME NEW c, NEW b, Calm(c, b), NEW p \in Procs, Apart(p), LogMoves(p), NEW q \in Procs, q # p, Fscks(q)
    PROVE  Fscks(q)'
<1>1. /\ pc'[q] = pc[q] /\ op'[q] = op[q] /\ view'[q] = view[q] /\ map'[q] = map[q]
      /\ idx'[q] = idx[q] /\ sync'[q] = sync[q]
    BY DEF Apart
<1>2. Last \in Nat /\ Last # 0
    BY EndOfLog
<1>3. CASE path' = path /\ Last' = Last
    BY <1>1, <1>3 DEF Fscks, First, Retries, Checked
<1>4. CASE RotateRename(p) /\ Last' = Last + 1
    <2>1. First(q)' /\ Retries(q)'
        BY <1>1, <1>2, <1>4 DEF Fscks, First, Retries
    <2>2. pc[q] # "fsck"
        <3>. SUFFICES ASSUME pc[q] = "fsck" PROVE FALSE
            OBVIOUS
        <3>1. LProc(p) /\ LProc(q) /\ pc[p] = "rot4"
            BY <1>4, Before DEF RotateRename
        <3>2. locked[p] /\ locked[q] /\ pc[q] # "check" /\ pc[p] # "check"
            BY <3>1 DEF LProc, PlacesOK, Rotating
        <3>3. Owns(Local(p)) /\ Owns(Local(q))
            BY <3>2, LocalFields DEF Owns
        <3>. QED BY <3>3, OwnsAlone DEF Calm, Safe
    <2>. QED BY <1>1, <2>1, <2>2 DEF Fscks, Checked
<1>. QED BY <1>3, <1>4 DEF LogMoves

(* After a tame step what is known about fscks is still true. *)
LEMMA TameFscks ==
    ASSUME NEW c, NEW b, Calm(c, b), NEW p \in Procs, Tame(p), LogMoves(p), Fscks(p)
    PROVE  Fscks(p)'
<1>1. Last \in Nat /\ Last # 0
    BY EndOfLog
<1>2. Last' = 1 => Last = 1
    BY <1>1 DEF LogMoves
<1>. QED BY <1>2 DEF Tame, Fscks, First, Retries, Checked

(* After the log has been locked and read for an fsck. *)
LEMMA SyncLockFscks ==
    ASSUME NEW c, NEW b, Calm(c, b), NEW p \in Procs, SyncLock(p), Fscks(p)
    PROVE  Fscks(p)'
<1>1. /\ pc[p] = "check" /\ path = head[p] /\ op[p] \in {"sync", "fsck"}
      /\ sync' = Only(p, head[p], Complete(head[p]))
      /\ pc' = [pc EXCEPT ![p] = IF op[p] = "sync" THEN "view" ELSE "fsck"]
      /\ UNCHANGED <<file, path, op, map, idx, view>>
    BY DEF SyncLock, Goto, diskVars
<1>2. /\ TInv /\ Last \in 1..Last /\ Last \in Nat /\ c[Last] = path /\ path \in Inodes /\ Whole(path) \in Nat
      /\ Complete(path) = 2 * Whole(path)
    BY EndOfLog, WholeOK DEF Calm, Safe
<1>3. Last' = Last /\ pc'[p] = (IF op[p] = "sync" THEN "view" ELSE "fsck") /\ sync'[p][path] = Complete(path)
    BY <1>1, <1>2 DEF Last, Only, TInv, Types, MemTypes
<1>4. First(p)' /\ Retries(p)'
    BY <1>1, <1>3 DEF Fscks, First, Retries
<1>5. Checked(p)'
    <2>. SUFFICES ASSUME map[p].seq = Last PROVE map[p].off <= Complete(path)
        BY <1>1, <1>3 DEF Checked
    <2>1. PICK r : r = Local(p)
        OBVIOUS
    <2>2. r.map = map[p] /\ Reader(c, b, r)
        BY <2>1, LocalFields, Before
    <2>3. map[p] # NoMap
        BY <1>2 DEF NoMap
    <2>4. PICK x \in 0..Whole(path) : map[p].off = 2 * x
        BY <1>2, <2>2, <2>3 DEF Reader, Fits, At
    <2>. QED BY <1>2, <2>4
<1>. QED BY <1>4, <1>5 DEF Fscks

(* After a search for files. *)
LEMMA FindersFsck ==
    ASSUME NEW c, NEW b, Calm(c, b), NEW p \in Procs, FindEnd(p) \/ FindOld(p), Fscks(p)
    PROVE  Fscks(p)'
<1>1. Finding(p) /\ pc[p] = "view" /\ UNCHANGED <<file, path, op, map, idx>>
    BY DEF FindEnd, FindOld, Finding, diskVars
<1>2. Last' = Last /\ TInv
    BY <1>1 DEF Last, Calm, Safe
<1>3. PICK r : r = Local(p)
    OBVIOUS
<1>4. r.files = files[p] /\ r.head = head[p] /\ r.pc = "view" /\ Reader(c, b, r)
    BY <1>1, <1>3, LocalFields, Before
<1>5. path2 # 0 => Known(c, path2)
    BY DEF Calm, DInv
<1>6. \E list : /\ head[p] \in list /\ (\A i \in list : Known(c, i)) /\ list \subseteq 1..nfile
                /\ \/ NotFound(p, list)
                   \/ view' = [view EXCEPT ![p] = ViewRange(p)] /\ pc' = pc
    <2>1. CASE FindEnd(p)
        <3>1. NotFound(p, files[p])
            BY <2>1 DEF FindEnd
        <3>. QED BY <1>4, <3>1 DEF Reader, Known
    <2>2. CASE FindOld(p)
        <3>. DEFINE reset == \E i \in files[p] : file[i].seq > Wanted(p) /\ file[i].prevSeq = 0
                    opens == ~reset /\ path2 # 0
                    dupe == opens /\ path2 \in files[p]
                    broken == opens /\ ~dupe /\ ~Usable(p, path2)
                    list == files[p] \cup (IF opens /\ ~dupe /\ ~broken THEN {path2} ELSE {})
        <3>1. NotFound(p, list) \/ (view' = [view EXCEPT ![p] = ViewRange(p)] /\ pc' = pc)
            BY <2>2 DEF FindOld
        <3>2. head[p] \in list /\ (\A i \in list : Known(c, i))
            BY <1>4, <1>5 DEF Reader
        <3>. HIDE DEF list
        <3>3. list \subseteq 1..nfile
            BY <3>2 DEF Known
        <3>. QED BY <3>1, <3>2, <3>3
    <2>. QED BY <2>1, <2>2
<1>7. PICK list : /\ head[p] \in list /\ (\A i \in list : Known(c, i)) /\ list \subseteq 1..nfile
                  /\ \/ NotFound(p, list)
                     \/ view' = [view EXCEPT ![p] = ViewRange(p)] /\ pc' = pc
    BY <1>6
<1>8. view'[p].tries = view[p].tries
    <2>1. PICK w \in ViewT : w = ViewRange(p) /\ w.tries = view[p].tries
        BY <1>1, RangeData
    <2>2. \/ view' = view \/ view' = [view EXCEPT ![p] = w]
          \/ \E n : view' = [view EXCEPT ![p] = [w EXCEPT !.todo = n]]
          \/ \E n : view' = [view EXCEPT ![p] = [w EXCEPT !.tail = n]]
        BY <1>7, <2>1 DEF NotFound
    <2>4. PICK v : view' = [view EXCEPT ![p] = v] /\ v.tries = view[p].tries
        <3>1. CASE view' = view
            BY <1>2, <3>1 DEF TInv, Types, MemTypes
        <3>2. CASE view' = [view EXCEPT ![p] = w]
            BY <2>1, <3>2
        <3>3. CASE \E n : view' = [view EXCEPT ![p] = [w EXCEPT !.todo = n]]
            <4>1. PICK n : view' = [view EXCEPT ![p] = [w EXCEPT !.todo = n]]
                BY <3>3
            <4>2. PICK v : v = [w EXCEPT !.todo = n]
                OBVIOUS
            <4>3. view' = [view EXCEPT ![p] = v] /\ v.tries = w.tries
                BY <4>1, <4>2 DEF ViewT
            <4>. QED BY <2>1, <4>3
        <3>4. CASE \E n : view' = [view EXCEPT ![p] = [w EXCEPT !.tail = n]]
            <4>1. PICK n : view' = [view EXCEPT ![p] = [w EXCEPT !.tail = n]]
                BY <3>4
            <4>2. PICK v : v = [w EXCEPT !.tail = n]
                OBVIOUS
            <4>3. view' = [view EXCEPT ![p] = v] /\ v.tries = w.tries
                BY <4>1, <4>2 DEF ViewT
            <4>. QED BY <2>1, <4>3
        <3>. QED BY <2>2, <3>1, <3>2, <3>3, <3>4
    <2>. QED BY <1>2, <2>4 DEF TInv, Types, MemTypes
<1>9. pc'[p] # "fsck" /\ (Last = 1 => pc'[p] # "lost")
    <2>1. pc' = pc \/ \E l \in {"mapf", "lost"} : pc' = [pc EXCEPT ![p] = l]
        BY <1>7 DEF NotFound, Goto
    <2>2. Last = 1 => pc' = pc \/ pc' = [pc EXCEPT ![p] = "mapf"]
        BY <1>1, <1>7, FirstNotLost
    <2>. QED BY <1>1, <1>2, <2>1, <2>2 DEF TInv, Types, MemTypes
<1>. QED BY <1>1, <1>2, <1>8, <1>9 DEF Fscks, First, Retries, Checked

(* After mapping a file. *)
LEMMA MapFileFscks ==
    ASSUME NEW c, NEW b, Calm(c, b), NEW p \in Procs, MapFile(p), Unreset
    PROVE  Tame(p)
<1>1. pc[p] = "mapf" /\ UNCHANGED idx /\ TInv /\ op[p] # "reset" /\ view[p] \in ViewT
    BY DEF MapFile, Calm, Safe, Unreset, TInv, Types, MemTypes
<1>0. op[p] # "fsck"
    <2>1. PICK r : r = Local(p)
        OBVIOUS
    <2>2. r.pc = pc[p] /\ r.op = op[p] /\ Reader(c, b, r)
        BY <2>1, LocalFields, Before
    <2>. QED BY <1>1, <2>2 DEF Reader, OpsOK
<1>2. PICK i : i = Found(p)[view[p].todo]
    OBVIOUS
<1>3. PICK from : from = (IF file[i].seq = view[p].seq THEN view[p].off ELSE 0)
    OBVIOUS
<1>4. ~(from > Complete(i))
    <2>1. from <= Complete(i) /\ i \in Inodes
        BY <1>1, <1>2, <1>3, Gathering
    <2>2. from \in Int /\ Complete(i) \in Int
        <3>1. view[p].off \in Nat
            BY <1>1, ViewOf
        <3>2. Complete(i) = 2 * Whole(i) /\ Whole(i) \in Nat
            BY <1>1, <2>1, WholeOK
        <3>. QED BY <1>3, <3>1, <3>2
    <2>. QED BY <2>1, <2>2
<1>5. \/ \E o, t : MapDone(p, o, t)
      \/ /\ UNCHANGED <<pc, op, map>>
         /\ \E t : view' = [view EXCEPT ![p].todo = @ - 1, ![p].got = t]
    BY <1>2, <1>3, <1>4 DEF MapFile
<1>6. CASE \E o, t : MapDone(p, o, t)
    <2>1. PICK o, t : MapDone(p, o, t)
        BY <1>6
    <2>2. view'[p] = NoView /\ op'[p] \in {"none", op[p]}
        BY <1>1, <2>1 DEF MapDone, TInv, Types, MemTypes
    <2>3. pc'[p] \in {"idle", "synced", "rot1", "write"}
        <3>1. \E l \in {"idle", "synced", "rot1", "write"} : pc' = [pc EXCEPT ![p] = l]
            BY <2>1 DEF MapDone, Goto
        <3>. QED BY <1>1, <3>1 DEF TInv, Types, MemTypes
    <2>. QED BY <1>0, <2>2, <2>3 DEF Tame, NoView
<1>7. CASE /\ UNCHANGED <<pc, op, map>>
           /\ \E t : view' = [view EXCEPT ![p].todo = @ - 1, ![p].got = t]
    <2>1. PICK t : view' = [view EXCEPT ![p].todo = @ - 1, ![p].got = t]
        BY <1>7
    <2>2. PICK v : v = [view[p] EXCEPT !.todo = @ - 1, !.got = t]
        OBVIOUS
    <2>3. v.tries = view[p].tries
        BY <1>1, <2>2 DEF ViewT
    <2>4. view'[p] = v
        BY <1>1, <2>1, <2>2 DEF TInv, Types, MemTypes
    <2>. QED BY <1>1, <1>7, <2>3, <2>4 DEF Tame
<1>. QED BY <1>5, <1>6, <1>7

(* After the log was found to be lost. *)
LEMMA LostFsckFscks ==
    ASSUME NEW c, NEW b, Calm(c, b), NEW p \in Procs, LostFsck(p), Fscks(p)
    PROVE  Fscks(p)'
<1>1. /\ Lost(p) /\ view[p].tries = 1 /\ UNCHANGED <<file, path, map, idx>> /\ TInv
      /\ view' = [view EXCEPT ![p] = [NoView EXCEPT !.tries = 1]]
      /\ \/ locked[p] /\ op' = op /\ pc' = [pc EXCEPT ![p] = "fsck"]
         \/ pc' = [pc EXCEPT ![p] = "lock"]
    BY DEF LostFsck, diskVars, Goto, Calm, Safe
<1>2. Last' = Last /\ pc[p] \in {"lost", "view"}
    BY <1>1 DEF Last, Lost
<1>3. Last # 1
    <2>. SUFFICES ASSUME Last = 1 PROVE FALSE
        OBVIOUS
    <2>1. pc[p] # "lost"
        BY DEF Fscks, First
    <2>2. ~NoBeginning(p)
        BY <1>2, FirstIsFound
    <2>. QED BY <1>1, <2>1, <2>2 DEF Lost
<1>4. op[p] # "fsck"
    <2>1. PICK r : r = Local(p)
        OBVIOUS
    <2>2. r.pc = pc[p] /\ r.op = op[p] /\ Reader(c, b, r)
        BY <2>1, LocalFields, Before
    <2>. QED BY <1>2, <2>2 DEF Reader, OpsOK
<1>5. view'[p].tries = 1
    BY <1>1 DEF TInv, Types, MemTypes, NoView
<1>6. Retries(p)'
    BY <1>1, <1>5 DEF Fscks, Retries
<1>7. Checked(p)'
    BY <1>1, <1>4 DEF Checked, TInv, Types, MemTypes
<1>. QED BY <1>2, <1>3, <1>6, <1>7 DEF Fscks, First

(* After dovecot.index was read again. *)
LEMMA ReopenFscks ==
    ASSUME NEW c, NEW b, Calm(c, b), NEW p \in Procs, Reopen(p), Fscks(p)
    PROVE  Fscks(p)'
<1>1. /\ map' = [map EXCEPT ![p] = IF index.seq = 0 THEN @ ELSE index]
      /\ idx' = [idx EXCEPT ![p] = index] /\ pc' = [pc EXCEPT ![p] = "view"]
      /\ UNCHANGED <<file, path, op, index>> /\ TInv
    BY DEF Reopen, Ident, Goto, diskVars, Calm, Safe
<1>2. Last' = Last /\ pc'[p] = "view" /\ idx'[p] = index /\ (index.seq = 0 \/ map'[p] = index)
    BY <1>1 DEF Last, TInv, Types, MemTypes
<1>3. op[p] # "fsck"
    <2>1. PICK r : r = Local(p)
        OBVIOUS
    <2>2. r.pc = pc[p] /\ r.op = op[p] /\ Reader(c, b, r)
        BY <2>1, LocalFields, Before
    <2>3. pc[p] \in {"lost", "view"}
        BY DEF Reopen, Lost
    <2>. QED BY <2>2, <2>3 DEF Reader, OpsOK
<1>. QED BY <1>1, <1>2, <1>3 DEF Fscks, First, Retries, Checked

(* After an fsck. *)
LEMMA FsckFscks ==
    ASSUME NEW c, NEW b, Calm(c, b), NEW p \in Procs, Fsck(p), Fscks(p)
    PROVE  Fscks(p)'
<1>1. PICK m : m = index'
    OBVIOUS
<1>2. /\ map' = [map EXCEPT ![p] = IF m.seq = 0 THEN FsckedMap(p) ELSE m]
      /\ idx' = [idx EXCEPT ![p] = m] /\ pc' = [pc EXCEPT ![p] = "view"]
      /\ op' = [op EXCEPT ![p] = IF @ = "fsck" THEN "read" ELSE @]
      /\ UNCHANGED <<file, path>> /\ TInv
    BY <1>1 DEF Fsck, Ident, Goto, Calm, Safe
<1>3. Last' = Last /\ pc'[p] = "view" /\ idx'[p] = m /\ (m.seq = 0 \/ map'[p] = m) /\ op'[p] # "fsck"
    BY <1>2 DEF Last, TInv, Types, MemTypes
<1>. QED BY <1>3 DEF Fscks, First, Retries, Checked

(* fsck finds that dovecot.index is as it should be. *)
LEMMA FsckFindsNothing ==
    ASSUME NEW c, NEW b, Calm(c, b), NEW p \in Procs, Fsck(p), Fscks(p), Unreset, Indexed, ~gap
    PROVE  index' = index /\ index.seq # 0
<1>1. /\ pc[p] = "fsck" /\ index' = (IF idx[p] = index THEN FsckedMap(p) ELSE index)
    BY DEF Fsck, Ident
<1>2. PICK r : r = Local(p)
    OBVIOUS
<1>3. /\ r.pc = pc[p] /\ r.op = op[p] /\ r.locked = locked[p] /\ r.map = map[p] /\ r.idx = idx[p] /\ r.view = view[p]
      /\ Reader(c, b, r) /\ Owner(r) /\ LProc(p) /\ TInv /\ LInv
    BY <1>2, LocalFields, Before
<1>4. locked[p] /\ Owns(r)
    BY <1>1, <1>3 DEF LProc, PlacesOK, Owns
<1>5. head[p] = path
    BY <1>2, <1>3, <1>4, OwnsLog
<1>6. Last \in Nat /\ Last # 0 /\ path \in Inodes
    BY EndOfLog
<1>7. index.seq = Last
    <2>1. ~\E q \in Procs : pc[q] = "rotated"
        <3>. SUFFICES ASSUME NEW q \in Procs, pc[q] = "rotated" PROVE FALSE
            OBVIOUS
        <3>1. LProc(q)
            BY Before
        <3>2. locked[q]
            BY <3>1 DEF LProc, PlacesOK
        <3>3. Owns(Local(q))
            BY <3>2, LocalFields DEF Owns
        <3>4. p = q
            BY <1>2, <1>3, <1>4, <3>3, OwnsAlone
        <3>. QED BY <1>1, <3>4
    <2>2. Last # 1
        BY <1>1 DEF Fscks, First
    <2>. QED BY <2>1, <2>2, Zenon DEF Indexed
<1>8. op[p] = "fsck"
    <2>. SUFFICES ASSUME op[p] # "fsck" PROVE FALSE
        OBVIOUS
    <2>1. /\ r.view.tries # 0 => index.seq = 0 \/ (r.idx = index /\ r.map = index)
          /\ r.view.tries # 0 /\ r.map.seq # Last
        BY <1>1, <1>3, <1>4 DEF Owner, Reopened
    <2>. QED BY <1>6, <1>7, <2>1
<1>9. CASE idx[p] # index
    BY <1>1, <1>6, <1>7, <1>9
<1>10. CASE idx[p] = index
    <2>1. view[p].tries # 0
        BY <1>8 DEF Fscks, Retries
    <2>2. map[p] = index
        BY <1>6, <1>7, <1>10, <2>1 DEF Fscks, Retries
    <2>3. index.off <= sync[p][path] /\ index \in MapT /\ sync[p][path] \in Nat
        BY <1>1, <1>6, <1>7, <1>8, <2>2 DEF Fscks, Checked, Calm, Safe, TInv, Types, DiskTypes, MemTypes
    <2>4. FsckedMap(p) = index
        <3>1. PICK n : n = Min({index.off, sync[p][path]})
            OBVIOUS
        <3>2. n = index.off
            <4>1. index.off \in Nat
                BY <2>3 DEF MapT
            <4>2. n \in {index.off, sync[p][path]} /\ \A y \in {index.off, sync[p][path]} : n <= y
                <5>1. {index.off, sync[p][path]} \subseteq Nat /\ {index.off, sync[p][path]} # {}
                    BY <2>3, <4>1
                <5>2. n \in {index.off, sync[p][path]}
                    BY <3>1, <5>1, MinNat
                <5>. QED BY <2>3, <3>1, <4>1, <5>2, MinOfTwo
            <4>. QED BY <2>3, <4>1, <4>2
        <3>3. FsckedMap(p) = [index EXCEPT !.seq = Last, !.off = n]
            <4>1. ~(map[p].seq < file[head[p]].seq) /\ map[p].seq = file[head[p]].seq /\ Last = file[head[p]].seq
                BY <1>5, <1>6, <1>7, <2>2 DEF Last
            <4>. QED BY <1>5, <2>2, <3>1, <4>1 DEF FsckedMap
        <3>. QED BY <1>7, <2>3, <3>2, <3>3 DEF MapT
    <2>. QED BY <1>1, <1>6, <1>7, <1>10, <2>4
<1>. QED BY <1>9, <1>10

(* What is noted of a crash is not taken back, and only fsck loses. *)
LEMMA GapStays ==
    ASSUME NEW p \in Procs, Work(p) \/ Other(p)
    PROVE  (gap => gap') /\ (loss' = loss \/ Fsck(p))
<1>1. CASE Other(p)
    <2>1. CASE Crash(p) \/ IndexWriteFail(p)
        <3>1. loss' = loss
            BY <2>1 DEF Crash, IndexWriteFail
        <3>2. gap => gap'
            <4>1. CASE Crash(p)
                <5>1. gap' = (gap \/ pc[p] = "rotated")
                    BY <4>1 DEF Crash
                <5>. QED BY <5>1, Zenon
            <4>2. CASE IndexWriteFail(p)
                BY <4>2, Zenon DEF IndexWriteFail
            <4>. QED BY <2>1, <4>1, <4>2
        <3>. QED BY <3>1, <3>2, Zenon
    <2>2. CASE ~(Crash(p) \/ IndexWriteFail(p))
        <3>1. loss' = loss /\ gap' = gap
            BY <1>1, <2>2 DEF Other, OpenLog, OpenCorrupted, Close, Begin, Refresh, CrashInWrite, WriteFail, FsyncFail,
                   RotateFail, MoveToMemory, ghostVars, diskVars
        <3>. QED BY <3>1, Zenon
    <2>. QED BY <2>1, <2>2
<1>2. CASE Work(p)
    <2>1. gap' = gap /\ (loss' = loss \/ Fsck(p))
        <3>2. CASE \/ OpenNoLog(p) \/ CreateUse(p) \/ CreateNew(p) \/ CreateFail(p) \/ OpenIndex(p)
                   \/ Acquire(p) \/ Timeout(p) \/ CheckChanged(p) \/ CheckUnusable(p) \/ LogGone(p)
                   \/ CheckSame(p) \/ ResetBegin(p) \/ SyncLock(p) \/ SyncLockFail(p)
            BY <3>2 DEF OpenNoLog, CreateUse, CreateNew, CreateFail, OpenIndex, Acquire, Timeout, CheckChanged,
                   CheckUnusable, LogGone, CheckSame, ResetBegin, SyncLock, SyncLockFail, GiveUp, ghostVars
        <3>3. CASE \/ FindRefresh(p) \/ FindUnusable(p) \/ FindGone(p)
                   \/ FindEnd(p) \/ FindOld(p) \/ MapFile(p) \/ MapFileFail(p)
            BY <3>3 DEF FindRefresh, FindUnusable, FindGone, FindEnd, FindOld, MapFile, MapFileFail, GiveUp, ghostVars
        <3>4. CASE \/ Reopen(p) \/ LostFsck(p) \/ LostFail(p) \/ IndexGone(p) \/ FsckFail(p) \/ Trunc(p)
            BY <3>4 DEF Reopen, LostFsck, LostFail, IndexGone, FsckFail, Trunc, GiveUp, ghostVars
        <3>5. CASE \/ WriteNothing(p) \/ WritePart(p) \/ WriteRest(p) \/ Fsynced(p) \/ UnlinkIndex(p)
                   \/ RotateBegin(p) \/ RotateCreate(p) \/ RotateBroken(p) \/ RotateUnlink(p)
                   \/ RotateLink(p) \/ RotateRename(p) \/ WriteIndex(p) \/ SkipIndex(p)
            BY <3>5 DEF WriteNothing, WritePart, WriteRest, Fsynced, UnlinkIndex, RotateBegin, RotateCreate, RotateBroken,
                   RotateUnlink, RotateLink, RotateRename, WriteIndex, SkipIndex, SyncEnd, ghostVars
        <3>6. CASE Fsck(p)
            BY <3>6 DEF Fsck
        <3>. QED BY <1>2, <3>2, <3>3, <3>4, <3>5, <3>6 DEF Work
    <2>. QED BY <2>1, Zenon
<1>. QED BY <1>1, <1>2

(* The step of p keeps what it needs to know before it fscks. *)
LEMMA StepFscks ==
    ASSUME NEW c, NEW b, Calm(c, b), ~Damaged, ~Damaged', ~loss', "fsync" \notin IOFaults, MaxResets = 0, Unreset,
           NEW p \in Procs, Work(p) \/ Other(p), LogMoves(p), Fscks(p)
    PROVE  Fscks(p)'
<1>1. TInv /\ Safe /\ path \in 1..nfile
    BY EndOfLog DEF Calm, Safe
<1>2. CASE Other(p)
    <2>1. ~FsyncFail(p)
        BY DEF FsyncFail
    <2>2. Tame(p)
        BY <1>1, <1>2, <2>1, Excluded, TameForgets, TameMoves DEF Other
    <2>. QED BY <2>2, TameFscks
<1>3. CASE \/ OpenNoLog(p) \/ CreateUse(p) \/ CreateNew(p) \/ CreateFail(p) \/ OpenIndex(p)
           \/ Acquire(p) \/ Timeout(p) \/ CheckChanged(p) \/ CheckUnusable(p) \/ LogGone(p)
           \/ CheckSame(p) \/ ResetBegin(p) \/ SyncLock(p) \/ SyncLockFail(p)
    BY <1>1, <1>3, Excluded, TameForgets, TameMoves, TameOther, TameFscks, SyncLockFscks
<1>4. CASE \/ FindRefresh(p) \/ FindUnusable(p) \/ FindGone(p)
           \/ FindEnd(p) \/ FindOld(p) \/ MapFile(p) \/ MapFileFail(p)
    BY <1>1, <1>4, Excluded, TameForgets, TameOther, TameFscks, MapFileFscks, FindersFsck, MapFileFailData
<1>5. CASE \/ Reopen(p) \/ LostFsck(p) \/ LostFail(p) \/ IndexGone(p)
           \/ Fsck(p) \/ FsckFail(p) \/ Trunc(p)
    BY <1>1, <1>5, Excluded, TameForgets, TameFscks, ReopenFscks, LostFsckFscks, FsckFscks
<1>6. CASE \/ WriteNothing(p) \/ WritePart(p) \/ WriteRest(p) \/ Fsynced(p) \/ UnlinkIndex(p)
           \/ RotateBegin(p) \/ RotateCreate(p) \/ RotateBroken(p) \/ RotateUnlink(p)
           \/ RotateLink(p) \/ RotateRename(p) \/ WriteIndex(p) \/ SkipIndex(p)
    <2>1. ~UnlinkIndex(p)
        BY DEF UnlinkIndex, Unreset
    <2>. QED BY <1>1, <1>6, <2>1, TameMoves, TameOther, TameFscks
<1>. QED BY <1>2, <1>3, <1>4, <1>5, <1>6 DEF Work

(* After any step of anyone. *)
LEMMA NextFscks ==
    ASSUME NEW c, NEW b, Calm(c, b), ~Damaged, ~Damaged', ~loss', "fsync" \notin IOFaults, MaxResets = 0, Unreset,
           \A q \in Procs : Fscks(q), Next
    PROVE  \A q \in Procs : Fscks(q)'
<1>1. PICK p \in Procs :
          /\ Work(p) \/ Other(p)
          /\ \/ Plain(p) \/ Forgets(p) \/ OpenLog(p) \/ MapFile(p) \/ WriteRest(p)
             \/ RotateRename(p) \/ WriteIndex(p)
    BY Kinds
<1>2. LogMoves(p) /\ Apart(p)
    BY <1>1, StepMoves, StepApart DEF Calm, Safe
<1>3. Fscks(p)'
    BY <1>1, <1>2, StepFscks
<1>4. ASSUME NEW q \in Procs, q # p PROVE Fscks(q)'
    BY <1>2, <1>4, FscksApart
<1>. QED BY <1>3, <1>4

(* The invariant that fsck rests on. *)
FInv == FsckOnlyAfterGap /\ (Flawed \/ \A p \in Procs : Fscks(p))

(* Every step keeps the invariant. *)
LEMMA FNext ==
    ASSUME LockMethod = "flock", "fsync" \notin IOFaults, MaxResets = 0, TInv, TInv', WInv, RInv, FInv, [Next]_vars
    PROVE  FInv'
<1>1. CASE UNCHANGED vars
    <2>1. UNCHANGED <<file, nfile, path, pc, op, view, map, idx, sync, gap, loss>>
        BY <1>1 DEF vars, diskVars, memVars, ghostVars
    <2>2. Damaged' = Damaged /\ Last' = Last
        BY <2>1 DEF Damaged, Last
    <2>3. FsckOnlyAfterGap'
        BY <2>1, <2>2, Zenon DEF FInv, FsckOnlyAfterGap
    <2>4. Flawed' \/ \A p \in Procs : Fscks(p)'
        BY <2>1, <2>2 DEF FInv, Flawed, Fscks, First, Retries, Checked
    <2>. QED BY <2>3, <2>4 DEF FInv
<1>2. CASE Next
    <2>1. PICK p \in Procs : Work(p) \/ Other(p)
        BY <1>2 DEF Next
    <2>2. (gap => gap') /\ (loss' = loss \/ Fsck(p)) /\ (Flawed => Flawed')
        BY <2>1, GapStays, FlawedStays
    <2>3. Damaged => Damaged'
        <3>1. OkStays
            BY <1>2, FlawsStay
        <3>. QED BY <3>1 DEF Damaged, OkStays
    <2>4. CASE Flawed
        <3>1. Damaged \/ gap
            BY <2>4, Zenon DEF FInv, FsckOnlyAfterGap, Flawed
        <3>2. FsckOnlyAfterGap'
            BY <2>2, <2>3, <3>1, Zenon DEF FsckOnlyAfterGap
        <3>. QED BY <2>2, <2>4, <3>2, Zenon DEF FInv
    <2>5. CASE ~Flawed
        <3>1. LInv /\ Safe /\ Unreset /\ Indexed /\ (\A q \in Procs : Fscks(q)) /\ ~Damaged /\ ~loss
            BY <2>5 DEF WInv, Safe, RInv, FInv, Flawed
        <3>2. PICK c \in Numbering : \E b \in Numbering : DInv(c, b)
            BY <2>5 DEF WInv, Whatever
        <3>3. PICK b \in Numbering : DInv(c, b)
            BY <3>2
        <3>4. Calm(c, b)
            BY <3>1, <3>3 DEF Calm
        <3>5. FsckOnlyAfterGap'
            <4>. SUFFICES ASSUME loss', ~gap' PROVE FALSE
                BY Zenon DEF FsckOnlyAfterGap
            <4>1. ~gap /\ Fsck(p)
                BY <2>2, <3>1, Zenon
            <4>2. index' = index /\ index.seq # 0
                BY <3>1, <3>4, <4>1, FsckFindsNothing
            <4>3. loss' = (loss \/ index' # index \/ index.seq = 0)
                BY <4>1 DEF Fsck
            <4>. QED BY <3>1, <4>2, <4>3, Zenon
        <3>6. Flawed' \/ \A q \in Procs : Fscks(q)'
            <4>. SUFFICES ASSUME ~Flawed' PROVE \A q \in Procs : Fscks(q)'
                OBVIOUS
            <4>1. ~Damaged' /\ ~loss'
                BY DEF Flawed
            <4>. QED BY <1>2, <3>1, <3>4, <4>1, NextFscks
        <3>. QED BY <3>5, <3>6 DEF FInv
    <2>. QED BY <2>4, <2>5
<1>. QED BY <1>1, <1>2

(* Initially no one needs an fsck. *)
LEMMA FInit == ASSUME Init PROVE FInv
<1>1. ~loss
    BY DEF Init
<1>2. ASSUME NEW p \in Procs PROVE Fscks(p)
    BY DEF Init, Fscks, First, Retries, Checked, NoView
<1>. QED BY <1>1, <1>2, Zenon DEF FInv, FsckOnlyAfterGap

(* An fsck rewrites dovecot.index only after a rotator has died or failed  *)
(* between publishing the new log and rewriting dovecot.index; no          *)
(* interleaving of live processes leads to it.                             *)
THEOREM FsckNeedsAGap ==
    ASSUME LockMethod = "flock", "fsync" \notin IOFaults, MaxResets = 0
    PROVE  Spec => []FsckOnlyAfterGap
<1>1. TInv /\ TInv' /\ WInv /\ RInv /\ FInv /\ [Next]_vars => FInv'
    BY FNext
<1>2. Init => FInv
    BY FInit
<1>3. FInv => FsckOnlyAfterGap
    BY DEF FInv
<1>. QED BY <1>1, <1>2, <1>3, ResetFree, LogInvariant, DataInvariant, PTL DEF Spec
=============================================================================
