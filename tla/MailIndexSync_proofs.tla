------------------------ MODULE MailIndexSync_proofs ------------------------
(***************************************************************************)
(* Proofs about MailIndexSync, for any processes and any number of         *)
(* transactions, syncs, rotations and crashes.                             *)
(***************************************************************************)
EXTENDS MailIndexSync, WellFoundedInduction, TLAPS

-----------------------------------------------------------------------------
(* Induction and recursion over the natural numbers, with sets and         *)
(* functions instead of operators, so that the backends can instantiate    *)
(* them                                                                    *)

(* A set that has 0, and n + 1 whenever it has n, has every number.        *)
LEMMA NatInd ==
    ASSUME NEW S, 0 \in S, \A n \in Nat : n \in S => n + 1 \in S
    PROVE  \A n \in Nat : n \in S
<1>. DEFINE T == {n \in Nat : n \notin S}
<1>. SUFFICES ASSUME T # {} PROVE FALSE
    OBVIOUS
<1>1. PICK x \in T : \A y \in T : ~ (<<y, x>> \in OpToRel(<, Nat))
    <2>1. T \subseteq Nat
        OBVIOUS
    <2>. HIDE DEF T
    <2>. QED BY <2>1, WFMin, NatLessThanWellFounded
<1>2. \A y \in T : ~(y < x)
    BY <1>1 DEF OpToRel
<1>3. x # 0
    OBVIOUS
<1>4. x - 1 \in Nat /\ x - 1 \in S
    BY <1>2, <1>3
<1>. QED BY <1>4

(* The same up to a number. *)
LEMMA UpTo ==
    ASSUME NEW S, NEW m \in Nat, 0 \in S,
           \A n \in 0 .. m - 1 : n \in S => n + 1 \in S
    PROVE  \A n \in 0 .. m : n \in S
<1>. DEFINE T == {n \in Nat : n <= m => n \in S}
<1>1. 0 \in T
    OBVIOUS
<1>2. \A n \in Nat : n \in T => n + 1 \in T
    OBVIOUS
<1>3. \A n \in Nat : n \in T
    <2>. HIDE DEF T
    <2>. QED BY <1>1, <1>2, NatInd
<1>. QED BY <1>3

\* f is a run of m steps in X: it begins with a, and step gives what follows.
Run(f, X, m, a, step) ==
    /\ f \in [0 .. m -> X]
    /\ f[0] = a
    /\ \A i \in 1 .. m : f[i] = step[<<f[i - 1], i>>]

(* From a in X, n steps of a function on X can be taken one after another. *)
LEMMA Steps ==
    ASSUME NEW X, NEW m \in Nat, NEW a \in X,
           NEW step, step \in [X \X (1 .. m) -> X]
    PROVE  \E f : Run(f, X, m, a, step)
<1>. DEFINE Taken(f, n) == f[0] = a /\ \A i \in 1 .. n : f[i] = step[<<f[i - 1], i>>]
            S == {n \in 0 .. m : \E f \in [0 .. n -> X] : Taken(f, n)}
<1>1. 0 \in S
    <2>. DEFINE f == [i \in 0 .. 0 |-> a]
    <2>1. f \in [0 .. 0 -> X] /\ Taken(f, 0)
        OBVIOUS
    <2>. HIDE DEF f
    <2>. QED BY <2>1
<1>2. ASSUME NEW n \in 0 .. m - 1, n \in S PROVE n + 1 \in S
    <2>1. PICK f \in [0 .. n -> X] : Taken(f, n)
        BY <1>2
    <2>. DEFINE g == [i \in 0 .. n + 1 |-> IF i <= n THEN f[i] ELSE step[<<f[n], n + 1>>]]
    <2>2. step[<<f[n], n + 1>>] \in X
        <3>1. <<f[n], n + 1>> \in X \X (1 .. m)
            OBVIOUS
        <3>. QED BY <3>1
    <2>3. g \in [0 .. n + 1 -> X]
        BY <2>2
    <2>4. ASSUME NEW i \in 1 .. n + 1 PROVE g[i] = step[<<g[i - 1], i>>]
        <3>1. CASE i <= n
            BY <3>1, <2>1
        <3>2. CASE i = n + 1
            BY <3>2
        <3>. QED BY <3>1, <3>2
    <2>5. g[0] = a
        BY <2>1
    <2>6. Taken(g, n + 1)
        BY <2>4, <2>5
    <2>. HIDE DEF g
    <2>. QED BY <2>3, <2>6
<1>3. m \in S
    <2>. HIDE DEF S
    <2>. QED BY <1>1, <1>2, UpTo
<1>. QED BY <1>3 DEF Run

-----------------------------------------------------------------------------
Records == [kind : Kinds, tail : Int]
Memory == [open : BOOLEAN, file : Int, head : Int, tail : Int, log : Int,
           offset : Int, max : Int, last : Int]

\* Every request of the log l up to the tail offset t is one of done.
SafeIn(l, done, t) ==
    \A i \in 1..Len(l) : l[i].kind = "req" /\ i <= t => i \in done
Safe(t) == SafeIn(log, Settled, t)

\* The records are well formed, and the tail offsets among them safe.
LogOK ==
    /\ log \in Seq(Records)
    /\ \A i \in 1..End : /\ log[i].tail \in NoOffset..i
                         /\ Safe(log[i].tail)
    /\ Settled \subseteq Requests

\* What is said of the log file f of a process whose file is the current one.
Reads(f) ==
    /\ f \in Memory
    /\ f.offset \in 0..End
    /\ f.max \in NoOffset..f.offset
    /\ f.last \in NoOffset..f.max
    /\ Safe(f.max)

(* Reading one record keeps the positions in order and the tail safe: a    *)
(* tail offset moves by itself only over records that ask for nothing.     *)
LEMMA TrackSync ==
    ASSUME LogOK, NEW f, Reads(f), f.offset < End
    PROVE  LET g == log_file_track_sync(f, log[f.offset + 1])
           IN  /\ Reads(g)
               /\ g.offset = f.offset + 1
               /\ g.open = f.open /\ g.file = f.file /\ g.head = f.head
               /\ g.tail = f.tail /\ g.log = f.log
<1>. DEFINE rec == log[f.offset + 1]
<1>1. rec \in Records /\ f.offset + 1 \in 1..End
    <2>1. log \in Seq(Records) /\ End = Len(log) /\ End \in Nat /\ f.offset + 1 \in 1..End
        BY DEF LogOK, Reads, End
    <2>. QED BY <2>1
<1>2. rec.tail \in NoOffset..(f.offset + 1) /\ Safe(rec.tail)
    BY <1>1 DEF LogOK
<1>3. rec.kind \notin {"req", "hdr", "int"} /\ f.max = f.offset => Safe(f.max + 1)
    BY <1>1 DEF Reads, Safe, SafeIn, End
<1>. HIDE DEF rec
<1>. DEFINE To(m, l) == [f EXCEPT !.offset = f.offset + 1, !.max = m, !.last = l]
            Fit(m, l) == m \in NoOffset..(f.offset + 1) /\ l \in NoOffset..m /\ Safe(m)
<1>4. ASSUME NEW m, NEW l, Fit(m, l), log_file_track_sync(f, rec) = To(m, l)
      PROVE  LET g == log_file_track_sync(f, rec)
             IN  /\ Reads(g)
                 /\ g.offset = f.offset + 1
                 /\ g.open = f.open /\ g.file = f.file /\ g.head = f.head
                 /\ g.tail = f.tail /\ g.log = f.log
    <2>1. f \in Memory /\ f.offset \in Int /\ f.offset + 1 \in Int /\ m \in Int /\ l \in Int
        BY <1>4 DEF Reads, Memory, NoOffset
    <2>2. LET g == To(m, l) IN
             /\ g \in Memory
             /\ g.offset = f.offset + 1 /\ g.max = m /\ g.last = l
             /\ g.open = f.open /\ g.file = f.file /\ g.head = f.head
             /\ g.tail = f.tail /\ g.log = f.log
        BY <2>1 DEF Memory
    <2>. HIDE DEF To
    <2>. QED BY <1>1, <1>4, <2>1, <2>2 DEF Reads
<1>5. \E m, l : Fit(m, l) /\ log_file_track_sync(f, rec) = To(m, l)
    <2>1. f \in Memory /\ f.offset \in Int /\ f.max \in NoOffset..f.offset
          /\ f.last \in NoOffset..f.max /\ Safe(f.max) /\ rec.tail \in Int
          /\ f.max \in Int /\ f.last \in Int
        BY <1>1 DEF Reads, Memory, Records
    <2>2. CASE rec.kind \in {"req", "int"}
        <3>1. Fit(f.max, f.last)
            BY <2>1 DEF NoOffset
        <3>2. log_file_track_sync(f, rec) = To(f.max, f.last)
            BY <2>1, <2>2 DEF log_file_track_sync, Memory
        <3>. QED BY <3>1, <3>2
    <2>3. CASE rec.kind = "hdr" /\ rec.tail < f.last
        <3>1. Fit(f.max, f.last)
            BY <2>1 DEF NoOffset
        <3>2. log_file_track_sync(f, rec) = To(f.max, f.last)
            BY <2>1, <2>3 DEF log_file_track_sync, Memory
        <3>. QED BY <3>1, <3>2
    <2>4. CASE rec.kind = "hdr" /\ ~(rec.tail < f.last)
        <3>1. Fit(Later(f.max, rec.tail), rec.tail)
            BY <1>2, <2>1 DEF NoOffset, Later
        <3>2. log_file_track_sync(f, rec) = To(Later(f.max, rec.tail), rec.tail)
            BY <2>1, <2>4 DEF log_file_track_sync, Memory
        <3>. QED BY <3>1, <3>2
    <2>5. CASE rec.kind \notin {"req", "int", "hdr"} /\ f.max = f.offset
        <3>1. Fit(f.max + 1, f.last)
            BY <1>3, <2>1, <2>5 DEF NoOffset
        <3>2. log_file_track_sync(f, rec) = To(f.max + 1, f.last)
            BY <2>1, <2>5 DEF log_file_track_sync, Memory
        <3>. QED BY <3>1, <3>2
    <2>6. CASE rec.kind \notin {"req", "int", "hdr"} /\ f.max # f.offset
        <3>1. Fit(f.max, f.last)
            BY <2>1 DEF NoOffset
        <3>2. log_file_track_sync(f, rec) = To(f.max, f.last)
            BY <2>1, <2>6 DEF log_file_track_sync, Memory
        <3>. QED BY <3>1, <3>2
    <2>. QED BY <2>2, <2>3, <2>4, <2>5, <2>6
<1>. QED BY <1>4, <1>5 DEF rec

(* log_file_read() is what reading one record after the other gives.       *)
LEMMA ReadSteps ==
    ASSUME LogOK, NEW r, Reads(r), NEW n \in Nat, r.offset + n <= End
    PROVE  \E f : /\ log_file_read(r, n) = f[n]
                  /\ f[0] = r
                  /\ \A i \in 1..n : f[i] = log_file_track_sync(f[i - 1], log[r.offset + i])
<1>. DEFINE Step(g, i) == log_file_track_sync(g, log[r.offset + i])
            IsRead(f) == f = [i \in 0..n |-> IF i = 0 THEN r ELSE Step(f[i - 1], i)]
            X == Memory
            step == [x \in X \X (1..n) |-> Step(x[1], x[2])]
<1>1. ASSUME NEW g \in Memory, NEW i \in 1..n PROVE Step(g, i) \in Memory
    <2>1. r.offset \in Nat /\ End = Len(log) /\ log \in Seq(Records) /\ End \in Nat
        BY DEF Reads, LogOK, End
    <2>2. r.offset + i \in 1..Len(log)
        BY <2>1
    <2>3. log[r.offset + i] \in Records
        BY <2>1, <2>2
    <2>. DEFINE rec == log[r.offset + i]
    <2>4. rec.tail \in Int
        BY <2>3 DEF Records
    <2>. HIDE DEF rec
    <2>. DEFINE To(m, l) == [g EXCEPT !.offset = g.offset + 1, !.max = m, !.last = l]
    <2>5. ASSUME NEW m \in Int, NEW l \in Int PROVE To(m, l) \in Memory
        <3>1. g.offset + 1 \in Int
            BY DEF Memory
        <3>. QED BY <3>1 DEF Memory
    <2>6. g.max \in Int /\ g.max + 1 \in Int /\ g.last \in Int /\ Later(g.max, rec.tail) \in Int
        BY <2>4 DEF Memory, Later
    <2>7. \/ log_file_track_sync(g, rec) = To(g.max, g.last)
          \/ log_file_track_sync(g, rec) = To(g.max + 1, g.last)
          \/ log_file_track_sync(g, rec) = To(Later(g.max, rec.tail), rec.tail)
        BY DEF log_file_track_sync, Memory
    <2>. HIDE DEF To
    <2>. QED BY <2>4, <2>5, <2>6, <2>7 DEF rec
<1>2. step \in [X \X (1..n) -> X]
    <2>1. ASSUME NEW x \in X \X (1..n) PROVE Step(x[1], x[2]) \in X
        <3>. HIDE DEF Step
        <3>. QED BY <1>1
    <2>. HIDE DEF Step, X
    <2>. QED BY <2>1
<1>3. PICK f : Run(f, X, n, r, step)
    <2>1. r \in X
        BY DEF Reads
    <2>. HIDE DEF X, step
    <2>. QED BY <1>2, <2>1, Steps
<1>4. \A i \in 1..n : f[i] = Step(f[i - 1], i)
    <2>1. ASSUME NEW i \in 1..n PROVE f[i] = Step(f[i - 1], i)
        <3>. HIDE DEF Step, X
        <3>1. i - 1 \in 0..n
            OBVIOUS
        <3>2. <<f[i - 1], i>> \in X \X (1..n)
            BY <1>3, <3>1 DEF Run
        <3>3. step[<<f[i - 1], i>>] = Step(f[i - 1], i)
            BY <3>2
        <3>. HIDE DEF step
        <3>. QED BY <1>3, <3>3 DEF Run
    <2>. HIDE DEF Step
    <2>. QED BY <2>1
<1>5. IsRead(f)
    <2>. HIDE DEF Step, X, step
    <2>1. \A i \in 0..n : f[i] = IF i = 0 THEN r ELSE Step(f[i - 1], i)
        BY <1>3, <1>4 DEF Run
    <2>2. f = [i \in 0..n |-> f[i]]
        BY <1>3 DEF Run
    <2>. QED BY <2>1, <2>2
<1>6. IsRead(CHOOSE g : IsRead(g))
    <2>. HIDE DEF IsRead
    <2>. QED BY <1>5, Zenon
<1>. DEFINE h == CHOOSE g : IsRead(g)
<1>7. log_file_read(r, n) = h[n]
    BY DEF log_file_read
<1>8. h[0] = r /\ \A i \in 1..n : h[i] = Step(h[i - 1], i)
    <2>1. IsRead(h)
        BY <1>6
    <2>. HIDE DEF h, Step
    <2>. QED BY <2>1
<1>. HIDE DEF h
<1>. QED BY <1>7, <1>8

(* Reading on keeps what reading one record keeps. *)
LEMMA Reading ==
    ASSUME LogOK, NEW r, Reads(r), NEW n \in Nat, r.offset + n <= End
    PROVE  LET g == log_file_read(r, n)
           IN  /\ Reads(g)
               /\ g.offset = r.offset + n
               /\ g.open = r.open /\ g.file = r.file /\ g.head = r.head
               /\ g.tail = r.tail /\ g.log = r.log
               /\ n = 0 => g = r
<1>. DEFINE Good(g, i) ==
               /\ Reads(g)
               /\ g.offset = r.offset + i
               /\ g.open = r.open /\ g.file = r.file /\ g.head = r.head
               /\ g.tail = r.tail /\ g.log = r.log
<1>1. PICK f : /\ log_file_read(r, n) = f[n]
               /\ f[0] = r
               /\ \A i \in 1..n : f[i] = log_file_track_sync(f[i - 1], log[r.offset + i])
    BY ReadSteps
<1>2. r.offset \in Nat /\ End \in Nat
    BY DEF Reads, LogOK, End
<1>. DEFINE S == {i \in 0..n : Good(f[i], i)}
<1>3. 0 \in S
    BY <1>1, <1>2
<1>4. ASSUME NEW i \in 0..n - 1, i \in S PROVE i + 1 \in S
    <2>1. Good(f[i], i)
        BY <1>4
    <2>2. f[i].offset < End /\ r.offset + (i + 1) = f[i].offset + 1
        BY <1>2, <2>1
    <2>3. f[i + 1] = log_file_track_sync(f[i], log[f[i].offset + 1])
        <3>1. i + 1 \in 1..n /\ (i + 1) - 1 = i
            OBVIOUS
        <3>. QED BY <1>1, <2>2, <3>1
    <2>4. Good(f[i + 1], i + 1)
        <3>. HIDE DEF S
        <3>1. LET g == f[i + 1]
              IN  /\ Reads(g)
                  /\ g.offset = f[i].offset + 1
                  /\ g.open = f[i].open /\ g.file = f[i].file /\ g.head = f[i].head
                  /\ g.tail = f[i].tail /\ g.log = f[i].log
            BY <2>1, <2>2, <2>3, TrackSync
        <3>. QED BY <2>1, <2>2, <3>1
    <2>. QED BY <2>4
<1>5. n \in S
    <2>. HIDE DEF S
    <2>. QED BY <1>3, <1>4, UpTo
<1>. QED BY <1>1, <1>5

-----------------------------------------------------------------------------
\* The files of the log, and dovecot.index.
FilesOK ==
    /\ start \in 0..End /\ older \in NoOffset..End /\ Safe(start)
    /\ index \in [file : Int, head : Int, tail : Int]
    /\ index.file \in NoOffset..End /\ index.head \in NoOffset..End
    /\ index.tail = index.head /\ Safe(index.tail)

\* What a process has in memory: positions in order, and safe tail offsets.
Fits(r) ==
    /\ r \in Memory
    /\ r.file \in NoOffset..End
    /\ r.log \in NoOffset..start
    /\ r.log = start => start <= r.offset
    /\ r.offset \in NoOffset..End
    /\ r.max \in NoOffset..r.offset
    /\ r.last \in NoOffset..r.max
    /\ Safe(r.max)
    /\ r.head \in NoOffset..End
    /\ r.tail \in NoOffset..r.head
    /\ Safe(r.tail)

\* What it has once it has mapped the index.
Mapped(g, r) ==
    /\ Fits(g)
    /\ g.open = r.open
    /\ g.file = start /\ g.log = start /\ g.offset = End /\ g.head = End
    /\ r.log = start /\ r.offset = End => g.last = r.last

(* The log file that is open when a map is updated. *)
LEMMA Opening ==
    ASSUME LogOK, FilesOK, NEW r, Fits(r)
    PROVE  LET f == OpenFile(r)
           IN  /\ Reads(f)
               /\ f.log = start /\ start <= f.offset
               /\ f.open = r.open /\ f.file = r.file /\ f.head = r.head
               /\ f.tail = r.tail
               /\ r.log = start /\ r.offset = End => f = r
<1>. DEFINE f == IF r.log = start THEN r
                 ELSE [r EXCEPT !.log = start, !.offset = start,
                                !.max = NoOffset, !.last = NoOffset]
<1>1. End \in Nat /\ start \in Nat /\ start <= End
    BY DEF LogOK, FilesOK, End
<1>2. Reads(f) /\ f.log = start /\ start <= f.offset /\ f.open = r.open
      /\ f.file = r.file /\ f.head = r.head /\ f.tail = r.tail
      /\ (r.log = start => f = r)
    <2>1. CASE r.log = start
        BY <1>1, <2>1 DEF Fits, Reads, Memory, NoOffset
    <2>2. CASE r.log # start
        <3>1. Safe(NoOffset)
            BY DEF Safe, SafeIn, NoOffset, End
        <3>2. r \in Memory /\ NoOffset \in Int /\ start \in Int /\ f = [r EXCEPT !.log = start, !.offset = start,
                                            !.max = NoOffset, !.last = NoOffset]
            BY <1>1, <2>2 DEF NoOffset, Fits
        <3>. HIDE DEF f
        <3>3. f \in Memory /\ f.log = start /\ f.offset = start /\ f.max = NoOffset
              /\ f.last = NoOffset /\ f.open = r.open /\ f.file = r.file
              /\ f.head = r.head /\ f.tail = r.tail
            BY <3>2 DEF Memory
        <3>. QED BY <1>1, <2>2, <3>1, <3>3 DEF Reads, NoOffset
    <2>. QED BY <2>1, <2>2
<1>. HIDE DEF f
<1>3. CASE ~(r.file = start /\ r.head > f.offset)
    BY <1>2, <1>3 DEF OpenFile, f
<1>4. CASE r.file = start /\ r.head > f.offset
    <2>. DEFINE m == Later(f.max, r.tail)
    <2>1. /\ r.head \in 0..End /\ r.tail \in NoOffset..r.head /\ Safe(r.tail)
          /\ r.tail \in Int /\ r.head \in Int /\ f.max \in Int /\ f.offset \in Int
        BY <1>1, <1>2, <1>4 DEF Fits, Reads, Memory
    <2>2. m \in NoOffset..r.head /\ r.tail <= m /\ Safe(m) /\ m \in Int
        BY <1>2, <1>4, <2>1 DEF Later, Reads, NoOffset
    <2>3. OpenFile(r) = [f EXCEPT !.offset = r.head, !.last = r.tail, !.max = m]
        BY <1>4 DEF OpenFile, f
    <2>. HIDE DEF m
    <2>. DEFINE g == [f EXCEPT !.offset = r.head, !.last = r.tail, !.max = m]
    <2>4. g \in Memory /\ g.offset = r.head /\ g.last = r.tail /\ g.max = m
          /\ g.log = f.log /\ g.open = f.open /\ g.file = f.file /\ g.head = f.head
          /\ g.tail = f.tail
        BY <1>2, <2>1, <2>2 DEF Reads, Memory
    <2>. HIDE DEF g
    <2>5. Reads(g)
        BY <2>1, <2>2, <2>4 DEF Reads
    <2>6. ~(r.log = start /\ r.offset = End)
        BY <1>1, <1>2, <1>4, <2>1
    <2>7. OpenFile(r) = g
        BY <2>3 DEF g
    <2>8. start <= r.head
        BY <1>1, <1>2, <1>4, <2>1
    <2>. QED BY <1>2, <2>4, <2>5, <2>6, <2>7, <2>8
<1>. QED BY <1>3, <1>4

(* Updating the map from memory, or from dovecot.index, keeps the positions *)
(* in order and the tail offsets safe.                                      *)
LEMMA MapUpdated ==
    ASSUME LogOK, FilesOK, NEW r, Fits(r)
    PROVE  Mapped(mail_index_sync_map(r), r)
<1>. DEFINE o == OpenFile(r)
            n == End - o.offset
            f == log_file_read(o, n)
            t == Later(IF f.file = start THEN f.tail ELSE NoOffset, f.max)
            g == [f EXCEPT !.file = start, !.head = End, !.tail = t]
<1>1. /\ Reads(o) /\ o.log = start /\ o.open = r.open /\ o.tail = r.tail
      /\ r.log = start /\ r.offset = End => o = r
    BY Opening
<1>. HIDE DEF o
<1>2. End \in Nat /\ start \in Nat /\ start <= End /\ n \in Nat /\ o.offset + n = End
    BY <1>1 DEF LogOK, FilesOK, End, Reads
<1>. HIDE DEF n
<1>3. /\ Reads(f) /\ f.offset = End /\ f.open = r.open /\ f.log = start /\ f.tail = r.tail
      /\ n = 0 => f = o
    BY <1>1, <1>2, Reading
<1>. HIDE DEF f
<1>4. t \in NoOffset..End /\ Safe(t) /\ t \in Int
    <2>1. Safe(NoOffset)
        BY DEF Safe, SafeIn, NoOffset, End
    <2>. QED BY <1>2, <1>3, <2>1 DEF Later, Fits, Reads, NoOffset
<1>. HIDE DEF t
<1>5. /\ g \in Memory /\ g.file = start /\ g.head = End /\ g.tail = t
      /\ g.open = f.open /\ g.log = f.log /\ g.offset = f.offset
      /\ g.max = f.max /\ g.last = f.last
    BY <1>2, <1>3, <1>4 DEF Reads, Memory
<1>6. mail_index_sync_map(r) = g
    BY DEF mail_index_sync_map, t, f, n, o
<1>. HIDE DEF g
<1>7. Fits(g)
    BY <1>2, <1>3, <1>4, <1>5 DEF Fits, Reads, NoOffset
<1>8. r.log = start /\ r.offset = End => g.last = r.last
    BY <1>1, <1>2, <1>3, <1>5 DEF n
<1>. QED BY <1>3, <1>5, <1>6, <1>7, <1>8 DEF Mapped

LEMMA MapReread ==
    ASSUME LogOK, FilesOK, NEW r, Fits(r)
    PROVE  Mapped(FromIndex(r), r)
<1>. DEFINE q == [r EXCEPT !.file = index.file, !.head = index.head, !.tail = index.tail]
<1>1. /\ q \in Memory /\ q.file = index.file /\ q.head = index.head /\ q.tail = index.tail
      /\ q.open = r.open /\ q.log = r.log /\ q.offset = r.offset
      /\ q.max = r.max /\ q.last = r.last
    BY DEF FilesOK, Fits, Memory
<1>2. FromIndex(r) = mail_index_sync_map(q)
    BY DEF FromIndex
<1>. HIDE DEF q
<1>3. Fits(q)
    BY <1>1 DEF Fits, FilesOK
<1>4. Mapped(mail_index_sync_map(q), q)
    BY <1>3, MapUpdated
<1>. QED BY <1>1, <1>2, <1>4 DEF Mapped

LEMMA Mapping ==
    ASSUME LogOK, FilesOK, NEW r, Fits(r), NEW g \in mail_index_map(r)
    PROVE  Mapped(g, r)
BY MapUpdated, MapReread DEF mail_index_map

-----------------------------------------------------------------------------
(* The inductive invariant.                                                *)

ProcsOK ==
    /\ proc \in [Procs -> Memory]
    /\ \A p \in Procs : Fits(proc[p]) /\ (~proc[p].open => proc[p] = Closed)

AllDone == Requests \subseteq Settled

\* A sync has read everything, nobody else has written since, and each
\* request that it does not have before it has been done.
SyncOK ==
    /\ sync \in [proc : Procs \cup {NoProc}, stage : {"none", "sync", "write", "recreate"},
                 update : BOOLEAN, todo : SUBSET Requests, pos : Int,
                 requests : BOOLEAN, expunges : BOOLEAN, full : BOOLEAN]
    /\ sync.proc = NoProc => sync = NoSync
    /\ sync.proc # NoProc => proc[sync.proc].open /\ sync.stage # "none"
    /\ sync.stage = "sync" =>
          /\ proc[sync.proc].log = start
          /\ proc[sync.proc].offset = End
          /\ proc[sync.proc].last <= sync.pos
          /\ sync.pos \in 0..End
          /\ Requests \subseteq Settled \cup sync.todo
    /\ sync.full => AllDone /\ sync.todo = {}
    /\ sync.stage = "recreate" => sync.full

IInv == LogOK /\ FilesOK /\ ProcsOK /\ SyncOK /\ ~panic

(* A longer log, and more requests done, leave a safe tail offset safe.    *)
LEMMA StaysSafe ==
    ASSUME LogOK, NEW t \in Int, t <= End, Safe(t),
           Len(log') \in Nat, \A i \in 1..End : i \in 1..Len(log') => log'[i] = log[i],
           Settled \subseteq Settled'
    PROVE  Safe(t)'
BY DEF LogOK, Safe, SafeIn, End

(* The same for everything a process has in memory. *)
LEMMA StaysFit ==
    ASSUME LogOK, FilesOK, NEW r, Fits(r), log' \in Seq(Records), End <= Len(log'),
           \A i \in 1..End : log'[i] = log[i],
           Settled \subseteq Settled', start' = start
    PROVE  Fits(r)'
<1>1. End \in Nat /\ End' = Len(log') /\ End' \in Nat /\ End <= End' /\ start \in Int
    BY DEF LogOK, End, FilesOK
<1>2. r.max \in Int /\ r.max <= End /\ r.tail \in Int /\ r.tail <= End
    BY <1>1 DEF Fits, Memory, NoOffset
<1>3. Safe(r.max)' /\ Safe(r.tail)'
    BY <1>1, <1>2, StaysSafe DEF Fits
<1>. QED BY <1>1, <1>3 DEF Fits, NoOffset, Memory

(* The log and its files when records are appended. *)
LEMMA Appended ==
    ASSUME LogOK, FilesOK, log' \in Seq(Records), End <= Len(log'),
           \A i \in 1..End : log'[i] = log[i],
           \A i \in End + 1..Len(log') :
               log'[i].tail \in NoOffset..i /\ SafeIn(log', Settled, log'[i].tail),
           UNCHANGED <<start, older, index, Settled>>
    PROVE  LogOK' /\ FilesOK'
<1>1. End \in Nat /\ End' = Len(log') /\ End' \in Nat /\ End <= End'
    BY DEF LogOK, End
<1>2. ASSUME NEW t \in Int, t <= End, Safe(t) PROVE SafeIn(log', Settled', t)
    BY <1>1, <1>2 DEF Safe, SafeIn, End
<1>3. LogOK'
    <2>1. ASSUME NEW i \in 1..End'
          PROVE  log'[i].tail \in NoOffset..i /\ SafeIn(log', Settled', log'[i].tail)
        <3>1. CASE i \in 1..End
            <4>1. log'[i] = log[i] /\ log[i].tail \in NoOffset..i /\ Safe(log[i].tail)
                BY <3>1 DEF LogOK
            <4>2. log[i].tail \in Int /\ log[i].tail <= End
                BY <1>1, <3>1, <4>1 DEF NoOffset
            <4>. QED BY <1>2, <4>1, <4>2
        <3>2. CASE i \in End + 1..Len(log')
            BY <3>2
        <3>. QED BY <1>1, <3>1, <3>2
    <2>2. (Settled \subseteq Requests)'
        BY <1>1 DEF LogOK, Requests, End
    <2>. QED BY <2>1, <2>2 DEF LogOK, Safe
<1>4. FilesOK'
    <2>1. SafeIn(log', Settled', start) /\ SafeIn(log', Settled', index.tail)
        <3>1. start \in Int /\ start <= End /\ Safe(start)
            BY <1>1 DEF FilesOK
        <3>2. index.tail \in Int /\ index.tail <= End /\ Safe(index.tail)
            BY <1>1 DEF FilesOK
        <3>. QED BY <1>2, <3>1, <3>2
    <2>. QED BY <1>1, <2>1 DEF FilesOK, NoOffset, Safe
<1>. QED BY <1>3, <1>4

(* A process that has nothing open fits. *)
LEMMA ClosedFits ==
    ASSUME LogOK, FilesOK
    PROVE  Fits(Closed) /\ ~Closed.open
           /\ Fits([Closed EXCEPT !.open = TRUE]) /\ [Closed EXCEPT !.open = TRUE].open
<1>1. End \in Nat /\ start \in Nat
    BY DEF LogOK, FilesOK, End
<1>2. Safe(NoOffset)
    BY DEF Safe, SafeIn, NoOffset, End
<1>3. NoOffset \in Int
    BY DEF NoOffset
<1>. DEFINE Blank(r) == r.file = NoOffset /\ r.log = NoOffset /\ r.offset = NoOffset
          /\ r.max = NoOffset /\ r.last = NoOffset /\ r.head = NoOffset /\ r.tail = NoOffset
<1>4. ASSUME NEW r \in Memory, Blank(r)
      PROVE  Fits(r)
    BY <1>1, <1>2, <1>4 DEF Fits, NoOffset
<1>5. Closed \in Memory /\ Blank(Closed) /\ ~Closed.open
    BY <1>3 DEF Closed, Memory
<1>. DEFINE o == [Closed EXCEPT !.open = TRUE]
<1>6. o \in Memory /\ Blank(o) /\ o.open
    BY <1>5 DEF Memory
<1>. HIDE DEF Blank, o
<1>7. Fits(Closed) /\ Fits(o)
    BY <1>4, <1>5, <1>6
<1>. QED BY <1>5, <1>6, <1>7 DEF o

(* Nothing but what processes have in memory changes. *)
LEMMA Quiet ==
    ASSUME LogOK, FilesOK, UNCHANGED <<log, start, older, index, Settled>>
    PROVE  LogOK' /\ FilesOK' /\ End' = End /\ Requests' = Requests
           /\ \A r : Fits(r) => Fits(r)'
BY DEF LogOK, FilesOK, Fits, Safe, End, Requests

(* One process has something new in memory. *)
LEMMA OneProc ==
    ASSUME ProcsOK, NEW p \in Procs, NEW g, Fits(g)', g \in Memory,
           ~g.open => g = Closed,
           \A r : Fits(r) => Fits(r)',
           proc' = [proc EXCEPT ![p] = g]
    PROVE  ProcsOK'
BY DEF ProcsOK

-----------------------------------------------------------------------------
(* One lemma per action, or per kind of action: it preserves IInv.         *)

(* A sync is not disturbed by what another process does in its memory. *)
LEMMA SyncKept ==
    ASSUME SyncOK, sync.proc # NoProc => proc'[sync.proc] = proc[sync.proc],
           UNCHANGED <<sync, start, Settled>>, End' = End, Requests' = Requests
    PROVE  SyncOK'
<1>1. sync.stage # "none" => sync.proc # NoProc
    BY DEF SyncOK, NoSync
<1>. QED BY <1>1 DEF SyncOK, AllDone

(* A process that does not sync maps the index. *)
LEMMA MapStep ==
    ASSUME IInv, NEW p \in Procs, sync.proc # p, NEW r, r.open, NEW g, Mapped(g, r),
           proc' = [proc EXCEPT ![p] = g],
           UNCHANGED <<log, start, older, index, sync, Settled, panic>>
    PROVE  IInv'
<1>1. LogOK' /\ FilesOK' /\ End' = End /\ Requests' = Requests
      /\ \A x : Fits(x) => Fits(x)'
    BY Quiet DEF IInv
<1>2. g \in Memory /\ g.open /\ Fits(g)
    BY DEF Mapped, Fits
<1>3. ProcsOK'
    BY <1>1, <1>2, OneProc DEF IInv
<1>4. SyncOK'
    <2>1. sync.proc # NoProc => proc'[sync.proc] = proc[sync.proc]
        BY DEF IInv, SyncOK, ProcsOK
    <2>. QED BY <1>1, <2>1, SyncKept DEF IInv
<1>. QED BY <1>1, <1>3, <1>4 DEF IInv

LEMMA OpenStep == ASSUME IInv, NEW p \in Procs, Open(p) PROVE IInv'
<1>. DEFINE o == [Closed EXCEPT !.open = TRUE]
<1>1. Fits(o) /\ o.open
    BY ClosedFits DEF IInv
<1>2. sync.proc # p
    BY NoProcAssumption DEF IInv, SyncOK, Open
<1>. HIDE DEF o
<1>3. Mapped(FromIndex(o), o)
    BY <1>1, MapReread DEF IInv
<1>4. /\ proc' = [proc EXCEPT ![p] = FromIndex(o)]
      /\ UNCHANGED <<log, start, older, index, sync, Settled, panic>>
    BY DEF Open, o, Settled
<1>. QED BY <1>1, <1>2, <1>3, <1>4, MapStep

LEMMA RefreshStep == ASSUME IInv, NEW p \in Procs, mail_index_refresh(p) PROVE IInv'
<1>1. PICK g \in mail_index_map(proc[p]) : proc' = [proc EXCEPT ![p] = g]
    BY DEF mail_index_refresh
<1>2. Mapped(g, proc[p])
    BY Mapping DEF IInv, ProcsOK
<1>. QED BY <1>1, <1>2, MapStep DEF mail_index_refresh, Settled

(* A sync begins: it has every request that is not done. *)
LEMMA BeginStep ==
    ASSUME IInv, NEW p \in Procs, Unlocked, proc[p].open,
           NEW g, Mapped(g, proc[p]), NEW update \in BOOLEAN,
           proc' = [proc EXCEPT ![p] = g], sync' = SyncOf(p, g, update),
           UNCHANGED <<log, start, older, index, Settled, panic>>
    PROVE  IInv'
<1>1. LogOK' /\ FilesOK' /\ End' = End /\ Requests' = Requests
      /\ \A x : Fits(x) => Fits(x)'
    BY Quiet DEF IInv
<1>2. g \in Memory /\ g.open /\ Fits(g) /\ g.log = start /\ g.offset = End
    BY DEF Mapped, Fits
<1>3. ProcsOK'
    BY <1>1, <1>2, OneProc DEF IInv
<1>4. SyncOK'
    <2>. DEFINE todo == {i \in 1..End : i > Later(g.tail, start) /\ log[i].kind = "req"}
    <2>1. /\ sync'.proc = p /\ sync'.stage = "sync" /\ sync'.todo = todo
          /\ sync'.pos = End /\ ~sync'.full
        BY DEF SyncOf
    <2>2. todo \subseteq Requests /\ Requests \subseteq Settled \cup todo
        <3>1. SafeIn(log, Settled, Later(g.tail, start))
            BY <1>2 DEF IInv, FilesOK, Fits, Safe, Later
        <3>2. g.tail \in Int /\ start \in Int /\ Later(g.tail, start) \in Int
            BY <1>2 DEF IInv, FilesOK, Fits, Later
        <3>. HIDE DEF Later
        <3>. QED BY <3>1, <3>2 DEF SafeIn, Requests, End
    <2>3. End \in Nat /\ g.last <= End
        BY <1>2 DEF IInv, LogOK, Fits, End, NoOffset
    <2>4. proc'[p] = g
        BY DEF IInv, ProcsOK
    <2>5. p # NoProc
        BY NoProcAssumption
    <2>6. sync' \in [proc : Procs \cup {NoProc}, stage : {"none", "sync", "write", "recreate"},
                 update : BOOLEAN, todo : SUBSET Requests, pos : Int,
                 requests : BOOLEAN, expunges : BOOLEAN, full : BOOLEAN]
        BY <2>1, <2>2, <2>3 DEF SyncOf
    <2>. HIDE DEF todo
    <2>. QED BY <1>1, <1>2, <2>1, <2>2, <2>3, <2>4, <2>5, <2>6 DEF SyncOK
<1>. QED BY <1>1, <1>3, <1>4 DEF IInv

LEMMA SyncBeginStep ==
    ASSUME IInv, NEW p \in Procs, NEW update \in BOOLEAN, SyncBegin(p, update) PROVE IInv'
<1>1. PICK g \in mail_index_map(proc[p]) :
          proc' = [proc EXCEPT ![p] = g] /\ sync' = SyncOf(p, g, update)
    BY DEF SyncBegin
<1>2. Mapped(g, proc[p])
    BY Mapping DEF IInv, ProcsOK
<1>. QED BY <1>1, <1>2, BeginStep DEF SyncBegin, Settled

LEMMA SyncBeginRequireChangesStep ==
    ASSUME IInv, NEW p \in Procs, SyncBeginRequireChanges(p) PROVE IInv'
<1>1. PICK g \in mail_index_map(proc[p]) :
          /\ proc' = [proc EXCEPT ![p] = g]
          /\ \/ UNCHANGED sync
             \/ Unlocked /\ sync' = SyncOf(p, g, FALSE)
    BY DEF SyncBeginRequireChanges
<1>2. Mapped(g, proc[p])
    BY Mapping DEF IInv, ProcsOK
<1>3. CASE UNCHANGED sync
    BY <1>1, <1>2, <1>3, MapStep DEF SyncBeginRequireChanges, Settled
<1>4. CASE Unlocked /\ sync' = SyncOf(p, g, FALSE)
    BY <1>1, <1>2, <1>4, BeginStep DEF SyncBeginRequireChanges, Settled
<1>. QED BY <1>1, <1>3, <1>4

(* One record is appended. *)
LEMMA AppendOne ==
    ASSUME LogOK, FilesOK, NEW kind \in Kinds, log' = Append(log, Rec(kind)),
           UNCHANGED <<start, older, index, Settled>>
    PROVE  /\ LogOK' /\ FilesOK' /\ End' = End + 1 /\ End \in Nat
           /\ \A x : Fits(x) => Fits(x)'
           /\ Requests \subseteq Requests'
           /\ kind # "req" => Requests' = Requests
<1>. DEFINE rec == Rec(kind)
<1>1. NoOffset \in Int
    BY DEF NoOffset
<1>2. rec \in Records /\ rec.tail = NoOffset /\ rec.kind = kind
    BY <1>1 DEF Rec, Records
<1>. HIDE DEF rec
<1>3. log \in Seq(Records) /\ log' = Append(log, rec)
    BY DEF LogOK, rec
<1>4. log' \in Seq(Records) /\ Len(log') = End + 1 /\ End \in Nat
      /\ (\A i \in 1..End : log'[i] = log[i]) /\ log'[End + 1] = rec
    BY <1>2, <1>3 DEF End
<1>5. \A i \in End + 1..Len(log') :
               log'[i].tail \in NoOffset..i /\ SafeIn(log', Settled, log'[i].tail)
    BY <1>2, <1>4 DEF NoOffset, SafeIn
<1>6. LogOK' /\ FilesOK'
    BY <1>4, <1>5, Appended
<1>7. \A x : Fits(x) => Fits(x)'
    BY <1>4, StaysFit
<1>8. Requests \subseteq Requests' /\ (kind # "req" => Requests' = Requests)
    BY <1>2, <1>4 DEF Requests, End
<1>. QED BY <1>4, <1>6, <1>7, <1>8 DEF End

(* What writing changes of a process's memory. *)
LEMMA Writing ==
    ASSUME NEW r \in Memory, NEW recs, Len(recs) \in Nat
    PROVE  LET g == Wrote(r, recs) IN
             /\ g \in Memory /\ g.offset = r.offset + Len(recs)
             /\ g.open = r.open /\ g.file = r.file /\ g.tail = r.tail /\ g.log = r.log
             /\ g.max = r.max /\ g.last = r.last /\ g.head = r.head
<1>1. r.offset + Len(recs) \in Int
    BY DEF Memory
<1>2. Wrote(r, recs) = [r EXCEPT !.offset = r.offset + Len(recs)]
    BY DEF Wrote
<1>. DEFINE n == r.offset + Len(recs)
<1>. HIDE DEF n
<1>3. LET g == [r EXCEPT !.offset = n] IN
             /\ g \in Memory /\ g.offset = n
             /\ g.open = r.open /\ g.file = r.file /\ g.tail = r.tail /\ g.log = r.log
             /\ g.max = r.max /\ g.last = r.last /\ g.head = r.head
    BY <1>1 DEF Memory, n
<1>. QED BY <1>2, <1>3 DEF n

(* No sync is in progress. *)
LEMMA NoSyncOK == ASSUME sync' = NoSync PROVE SyncOK'
<1>1. NoOffset \in Int
    BY DEF NoOffset
<1>2. NoSync \in [proc : Procs \cup {NoProc}, stage : {"none", "sync", "write", "recreate"},
                  update : BOOLEAN, todo : SUBSET Requests', pos : Int,
                  requests : BOOLEAN, expunges : BOOLEAN, full : BOOLEAN]
    BY <1>1 DEF NoSync
<1>. QED BY <1>2 DEF SyncOK, NoSync

LEMMA TransactionStep ==
    ASSUME IInv, NEW p \in Procs, NEW kind \in Kinds, Transaction(p, kind) PROVE IInv'
<1>1. PICK r \in mail_index_map(proc[p]) :
          proc' = [proc EXCEPT ![p] = [Wrote(r, <<kind>>) EXCEPT !.head = End + 1]]
    BY DEF Transaction
<1>2. Mapped(r, proc[p]) /\ r.open
    <2>1. Mapped(r, proc[p])
        BY Mapping DEF IInv, ProcsOK
    <2>. QED BY <2>1 DEF Mapped, Transaction
<1>3. /\ LogOK' /\ FilesOK' /\ End' = End + 1 /\ End \in Nat
      /\ \A x : Fits(x) => Fits(x)'
      /\ Requests \subseteq Requests'
    BY AppendOne DEF IInv, Transaction, Settled
<1>0. PICK g : g = [Wrote(r, <<kind>>) EXCEPT !.head = End + 1]
    OBVIOUS
<1>4. r \in Memory /\ Fits(r) /\ r.log = start /\ r.offset = End /\ r.head = End
    BY <1>2 DEF Mapped, Fits
<1>5. /\ g \in Memory /\ g.offset = End + 1 /\ g.head = End + 1
      /\ g.open = r.open /\ g.file = r.file /\ g.tail = r.tail /\ g.log = r.log
      /\ g.max = r.max /\ g.last = r.last
    <2>. DEFINE w == Wrote(r, <<kind>>)
    <2>1. Len(<<kind>>) = 1
        OBVIOUS
    <2>2. /\ w \in Memory /\ w.offset = End + 1
          /\ w.open = r.open /\ w.file = r.file /\ w.tail = r.tail /\ w.log = r.log
          /\ w.max = r.max /\ w.last = r.last
        BY <1>4, <2>1, Writing
    <2>. HIDE DEF w
    <2>3. End + 1 \in Int
        BY <1>3
    <2>4. g = [w EXCEPT !.head = End + 1]
        BY <1>0 DEF w
    <2>. QED BY <2>2, <2>3, <2>4 DEF Memory
<1>6. Fits(g)'
    <2>1. Fits(r)'
        BY <1>3, <1>4
    <2>2. start' = start
        BY DEF Transaction
    <2>3. Fits(r)
        BY <1>4
    <2>. QED BY <1>3, <1>4, <1>5, <2>1, <2>2, <2>3 DEF Fits, NoOffset, Memory
<1>7. ProcsOK'
    BY <1>0, <1>1, <1>2, <1>3, <1>5, <1>6, OneProc DEF IInv
<1>8. SyncOK'
    BY NoSyncOK DEF IInv, SyncOK, Transaction, Unlocked
<1>. QED BY <1>3, <1>7, <1>8 DEF IInv, Transaction

LEMMA SyncTransactionStep ==
    ASSUME IInv, NEW p \in Procs, NEW kind \in Kinds, SyncTransaction(p, kind) PROVE IInv'
<1>1. PICK r \in mail_index_map(proc[p]) :
          proc' = [proc EXCEPT ![p] = Wrote(r, <<kind>>)]
    BY DEF SyncTransaction
<1>. USE NoProcAssumption
<1>2. /\ sync.proc = p /\ sync.stage = "sync" /\ sync' = sync /\ p # NoProc
      /\ proc[p].open /\ proc[p].log = start /\ proc[p].offset = End
      /\ proc[p].last <= sync.pos /\ sync.pos \in 0..End
      /\ Requests \subseteq Settled \cup sync.todo
    BY DEF SyncTransaction, Syncing, IInv, SyncOK
<1>3. Mapped(r, proc[p])
    BY Mapping DEF IInv, ProcsOK
<1>4. /\ LogOK' /\ FilesOK' /\ End' = End + 1 /\ End \in Nat
      /\ \A x : Fits(x) => Fits(x)'
      /\ Requests = Requests'
    BY AppendOne DEF IInv, SyncTransaction, Settled
<1>0. PICK g : g = Wrote(r, <<kind>>)
    OBVIOUS
<1>5. r \in Memory /\ Fits(r) /\ r.log = start /\ r.offset = End /\ r.head = End
      /\ r.last = proc[p].last /\ r.open
    BY <1>2, <1>3 DEF Mapped, Fits
<1>6. /\ g \in Memory /\ g.offset = End + 1
      /\ g.open = r.open /\ g.file = r.file /\ g.tail = r.tail /\ g.log = r.log
      /\ g.max = r.max /\ g.last = r.last /\ g.head = r.head
    <2>1. Len(<<kind>>) = 1
        OBVIOUS
    <2>. DEFINE w == Wrote(r, <<kind>>)
    <2>2. Len(<<kind>>) \in Nat /\ r \in Memory
        BY <1>5, <2>1
    <2>4. /\ w \in Memory /\ w.offset = r.offset + Len(<<kind>>)
          /\ w.open = r.open /\ w.file = r.file /\ w.tail = r.tail /\ w.log = r.log
          /\ w.max = r.max /\ w.last = r.last /\ w.head = r.head
        BY <2>2, Writing, Zenon
    <2>. HIDE DEF w
    <2>3. g = w
        BY <1>0 DEF w
    <2>. QED BY <1>5, <2>1, <2>4, <2>3
<1>7. Fits(g)'
    <2>1. Fits(r)'
        BY <1>4, <1>5
    <2>2. start' = start
        BY DEF SyncTransaction
    <2>3. Fits(r)
        BY <1>5
    <2>. QED BY <1>4, <1>5, <1>6, <2>1, <2>2, <2>3 DEF Fits, NoOffset, Memory
<1>8. ProcsOK'
    BY <1>0, <1>1, <1>4, <1>5, <1>6, <1>7, OneProc DEF IInv
<1>9. SyncOK'
    <2>1. proc'[p] = g
        BY <1>0, <1>1 DEF IInv, ProcsOK
    <2>2. start' = start /\ Settled' = Settled
        BY DEF SyncTransaction, Settled
    <2>3. /\ g.open /\ g.log = start /\ g.offset = End' /\ g.last <= sync.pos
          /\ sync.pos \in 0..End'
        BY <1>2, <1>4, <1>5, <1>6
    <2>4. SyncOK
        BY DEF IInv
    <2>. QED BY <1>2, <1>4, <2>1, <2>2, <2>3, <2>4 DEF SyncOK, AllDone
<1>. QED BY <1>4, <1>8, <1>9 DEF IInv, SyncTransaction

LEMMA CrashStep == ASSUME IInv, NEW p \in Procs, Crash(p) PROVE IInv'
<1>1. LogOK' /\ FilesOK' /\ End' = End /\ Requests' = Requests
      /\ \A x : Fits(x) => Fits(x)'
    BY Quiet DEF IInv, Crash, Settled
<1>2. Fits(Closed) /\ Closed \in Memory
    BY ClosedFits DEF IInv, Fits
<1>3. ProcsOK'
    BY <1>1, <1>2, OneProc DEF IInv, Crash
<1>4. SyncOK'
    <2>1. CASE sync.proc = p
        BY <2>1, NoSyncOK DEF Crash
    <2>2. CASE sync.proc # p
        <3>1. sync.proc # NoProc => proc'[sync.proc] = proc[sync.proc]
            BY <2>2 DEF IInv, SyncOK, ProcsOK, Crash
        <3>. QED BY <1>1, <2>2, <3>1, SyncKept DEF IInv, Crash, Settled
    <2>. QED BY <2>1, <2>2
<1>. QED BY <1>1, <1>3, <1>4 DEF IInv, Crash

LEMMA NextStep ==
    ASSUME IInv, NEW p \in Procs, NEW i \in sync.todo, mail_index_sync_next(p, i) PROVE IInv'
<1>1. /\ Settled' = Settled \cup {i} /\ sync' = [sync EXCEPT !.todo = sync.todo \ {i}]
      /\ UNCHANGED <<log, start, older, index, proc, panic>>
      /\ sync.todo \subseteq Requests
    BY DEF mail_index_sync_next, IInv, SyncOK, Settled
<1>2. End' = End /\ Requests' = Requests /\ End \in Nat /\ Len(log) = End
    BY <1>1 DEF End, Requests, IInv, LogOK
<1>3. ASSUME NEW t, Safe(t) PROVE SafeIn(log', Settled', t)
    BY <1>1, <1>3 DEF Safe, SafeIn
<1>4. LogOK'
    <2>1. \A j \in 1..End : log[j].tail \in NoOffset..j /\ SafeIn(log', Settled', log[j].tail)
        BY <1>3 DEF IInv, LogOK
    <2>. QED BY <1>1, <1>2, <2>1 DEF IInv, LogOK, Safe
<1>5. FilesOK'
    <2>1. SafeIn(log', Settled', start) /\ SafeIn(log', Settled', index.tail)
        BY <1>3 DEF IInv, FilesOK
    <2>. QED BY <1>1, <1>2, <2>1 DEF IInv, FilesOK, Safe
<1>6. ProcsOK'
    <2>1. \A x : Fits(x) => Fits(x)'
        BY <1>1, <1>2, StaysFit DEF IInv, LogOK
    <2>. QED BY <1>1, <2>1 DEF IInv, ProcsOK
<1>7. SyncOK'
    <2>1. sync.todo \ {i} \in SUBSET Requests /\ ~sync.full
        BY <1>1 DEF IInv, SyncOK
    <2>. QED BY <1>1, <1>2, <2>1 DEF IInv, SyncOK, NoSync
<1>. QED BY <1>1, <1>4, <1>5, <1>6, <1>7 DEF IInv

LEMMA NoneStep ==
    ASSUME IInv, NEW p \in Procs, mail_index_sync_next_none(p) PROVE IInv'
<1>1. LogOK' /\ FilesOK' /\ End' = End /\ Requests' = Requests
      /\ \A x : Fits(x) => Fits(x)'
    BY Quiet DEF IInv, mail_index_sync_next_none, Settled
<1>2. ProcsOK'
    BY <1>1 DEF IInv, ProcsOK, mail_index_sync_next_none
<1>3. SyncOK'
    <2>1. /\ sync' = [sync EXCEPT !.full = TRUE] /\ sync.todo = {} /\ sync.stage = "sync"
          /\ sync.proc = p /\ p # NoProc /\ UNCHANGED <<start, proc, Settled>>
        BY NoProcAssumption DEF mail_index_sync_next_none, Syncing, Settled
    <2>2. SyncOK
        BY DEF IInv
    <2>. QED BY <1>1, <2>1, <2>2 DEF SyncOK, AllDone
<1>. QED BY <1>1, <1>2, <1>3 DEF IInv, mail_index_sync_next_none

LEMMA EndStep ==
    ASSUME IInv, NEW p \in Procs, mail_index_sync_end(p) PROVE IInv'
<1>1. LogOK' /\ FilesOK' /\ End' = End /\ Requests' = Requests
      /\ \A x : Fits(x) => Fits(x)'
    BY Quiet DEF IInv, mail_index_sync_end, Settled
<1>2. ProcsOK'
    BY <1>1 DEF IInv, ProcsOK, mail_index_sync_end
<1>3. SyncOK'
    BY NoSyncOK DEF mail_index_sync_end
<1>. QED BY <1>1, <1>2, <1>3 DEF IInv, mail_index_sync_end

(* When all requests are done, every offset is safe. *)
LEMMA AllSafe == ASSUME AllDone, NEW t PROVE Safe(t)
BY DEF AllDone, Requests, Safe, SafeIn, End

(* The snapshot's tail offset is safe: either everything before it is done *)
(* or the requests that it passes are given up by this very step.          *)
LEMMA RecreateStep ==
    ASSUME IInv, NEW p \in Procs, mail_index_recreate(p) PROVE IInv'
<1>. USE NoProcAssumption
<1>1. /\ sync.proc = p /\ index' = Snapshot(proc[p].file, proc[p].head)
      /\ sync' = NoSync
      /\ UNCHANGED <<log, start, older, proc, panic>>
      /\ Settled \subseteq Settled'
      /\ Settled' \subseteq Settled \cup Requests
    BY DEF mail_index_recreate, Syncing, Settled
<1>2. End' = End /\ Requests' = Requests /\ End \in Nat /\ Len(log) = End
    BY <1>1 DEF End, Requests, IInv, LogOK
<1>3. ASSUME NEW t, Safe(t) PROVE SafeIn(log', Settled', t)
    BY <1>1, <1>3 DEF Safe, SafeIn
<1>4. LogOK'
    <2>1. \A j \in 1..End : log[j].tail \in NoOffset..j /\ SafeIn(log', Settled', log[j].tail)
        BY <1>3 DEF IInv, LogOK
    <2>. QED BY <1>1, <1>2, <2>1 DEF IInv, LogOK, Safe
<1>5. ProcsOK'
    <2>1. \A x : Fits(x) => Fits(x)'
        BY <1>1, <1>2, StaysFit DEF IInv, LogOK
    <2>. QED BY <1>1, <2>1 DEF IInv, ProcsOK
<1>6. FilesOK'
    <2>1. Fits(proc[p])
        BY DEF IInv, ProcsOK
    <2>2. SafeIn(log', Settled', start)
        BY <1>3 DEF IInv, FilesOK
    <2>3. SafeIn(log', Settled', proc[p].head)
        <3>1. CASE sync.full
            <4>1. Safe(proc[p].head)
                BY <3>1, AllSafe DEF IInv, SyncOK
            <4>. QED BY <1>3, <4>1
        <3>2. CASE ~sync.full
            <4>1. skipped' = skipped \cup ({i \in Requests : i <= proc[p].head} \ applied)
                  /\ applied' = applied
                BY <3>2 DEF mail_index_recreate
            <4>2. {i \in Requests : i <= proc[p].head} \subseteq Settled'
                BY <4>1 DEF Settled
            <4>. QED BY <1>1, <1>2, <4>2 DEF SafeIn, Requests
        <3>. QED BY <3>1, <3>2
    <2>4. index' = [file |-> proc[p].file, head |-> proc[p].head, tail |-> proc[p].head]
        BY <1>1 DEF Snapshot
    <2>5. /\ proc[p].file \in Int /\ proc[p].head \in Int
          /\ proc[p].file \in NoOffset..End /\ proc[p].head \in NoOffset..End
        BY <2>1 DEF Fits, Memory
    <2>. QED BY <1>1, <1>2, <2>2, <2>3, <2>4, <2>5 DEF IInv, FilesOK, Safe
<1>7. SyncOK'
    BY <1>1, NoSyncOK
<1>. QED BY <1>1, <1>4, <1>5, <1>6, <1>7 DEF IInv

LEMMA RotateStep == ASSUME IInv, NEW p \in Procs, Rotate(p) PROVE IInv'
<1>. USE NoProcAssumption
<1>0. PICK g : g = [open |-> TRUE, file |-> End, head |-> End, tail |-> End,
             log |-> End, offset |-> End, max |-> NoOffset, last |-> NoOffset]
    OBVIOUS
<1>1. /\ sync.proc = p /\ sync.full /\ sync' = [sync EXCEPT !.stage = "recreate"]
      /\ AllDone /\ sync.todo = {}
      /\ older' = start /\ start' = End /\ start < End
      /\ proc' = [proc EXCEPT ![p] = g]
      /\ UNCHANGED <<log, index, Settled, panic>>
    BY <1>0 DEF Rotate, Syncing, IInv, SyncOK, Settled
<1>2. End' = End /\ Requests' = Requests /\ End \in Nat /\ start \in 0..End
    BY <1>1 DEF End, Requests, IInv, LogOK, FilesOK
<1>3. LogOK'
    BY <1>1, <1>2 DEF IInv, LogOK, Safe
<1>4. FilesOK'
    <2>1. SafeIn(log', Settled', End) /\ SafeIn(log', Settled', index.tail)
        BY <1>1, AllSafe DEF Safe
    <2>. QED BY <1>1, <1>2, <2>1 DEF IInv, FilesOK, Safe, NoOffset
<1>5. \A x : Fits(x) => Fits(x)'
    BY <1>1, <1>2 DEF Fits, Safe, NoOffset, Memory
<1>6. g \in Memory /\ g.open /\ g.file = End /\ g.head = End /\ g.tail = End
      /\ g.log = End /\ g.offset = End /\ g.max = NoOffset /\ g.last = NoOffset
    <2>1. End \in Int /\ NoOffset \in Int
        BY <1>2 DEF NoOffset
    <2>. QED BY <1>0, <2>1 DEF Memory
<1>7. Fits(g)'
    <2>1. SafeIn(log', Settled', End) /\ SafeIn(log', Settled', NoOffset)
        BY <1>1, AllSafe DEF Safe
    <2>. QED BY <1>1, <1>2, <1>6, <2>1 DEF Fits, Safe, NoOffset
<1>8. ProcsOK'
    BY <1>1, <1>5, <1>6, <1>7, OneProc DEF IInv
<1>9. SyncOK'
    <2>1. proc'[p] = g
        BY <1>1 DEF IInv, ProcsOK
    <2>2. SyncOK /\ AllDone'
        BY <1>1, <1>2 DEF IInv, AllDone
    <2>. QED BY <1>1, <1>2, <1>6, <2>1, <2>2 DEF SyncOK
<1>. QED BY <1>1, <1>3, <1>4, <1>8, <1>9 DEF IInv

\* The records recs end a sync: they ask for nothing, and their tail offset
\* is at most m unless everything is synced.
Closing(recs, m) ==
    /\ recs \in Seq(Records)
    /\ \A i \in 1..Len(recs) :
          /\ recs[i].kind # "req"
          /\ recs[i].tail \in NoOffset..End + i
          /\ m # End => recs[i].tail <= m

(* The records that a sync ends with are such records. *)
LEMMA SyncRecords ==
    ASSUME LogOK, NEW r \in Memory, r.offset = End, r.max \in NoOffset..End,
           NEW changes \in {<<>>, <<Rec("ext")>>, <<Rec("exp")>>}
    PROVE  /\ Closing(<<>>, r.max)
           /\ Closing(log_append_sync_offset_if_needed(r, changes), r.max)
<1>1. End \in Nat /\ r.max \in Int /\ NoOffset \in Int
    BY DEF LogOK, End, NoOffset, Memory
<1>2. /\ changes \in Seq(Records) /\ Len(changes) \in Nat
      /\ \A i \in 1..Len(changes) : changes[i].kind # "req" /\ changes[i].tail = NoOffset
    <2>. DEFINE a == Rec("ext")
                b == Rec("exp")
    <2>1. /\ a \in Records /\ a.kind # "req" /\ a.tail = NoOffset
          /\ b \in Records /\ b.kind # "req" /\ b.tail = NoOffset
        BY <1>1 DEF Rec, Records, Kinds
    <2>2. changes \in {<<>>, <<a>>, <<b>>}
        OBVIOUS
    <2>. HIDE DEF a, b
    <2>3. CASE changes = <<>>
        BY <2>3
    <2>4. CASE changes = <<a>>
        BY <2>1, <2>4
    <2>5. CASE changes = <<b>>
        BY <2>1, <2>5
    <2>. QED BY <2>2, <2>3, <2>4, <2>5
<1>3. Closing(<<>>, r.max)
    BY DEF Closing
<1>4. Closing(changes, r.max)
    BY <1>1, <1>2 DEF Closing, NoOffset
<1>5. ASSUME NEW t \in Int, t \in NoOffset..(End + Len(changes) + 1), r.max # End => t = r.max
      PROVE  Closing(Append(changes, Header(t)), r.max)
    <2>. DEFINE h == Header(t)
    <2>1. h \in Records /\ h.kind # "req" /\ h.tail = t
        BY DEF Header, Records, Kinds
    <2>. HIDE DEF h
    <2>2. /\ Append(changes, h) \in Seq(Records) /\ Len(Append(changes, h)) = Len(changes) + 1
          /\ \A i \in 1..Len(changes) : Append(changes, h)[i] = changes[i]
          /\ Append(changes, h)[Len(changes) + 1] = h
        BY <1>2, <2>1
    <2>. DEFINE recs == Append(changes, h)
    <2>. HIDE DEF recs
    <2>3. /\ recs \in Seq(Records) /\ Len(recs) = Len(changes) + 1
          /\ \A i \in 1..Len(changes) : recs[i] = changes[i]
          /\ recs[Len(changes) + 1] = h
        BY <2>2 DEF recs
    <2>4. ASSUME NEW i \in 1..Len(recs)
          PROVE  /\ recs[i].kind # "req" /\ recs[i].tail \in NoOffset..End + i
                 /\ r.max # End => recs[i].tail <= r.max
        <3>1. CASE i \in 1..Len(changes)
            BY <1>1, <1>2, <2>3, <3>1 DEF NoOffset
        <3>2. CASE i = Len(changes) + 1
            BY <1>1, <1>2, <1>5, <2>1, <2>3, <3>2 DEF NoOffset
        <3>. QED BY <1>2, <2>3, <3>1, <3>2
    <2>5. Closing(recs, r.max)
        BY <2>3, <2>4 DEF Closing
    <2>. QED BY <2>5 DEF recs, h
<1>6. CASE r.max = r.offset
    <2>. DEFINE t == End + Len(changes) + 1
    <2>1. /\ log_append_sync_offset_if_needed(r, changes) \in {changes, Append(changes, Header(t))}
          /\ t \in Int /\ t \in NoOffset..t
        BY <1>1, <1>2, <1>6 DEF log_append_sync_offset_if_needed, NoOffset
    <2>2. Closing(Append(changes, Header(t)), r.max)
        BY <1>5, <1>6, <2>1
    <2>. HIDE DEF t
    <2>. QED BY <1>3, <1>4, <2>1, <2>2
<1>7. CASE r.max # r.offset
    <2>1. log_append_sync_offset_if_needed(r, changes) \in {changes, Append(changes, Header(r.max))}
        BY <1>7 DEF log_append_sync_offset_if_needed
    <2>2. Closing(Append(changes, Header(r.max)), r.max)
        BY <1>1, <1>2, <1>5 DEF NoOffset
    <2>. QED BY <1>3, <1>4, <2>1, <2>2
<1>. QED BY <1>6, <1>7

(* The log when they are appended. *)
LEMMA CommitLog ==
    ASSUME LogOK, FilesOK, NEW recs, NEW m \in NoOffset..End, Closing(recs, m), Safe(m),
           log' = log \o recs, UNCHANGED <<start, older, index, Settled>>
    PROVE  /\ LogOK' /\ FilesOK' /\ Len(recs) \in Nat /\ End' = End + Len(recs)
           /\ Requests' = Requests
           /\ \A x : Fits(x) => Fits(x)'
           /\ \A t \in Int : Safe(t) /\ t <= End => SafeIn(log', Settled', t)
           /\ m = End => \A t \in Int : SafeIn(log', Settled', t)
<1>1. recs \in Seq(Records) /\ Len(recs) \in Nat /\ log \in Seq(Records) /\ End \in Nat
    BY DEF Closing, LogOK, End
<1>2. /\ log' \in Seq(Records) /\ Len(log') = End + Len(recs)
      /\ \A i \in 1..End : log'[i] = log[i]
    BY <1>1 DEF End
<1>3. \A i \in End + 1..Len(log') : i - End \in 1..Len(recs) /\ log'[i] = recs[i - End]
    BY <1>1, <1>2 DEF End
<1>4. \A t \in Int : Safe(t) /\ t <= End => SafeIn(log', Settled, t)
    BY <1>1, <1>2 DEF Safe, SafeIn, End
<1>5. \A i \in End + 1..Len(log') : log'[i].kind # "req"
    BY <1>3 DEF Closing
<1>6. m = End => \A t \in Int : SafeIn(log', Settled, t)
    <2>1. SUFFICES ASSUME m = End, NEW i \in 1..Len(log'), log'[i].kind = "req"
                   PROVE  i \in Settled
        BY DEF SafeIn
    <2>2. i \in 1..End
        BY <1>1, <1>2, <1>5, <2>1
    <2>. QED BY <1>1, <1>2, <2>1, <2>2 DEF Safe, SafeIn, End
<1>7. ASSUME NEW i \in End + 1..Len(log')
      PROVE  log'[i].tail \in NoOffset..i /\ SafeIn(log', Settled, log'[i].tail)
    <2>. DEFINE t == log'[i].tail
    <2>1. t \in NoOffset..i /\ (m # End => t <= m) /\ t \in Int
        <3>1. i - End \in 1..Len(recs) /\ log'[i] = recs[i - End] /\ End + (i - End) = i
            BY <1>1, <1>3
        <3>. QED BY <3>1 DEF Closing, NoOffset
    <2>. HIDE DEF t
    <2>2. SafeIn(log', Settled, t)
        <3>1. CASE m = End
            BY <1>6, <2>1, <3>1
        <3>2. CASE m # End
            <4>1. Safe(t) /\ t <= End
                BY <1>1, <2>1, <3>2 DEF Safe, SafeIn, NoOffset, End
            <4>. QED BY <1>4, <2>1, <4>1
        <3>. QED BY <3>1, <3>2
    <2>. QED BY <2>1, <2>2 DEF t
<1>8. LogOK' /\ FilesOK'
    <2>1. End <= Len(log')
        BY <1>1, <1>2
    <2>. QED BY <1>2, <1>7, <2>1, Appended
<1>9. \A x : Fits(x) => Fits(x)'
    <2>1. End <= Len(log')
        BY <1>1, <1>2
    <2>. QED BY <1>2, <2>1, StaysFit
<1>10. Requests' = Requests
    BY <1>1, <1>2, <1>5 DEF Requests, End
<1>. QED BY <1>1, <1>2, <1>4, <1>6, <1>8, <1>9, <1>10 DEF End

\* What a commit makes of the process p: r is p with the new tail offset, recs
\* the records that it appends and w the process that has written them.
Committed(p, changes, r, recs, w) ==
    LET s == sync
        t == SyncedTo(proc[p], s)
        any == changes # <<>> \/ mail_index_sync_update_mailbox_offset(r, s)
    IN  /\ r = IF s.full THEN [proc[p] EXCEPT !.max = Later(@, t)] ELSE proc[p]
        /\ recs = IF any THEN log_append_sync_offset_if_needed(r, changes) ELSE <<>>
        /\ w = IF any /\ r.max = r.offset
               THEN [Wrote(r, recs) EXCEPT !.max = r.offset + Len(recs)]
               ELSE Wrote(r, recs)
        /\ panic' = (panic \/ (s.full /\ t < r.last) \/ (any /\ r.max < r.last))
        /\ log' = log \o recs
        /\ \E tail \in {w.tail} \cup (IF index.file = start THEN {index.tail} ELSE {NoOffset}) :
              proc' = [proc EXCEPT ![p] = [w EXCEPT !.head = w.offset,
                                                    !.tail = Later(tail, w.max)]]

LEMMA CommitParts ==
    ASSUME NEW p \in Procs, NEW changes, Commit(p, changes)
    PROVE  \E r, recs, w : Committed(p, changes, r, recs, w)
<1>. DEFINE T == SyncedTo(proc[p], sync)
            R == IF sync.full THEN [proc[p] EXCEPT !.max = Later(@, T)] ELSE proc[p]
            Any(x) == changes # <<>> \/ mail_index_sync_update_mailbox_offset(x, sync)
            Recs(x) == IF Any(x) THEN log_append_sync_offset_if_needed(x, changes)
                       ELSE <<>>
            W(x, y) == IF Any(x) /\ x.max = x.offset
                       THEN [Wrote(x, y) EXCEPT !.max = x.offset + Len(y)]
                       ELSE Wrote(x, y)
            After(x, y, z) ==
                /\ panic' = (panic \/ (sync.full /\ T < x.last) \/ (Any(x) /\ x.max < x.last))
                /\ log' = log \o y
                /\ \E tail \in {z.tail} \cup (IF index.file = start THEN {index.tail}
                                               ELSE {NoOffset}) :
                      proc' = [proc EXCEPT ![p] = [z EXCEPT !.head = z.offset,
                                                           !.tail = Later(tail, z.max)]]
<1>1. After(R, Recs(R), W(R, Recs(R)))
    BY Zenon DEF Commit
<1>2. PICK r : r = R
    OBVIOUS
<1>5. PICK recs : recs = Recs(r)
    OBVIOUS
<1>6. PICK w : w = W(r, recs)
    OBVIOUS
<1>3. After(r, recs, w)
    <2>. HIDE DEF After, Recs, W, R
    <2>. QED BY <1>1, <1>2, <1>5, <1>6
<1>4. Committed(p, changes, r, recs, w)
    BY <1>2, <1>3, <1>5, <1>6, Zenon DEF Committed
<1>. QED BY <1>4

(* The positions in these parts are in order, and the log is. *)
LEMMA CommitFits ==
    ASSUME IInv, NEW p \in Procs, NEW changes \in {<<>>, <<Rec("ext")>>, <<Rec("exp")>>},
           Commit(p, changes), NEW r, NEW recs, NEW w, Committed(p, changes, r, recs, w)
    PROVE  /\ r \in Memory /\ r.open /\ r.log = start /\ r.offset = End /\ r.file = proc[p].file
           /\ r.tail = proc[p].tail /\ r.head = proc[p].head /\ r.last = proc[p].last
           /\ r.max \in NoOffset..End /\ r.last \in NoOffset..r.max /\ Safe(r.max)
           /\ Closing(recs, r.max)
           /\ LogOK' /\ FilesOK' /\ Len(recs) \in Nat /\ End' = End + Len(recs)
           /\ Requests' = Requests
           /\ \A x : Fits(x) => Fits(x)'
           /\ \A t \in Int : Safe(t) /\ t <= End => SafeIn(log', Settled', t)
           /\ w \in Memory /\ w.open /\ w.log = start /\ w.offset = End' /\ w.file = r.file
           /\ w.tail = r.tail /\ w.last = r.last
           /\ w.max \in NoOffset..End' /\ w.last \in NoOffset..w.max
           /\ SafeIn(log', Settled', w.max)
           /\ w.max = r.max \/ w.max = End'
           /\ r.max = End => w.max = End'
<1>. USE NoProcAssumption
<1>. DEFINE T == SyncedTo(proc[p], sync)
<1>1. /\ sync.proc = p /\ sync.stage = "sync" /\ p # NoProc
      /\ proc[p].open /\ proc[p].log = start /\ proc[p].offset = End
      /\ proc[p].last <= sync.pos /\ sync.pos \in 0..End
      /\ sync.full => AllDone
    BY DEF Commit, Syncing, IInv, SyncOK
<1>2. Fits(proc[p]) /\ proc[p] \in Memory /\ End \in Nat /\ start \in 0..End
    BY DEF IInv, ProcsOK, LogOK, FilesOK, Fits, End
<1>3. T \in 0..End /\ proc[p].last <= T
    <2>1. T \in {sync.pos, End}
        BY <1>1 DEF SyncedTo
    <2>. HIDE DEF T
    <2>. QED BY <1>1, <1>2, <2>1 DEF Fits, NoOffset
<1>4. r = IF sync.full THEN [proc[p] EXCEPT !.max = Later(proc[p].max, T)] ELSE proc[p]
    BY DEF Committed
<1>. HIDE DEF T
<1>5. /\ r \in Memory /\ r.open /\ r.log = start /\ r.offset = End /\ r.file = proc[p].file
      /\ r.tail = proc[p].tail /\ r.head = proc[p].head /\ r.last = proc[p].last
      /\ r.max \in NoOffset..End /\ r.last \in NoOffset..r.max /\ Safe(r.max)
    <2>1. CASE ~sync.full
        <3>1. r = proc[p]
            BY <1>4, <2>1
        <3>. QED BY <1>1, <1>2, <3>1 DEF Fits
    <2>2. CASE sync.full
        <3>. DEFINE m == Later(proc[p].max, T)
        <3>1. m \in NoOffset..End /\ m \in Int /\ proc[p].last \in NoOffset..m
            BY <1>1, <1>2, <1>3 DEF Later, Fits, NoOffset
        <3>. HIDE DEF m
        <3>2. Safe(m)
            BY <1>1, <2>2, AllSafe
        <3>3. r = [proc[p] EXCEPT !.max = m]
            BY <1>4, <2>2 DEF m
        <3>4. /\ r \in Memory /\ r.max = m /\ r.open = proc[p].open /\ r.log = proc[p].log
              /\ r.offset = proc[p].offset /\ r.file = proc[p].file
              /\ r.tail = proc[p].tail /\ r.head = proc[p].head /\ r.last = proc[p].last
            BY <1>2, <3>1, <3>3 DEF Memory
        <3>. QED BY <1>1, <3>1, <3>2, <3>4
    <2>. QED BY <2>1, <2>2
<1>. DEFINE Any == changes # <<>> \/ mail_index_sync_update_mailbox_offset(r, sync)
<1>6. recs = IF Any THEN log_append_sync_offset_if_needed(r, changes) ELSE <<>>
    BY DEF Committed
<1>8. w = IF Any /\ r.max = r.offset
          THEN [Wrote(r, recs) EXCEPT !.max = r.offset + Len(recs)]
          ELSE Wrote(r, recs)
    BY DEF Committed
<1>. HIDE DEF Any
<1>7. Closing(recs, r.max)
    BY <1>5, <1>6, SyncRecords DEF IInv
<1>9. log' = log \o recs /\ UNCHANGED <<start, older, index, Settled>>
    BY DEF Committed, Commit, Settled
<1>10. /\ LogOK' /\ FilesOK' /\ Len(recs) \in Nat /\ End' = End + Len(recs)
       /\ Requests' = Requests
       /\ \A x : Fits(x) => Fits(x)'
       /\ \A t \in Int : Safe(t) /\ t <= End => SafeIn(log', Settled', t)
       /\ r.max = End => \A t \in Int : SafeIn(log', Settled', t)
    BY <1>5, <1>7, <1>9, CommitLog DEF IInv
<1>11. /\ w \in Memory /\ w.open /\ w.log = start /\ w.offset = End' /\ w.file = r.file
       /\ w.tail = r.tail /\ w.last = r.last
       /\ w.max \in NoOffset..End' /\ w.last \in NoOffset..w.max
       /\ SafeIn(log', Settled', w.max)
       /\ w.max = r.max \/ w.max = End'
    <2>. DEFINE v == Wrote(r, recs)
    <2>1. /\ v \in Memory /\ v.offset = r.offset + Len(recs)
          /\ v.open = r.open /\ v.file = r.file /\ v.tail = r.tail /\ v.log = r.log
          /\ v.max = r.max /\ v.last = r.last /\ v.head = r.head
        BY <1>5, <1>10, Writing
    <2>. HIDE DEF v
    <2>2. CASE w = v
        <3>1. r.max \in Int /\ r.max <= End
            BY <1>2, <1>5 DEF NoOffset
        <3>2. SafeIn(log', Settled', r.max)
            BY <1>5, <1>10, <3>1
        <3>3. /\ w \in Memory /\ w.open /\ w.log = start /\ w.offset = End' /\ w.file = r.file
              /\ w.tail = r.tail /\ w.last = r.last /\ w.max = r.max
            BY <1>5, <1>10, <2>1, <2>2
        <3>4. r.max \in NoOffset..End'
            BY <1>2, <1>5, <1>10, <3>1 DEF NoOffset
        <3>. QED BY <1>5, <3>2, <3>3, <3>4
    <2>3. CASE r.max = r.offset /\ w = [v EXCEPT !.max = r.offset + Len(recs)]
        <3>. DEFINE m == r.offset + Len(recs)
        <3>1. m \in Int /\ m = End' /\ r.last \in NoOffset..m
            BY <1>2, <1>5, <1>10 DEF NoOffset
        <3>2. SafeIn(log', Settled', m)
            BY <1>5, <1>10, <2>3, <3>1
        <3>. HIDE DEF m
        <3>3. w = [v EXCEPT !.max = m]
            BY <2>3 DEF m
        <3>4. /\ w \in Memory /\ w.max = m /\ w.offset = v.offset /\ w.open = v.open
              /\ w.file = v.file /\ w.tail = v.tail /\ w.log = v.log /\ w.last = v.last
            BY <2>1, <3>1, <3>3 DEF Memory
        <3>5. v.offset = End' /\ End' \in Nat
            BY <1>2, <1>5, <1>10, <2>1
        <3>. QED BY <1>5, <2>1, <3>1, <3>2, <3>4, <3>5 DEF NoOffset
    <2>4. w = v \/ (r.max = r.offset /\ w = [v EXCEPT !.max = r.offset + Len(recs)])
        BY <1>8 DEF v
    <2>. QED BY <2>2, <2>3, <2>4
<1>12. r.max = End => w.max = End'
    <2>1. CASE Any /\ r.max = r.offset
        <3>. DEFINE v == Wrote(r, recs)
                    m == r.offset + Len(recs)
        <3>1. v \in Memory
            BY <1>5, <1>10, Writing
        <3>2. w = [v EXCEPT !.max = m]
            BY <1>8, <2>1
        <3>3. m = End'
            BY <1>5, <1>10
        <3>. HIDE DEF v, m
        <3>. QED BY <3>1, <3>2, <3>3 DEF Memory
    <2>2. CASE ~Any
        <3>1. recs = <<>>
            BY <1>6, <2>2
        <3>2. End' = End
            BY <1>2, <1>10, <3>1
        <3>. QED BY <1>11, <3>2
    <2>. QED BY <1>5, <2>1, <2>2
<1>. QED BY <1>5, <1>7, <1>10, <1>11, <1>12

LEMMA CommitStep ==
    ASSUME IInv, NEW p \in Procs, NEW changes \in {<<>>, <<Rec("ext")>>, <<Rec("exp")>>},
           Commit(p, changes)
    PROVE  IInv'
<1>. USE NoProcAssumption
<1>1. /\ sync.proc = p /\ sync.stage = "sync" /\ p # NoProc
      /\ proc[p].open /\ proc[p].offset = End
      /\ proc[p].last <= sync.pos /\ sync.pos \in 0..End
      /\ sync.full => AllDone
    BY DEF Commit, Syncing, IInv, SyncOK
<1>2. Fits(proc[p]) /\ proc[p] \in Memory /\ End \in Nat /\ start \in 0..End
    BY DEF IInv, ProcsOK, LogOK, FilesOK, Fits, End
<1>4. PICK r, recs, w : Committed(p, changes, r, recs, w)
    BY CommitParts
<1>5. /\ r.file = proc[p].file /\ r.tail = proc[p].tail /\ r.last = proc[p].last
      /\ r.max \in NoOffset..End /\ r.last \in NoOffset..r.max
    BY <1>4, CommitFits
<1>9. sync' = [sync EXCEPT !.stage = "write"] /\ UNCHANGED <<start, older, index, Settled>>
    BY DEF Commit, Settled
<1>10. /\ LogOK' /\ FilesOK' /\ Len(recs) \in Nat /\ End' = End + Len(recs)
       /\ Requests' = Requests
       /\ \A x : Fits(x) => Fits(x)'
       /\ \A t \in Int : Safe(t) /\ t <= End => SafeIn(log', Settled', t)
    BY <1>4, CommitFits
<1>11. /\ w \in Memory /\ w.open /\ w.log = start /\ w.offset = End' /\ w.file = r.file
       /\ w.tail = r.tail /\ w.last = r.last
       /\ w.max \in NoOffset..End' /\ w.last \in NoOffset..w.max
       /\ SafeIn(log', Settled', w.max)
    BY <1>4, CommitFits
<1>12. PICK tail \in {w.tail} \cup (IF index.file = start THEN {index.tail} ELSE {NoOffset}) :
            proc' = [proc EXCEPT ![p] = [w EXCEPT !.head = w.offset, !.tail = Later(tail, w.max)]]
    BY <1>4 DEF Committed
<1>13. tail \in NoOffset..End' /\ SafeIn(log', Settled', tail)
    <2>1. Safe(NoOffset)
        BY DEF Safe, SafeIn, NoOffset, End
    <2>2. r.tail \in NoOffset..End /\ Safe(r.tail)
        BY <1>2, <1>5 DEF Fits, NoOffset
    <2>3. index.tail \in NoOffset..End /\ Safe(index.tail)
        BY DEF IInv, FilesOK
    <2>4. tail \in {r.tail, index.tail, NoOffset}
        BY <1>11
    <2>5. tail \in NoOffset..End /\ Safe(tail) /\ tail \in Int
        BY <1>2, <2>1, <2>2, <2>3, <2>4 DEF NoOffset
    <2>. QED BY <1>2, <1>10, <2>5 DEF NoOffset
<1>14. PICK g : g = [w EXCEPT !.head = w.offset, !.tail = Later(tail, w.max)]
    OBVIOUS
<1>15. g \in Memory /\ g.open /\ Fits(g)'
    <2>. DEFINE t == Later(tail, w.max)
                o == w.offset
    <2>1. t \in Int /\ t \in NoOffset..End' /\ SafeIn(log', Settled', t) /\ o \in Int /\ o = End'
        BY <1>2, <1>10, <1>11, <1>13 DEF Later, NoOffset, Memory
    <2>. HIDE DEF t, o
    <2>2. g = [w EXCEPT !.head = o, !.tail = t]
        BY <1>14 DEF t, o
    <2>3. /\ g \in Memory /\ g.head = o /\ g.tail = t /\ g.open = w.open /\ g.log = w.log
          /\ g.file = w.file /\ g.offset = w.offset /\ g.max = w.max /\ g.last = w.last
        BY <1>11, <2>1, <2>2 DEF Memory
    <2>4. w.file \in NoOffset..End' /\ start' = start /\ End' \in Nat /\ start <= End'
        BY <1>2, <1>5, <1>9, <1>10, <1>11 DEF Fits, NoOffset
    <2>. QED BY <1>2, <1>11, <2>1, <2>3, <2>4 DEF Fits, Safe, NoOffset
<1>16. ProcsOK'
    BY <1>10, <1>12, <1>14, <1>15, OneProc DEF IInv
<1>17. SyncOK'
    <2>1. proc'[p] = g
        BY <1>12, <1>14 DEF IInv, ProcsOK
    <2>2. SyncOK
        BY DEF IInv
    <2>3. sync.full => AllDone'
        BY <1>1, <1>9, <1>10 DEF AllDone
    <2>. QED BY <1>1, <1>9, <1>10, <1>15, <2>1, <2>2, <2>3 DEF SyncOK
<1>18. ~panic'
    <2>. DEFINE t == SyncedTo(proc[p], sync)
    <2>1. t \in {sync.pos, End}
        BY <1>1 DEF SyncedTo
    <2>2. panic' => panic \/ t < r.last \/ r.max < r.last
        BY <1>4, Zenon DEF Committed
    <2>. HIDE DEF t
    <2>3. ~(t < r.last) /\ ~(r.max < r.last)
        BY <1>1, <1>2, <1>5, <2>1 DEF Fits, NoOffset
    <2>. QED BY <2>2, <2>3 DEF IInv
<1>. QED BY <1>10, <1>16, <1>17, <1>18 DEF IInv

-----------------------------------------------------------------------------
(* The theorems.                                                           *)

LEMMA InitOK == Init => IInv
<1>. SUFFICES ASSUME Init PROVE IInv
    OBVIOUS
<1>1. End = 0 /\ log = <<>> /\ start = 0 /\ older = NoOffset /\ Settled = {} /\ ~panic
      /\ NoOffset \in Int /\ NoOffset < 0
    BY DEF Init, End, NoOffset, Settled
<1>2. Requests = {}
    BY <1>1 DEF Requests
<1>3. \A t : Safe(t)
    BY <1>1 DEF Safe, SafeIn
<1>4. LogOK
    BY <1>1, <1>2 DEF LogOK
<1>5. FilesOK
    BY <1>1, <1>3 DEF FilesOK, Init, Snapshot, NoOffset
<1>6. ProcsOK
    BY <1>4, <1>5, ClosedFits DEF ProcsOK, Init, Fits
<1>7. SyncOK
    BY <1>1 DEF SyncOK, Init, NoSync
<1>. QED BY <1>1, <1>4, <1>5, <1>6, <1>7 DEF IInv

LEMMA StepOK == ASSUME IInv, [Next]_vars PROVE IInv'
<1>1. CASE UNCHANGED vars
    <2>1. UNCHANGED <<log, start, older, index, proc, sync, Settled, panic>>
        BY <1>1 DEF vars, Settled
    <2>2. LogOK' /\ FilesOK' /\ End' = End /\ Requests' = Requests
          /\ \A x : Fits(x) => Fits(x)'
        BY <2>1, Quiet DEF IInv
    <2>3. ProcsOK'
        BY <2>1, <2>2 DEF IInv, ProcsOK
    <2>4. SyncOK'
        BY <2>1, <2>2, SyncKept DEF IInv
    <2>. QED BY <2>1, <2>2, <2>3, <2>4 DEF IInv
<1>2. ASSUME NEW p \in Procs, Open(p) PROVE IInv'
    BY <1>2, OpenStep
<1>3. ASSUME NEW p \in Procs, mail_index_refresh(p) PROVE IInv'
    BY <1>3, RefreshStep
<1>4. ASSUME NEW p \in Procs, NEW kind \in Kinds, Transaction(p, kind) PROVE IInv'
    BY <1>4, TransactionStep
<1>5. ASSUME NEW p \in Procs, NEW kind \in Kinds, SyncTransaction(p, kind) PROVE IInv'
    BY <1>5, SyncTransactionStep
<1>6. ASSUME NEW p \in Procs, Crash(p) PROVE IInv'
    BY <1>6, CrashStep
<1>7. ASSUME NEW p \in Procs, NEW update \in BOOLEAN, SyncBegin(p, update) PROVE IInv'
    BY <1>7, SyncBeginStep
<1>8. ASSUME NEW p \in Procs, SyncBeginRequireChanges(p) PROVE IInv'
    BY <1>8, SyncBeginRequireChangesStep
<1>9. ASSUME NEW p \in Procs, NEW i \in sync.todo, mail_index_sync_next(p, i) PROVE IInv'
    BY <1>9, NextStep
<1>10. ASSUME NEW p \in Procs, mail_index_sync_next_none(p) PROVE IInv'
    BY <1>10, NoneStep
<1>11. ASSUME NEW p \in Procs, NEW changes \in {<<>>, <<Rec("ext")>>, <<Rec("exp")>>},
              Commit(p, changes)
       PROVE  IInv'
    BY <1>11, CommitStep
<1>12. ASSUME NEW p \in Procs, Rotate(p) PROVE IInv'
    BY <1>12, RotateStep
<1>13. ASSUME NEW p \in Procs, mail_index_recreate(p) PROVE IInv'
    BY <1>13, RecreateStep
<1>14. ASSUME NEW p \in Procs, mail_index_sync_end(p) PROVE IInv'
    BY <1>14, EndStep
<1>. QED BY <1>1, <1>2, <1>3, <1>4, <1>5, <1>6, <1>7, <1>8, <1>9, <1>10, <1>11, <1>12,
            <1>13, <1>14 DEF Next

(* IInv holds throughout: the positions of every process, of the log and   *)
(* of dovecot.index are in order, and no request lies undone before a tail *)
(* offset, other than one that a rewrite of dovecot.index has passed,      *)
(* whatever the processes do and wherever they crash.                      *)
THEOREM Invariance == Spec => []IInv
<1>1. IInv /\ [Next]_vars => IInv'
    BY StepOK
<1>. QED BY InitOK, <1>1, PTL DEF Spec

(* Every offset that a process or dovecot.index has is one that the log    *)
(* has reached, for any number of processes and records.                   *)
THEOREM TypesHold == Spec => []TypeOK
<1>1. IInv => TypeOK
    <2>. SUFFICES ASSUME IInv PROVE TypeOK
        OBVIOUS
    <2>1. End \in Nat /\ start \in 0..End /\ NoOffset \in Int /\ NoOffset <= 0
        BY DEF IInv, LogOK, FilesOK, End, NoOffset
    <2>2. \A i \in 1..End : log[i].kind \in Kinds /\ log[i].tail \in Int
        <3>1. \A i \in 1..End : log[i] \in Records
            BY DEF IInv, LogOK, End
        <3>. QED BY <3>1 DEF Records
    <2>3. start \in Offsets /\ older \in Offsets
        BY <2>1 DEF IInv, FilesOK, Offsets
    <2>4. index \in [file : Offsets, head : Offsets, tail : Offsets]
        BY <2>1 DEF IInv, FilesOK, Offsets
    <2>5. ASSUME NEW p \in Procs
          PROVE  proc[p] \in [open : BOOLEAN, file : Offsets, head : Offsets,
                           tail : Offsets, log : Offsets, offset : Offsets,
                           max : Offsets, last : Offsets]
        <3>1. Fits(proc[p])
            BY DEF IInv, ProcsOK
        <3>2. /\ proc[p].file \in Offsets /\ proc[p].head \in Offsets
              /\ proc[p].tail \in Offsets /\ proc[p].log \in Offsets
              /\ proc[p].offset \in Offsets /\ proc[p].max \in Offsets
              /\ proc[p].last \in Offsets
            BY <2>1, <3>1 DEF Fits, Offsets
        <3>3. proc[p] \in Memory
            BY <3>1 DEF Fits
        <3>. QED BY <3>2, <3>3 DEF Memory
    <2>6. /\ sync.proc \in Procs \cup {NoProc}
          /\ sync.todo \subseteq Requests
          /\ applied \subseteq Requests /\ skipped \subseteq Requests
        BY DEF IInv, SyncOK, LogOK, Settled
    <2>. QED BY <2>2, <2>3, <2>4, <2>5, <2>6 DEF TypeOK, IInv, ProcsOK
<1>. QED BY <1>1, Invariance, PTL

(* No tail offset points past its own record and no map's tail offset past *)
(* its head, and the assertions of mail_transaction_log_set_mailbox_sync_pos *)
(* and log_append_sync_offset_if_needed never fail.                        *)
THEOREM PositionsAlwaysFit == Spec => []PositionsFit
<1>1. IInv => PositionsFit
    BY DEF IInv, LogOK, ProcsOK, Fits, PositionsFit, NoOffset
<1>. QED BY <1>1, Invariance, PTL

(* No tail offset kept anywhere, nor the beginning of the current log file, *)
(* ever passes a request that was not done to the mailbox, other than one   *)
(* that mail_index_recreate() has passed for a caller that did not read it. *)
THEOREM TailAlwaysSafe == Spec => []TailSafe
<1>1. IInv => TailSafe
    <2>. SUFFICES ASSUME IInv PROVE TailSafe
        OBVIOUS
    <2>1. ASSUME NEW t, Safe(t) PROVE \A i \in Requests : i <= t => i \in Settled
        BY <2>1 DEF Safe, SafeIn, Requests, End
    <2>2. Safe(start) /\ Safe(index.tail)
        BY DEF IInv, FilesOK
    <2>3. \A i \in 1..End : Safe(log[i].tail)
        BY DEF IInv, LogOK
    <2>4. ASSUME NEW p \in Procs PROVE Safe(proc[p].tail) /\ Safe(proc[p].max) /\ Safe(proc[p].last)
        <3>1. Fits(proc[p])
            BY DEF IInv, ProcsOK
        <3>2. End \in Nat
            BY DEF IInv, LogOK, End
        <3>3. proc[p].last \in Int /\ proc[p].max \in Int /\ proc[p].last <= proc[p].max
            BY <3>1 DEF Fits, Memory, NoOffset
        <3>. QED BY <3>1, <3>2, <3>3 DEF Fits, Safe, SafeIn, End
    <2>. QED BY <2>1, <2>2, <2>3, <2>4 DEF TailSafe
<1>. QED BY <1>1, Invariance, PTL

(* As long as a request is neither done nor passed by mail_index_recreate() *)
(* in that way, whoever maps the index next, from its memory, from         *)
(* dovecot.index or after a restart, sees that there is something to sync,  *)
(* and its sync has that request.                                          *)
THEOREM RequestsAlwaysFound == Spec => []RequestsFound
<1>1. IInv => RequestsFound
    <2>. SUFFICES ASSUME IInv, NEW j \in Requests \ Settled, NEW p \in Procs \ {sync.proc},
                         NEW r \in (IF proc[p].open THEN mail_index_map(proc[p])
                                    ELSE {FromIndex(Closed)})
                  PROVE  /\ mail_index_need_sync(r)
                         /\ Requests \ Settled \subseteq SyncOf(p, r, FALSE).todo
        BY DEF RequestsFound
    <2>1. Fits(r)
        <3>1. CASE proc[p].open
            <4>1. r \in mail_index_map(proc[p]) /\ Fits(proc[p])
                BY <3>1 DEF IInv, ProcsOK
            <4>. QED BY <4>1, Mapping DEF Mapped, IInv
        <3>2. CASE ~proc[p].open
            <4>1. r = FromIndex(Closed) /\ Fits(Closed)
                BY <3>2, ClosedFits DEF IInv
            <4>. QED BY <4>1, MapReread DEF Mapped, IInv
        <3>. QED BY <3>1, <3>2
    <2>2. r.tail \in Int /\ Safe(r.tail) /\ start \in Int /\ Safe(start) /\ End \in Nat
        BY <2>1 DEF Fits, Memory, IInv, FilesOK, LogOK, End
    <2>3. mail_index_need_sync(r)
        BY <2>2 DEF mail_index_need_sync, Requests, Safe, SafeIn, End
    <2>4. ASSUME NEW i \in Requests \ Settled PROVE i > Later(r.tail, start)
        BY <2>2 DEF Requests, Safe, SafeIn, Later, End
    <2>5. SyncOf(p, r, FALSE).todo
            = {i \in {k \in 1..End : k > Later(r.tail, start)} : log[i].kind = "req"}
        BY DEF SyncOf
    <2>. QED BY <2>3, <2>4, <2>5 DEF Requests
<1>. QED BY <1>1, Invariance, PTL

-----------------------------------------------------------------------------
(* Tail updates pay: the invariant for TailUpdatesPay.                     *)

\* The greatest tail offset that f has seen is at least the one of every
\* header update of the current file that f has read.
Covers(f) == \A i \in start + 1..f.offset : log[i].kind = "hdr" => log[i].tail <= f.max

\* The map of r is of the log file r has open, which it has read that far.
Keeps(r) == /\ r.file = r.log /\ r.head <= r.offset
            /\ r.log = start => Covers(r)

\* Record k is past every tail offset that the current file has.
Passes(k) == /\ log[k].kind # "hdr"
             /\ \A i \in start + 1..End : log[i].kind = "hdr" => log[i].tail < k

\* A sync of everything finds something to pass, unless the last record of the
\* log is a tail update that covers itself.
Owing == \/ \A i \in start + 1..End : log[i].kind # "hdr"
         \/ \E i \in start + 1..End : log[i].kind = "hdr" /\ log[i].tail = End
         \/ \E k \in 1..End : Passes(k)

\* Nobody has moved the tail offset since the sync in progress began, and
\* whatever it is to do is past the tail offset.
SyncPays ==
    sync.stage = "sync" =>
        /\ proc[sync.proc].max <= proc[sync.proc].tail
        /\ \A k \in sync.pos + 1..End : log[k].kind # "hdr"
        /\ sync.requests \/ sync.expunges => \E k \in 1..sync.pos : Passes(k)

PInv == /\ \A p \in Procs : Keeps(proc[p])
        /\ Owing /\ SyncPays
        /\ appends \in Nat

(* Reading a record keeps Covers. *)
LEMMA TrackCovers ==
    ASSUME LogOK, FilesOK, NEW f, Reads(f), f.offset < End, Covers(f)
    PROVE  Covers(log_file_track_sync(f, log[f.offset + 1]))
<1>. DEFINE rec == log[f.offset + 1]
            To(m, l) == [f EXCEPT !.offset = f.offset + 1, !.max = m, !.last = l]
<1>1. /\ f \in Memory /\ f.offset \in Nat /\ f.max \in Int /\ f.last \in Int
      /\ f.last <= f.max /\ start \in Nat
    BY DEF Reads, Memory, NoOffset, FilesOK
<1>2. rec.tail \in Int
    <2>1. f.offset + 1 \in 1..End
        BY <1>1 DEF LogOK, End
    <2>. QED BY <2>1 DEF LogOK, NoOffset, Records, End
<1>3. ASSUME NEW m \in Int, NEW l, log_file_track_sync(f, rec) = To(m, l),
             f.max <= m, rec.kind = "hdr" => rec.tail <= m
      PROVE  Covers(log_file_track_sync(f, rec))
    <2>1. PICK g : g = log_file_track_sync(f, rec)
        OBVIOUS
    <2>2. g.offset = f.offset + 1 /\ g.max = m
        BY <1>1, <1>3, <2>1 DEF Memory
    <2>3. ASSUME NEW i \in start + 1..f.offset + 1, log[i].kind = "hdr"
          PROVE  log[i].tail <= m
        <3>1. CASE i = f.offset + 1
            BY <1>3, <2>3, <3>1
        <3>2. CASE i # f.offset + 1
            <4>1. i \in start + 1..f.offset /\ i \in 1..End
                BY <1>1, <3>2 DEF LogOK, End
            <4>2. log[i].tail <= f.max /\ log[i].tail \in Int
                BY <2>3, <4>1 DEF Covers, LogOK, NoOffset
            <4>. QED BY <1>1, <1>3, <4>2
        <3>. QED BY <3>1, <3>2
    <2>. QED BY <2>1, <2>2, <2>3 DEF Covers
<1>. SUFFICES Covers(log_file_track_sync(f, rec))
    OBVIOUS
<1>. HIDE DEF rec
<1>4. CASE rec.kind \in {"req", "int"}
    <2>1. log_file_track_sync(f, rec) = To(f.max, f.last)
        BY <1>1, <1>4 DEF log_file_track_sync, Memory
    <2>2. f.max <= f.max
        BY <1>1
    <2>. HIDE DEF To
    <2>. QED BY <1>1, <1>3, <1>4, <2>1, <2>2
<1>5. CASE rec.kind = "hdr" /\ rec.tail < f.last
    <2>1. log_file_track_sync(f, rec) = To(f.max, f.last)
        BY <1>1, <1>5 DEF log_file_track_sync, Memory
    <2>2. rec.tail <= f.max
        BY <1>1, <1>2, <1>5
    <2>3. f.max <= f.max
        BY <1>1
    <2>. HIDE DEF To
    <2>. QED BY <1>1, <1>3, <2>1, <2>2, <2>3
<1>6. CASE rec.kind = "hdr" /\ ~(rec.tail < f.last)
    <2>. DEFINE m == Later(f.max, rec.tail)
    <2>1. log_file_track_sync(f, rec) = To(m, rec.tail)
        BY <1>1, <1>6 DEF log_file_track_sync, Memory
    <2>2. m \in Int /\ f.max <= m /\ rec.tail <= m
        BY <1>1, <1>2 DEF Later
    <2>. HIDE DEF m, To
    <2>. QED BY <1>3, <2>1, <2>2
<1>7. CASE rec.kind \notin {"req", "int", "hdr"}
    <2>1. \/ log_file_track_sync(f, rec) = To(f.max, f.last)
          \/ log_file_track_sync(f, rec) = To(f.max + 1, f.last)
        BY <1>1, <1>7 DEF log_file_track_sync, Memory
    <2>2. f.max + 1 \in Int /\ f.max <= f.max + 1 /\ f.max <= f.max
        BY <1>1
    <2>. HIDE DEF To
    <2>. QED BY <1>1, <1>3, <1>7, <2>1, <2>2
<1>. QED BY <1>4, <1>5, <1>6, <1>7

(* And so does reading on. *)
LEMMA ReadCovers ==
    ASSUME LogOK, FilesOK, NEW r, Reads(r), Covers(r), NEW n \in Nat, r.offset + n <= End
    PROVE  Covers(log_file_read(r, n))
<1>. DEFINE Good(g, i) == Reads(g) /\ Covers(g) /\ g.offset = r.offset + i
<1>1. PICK f : /\ log_file_read(r, n) = f[n]
               /\ f[0] = r
               /\ \A i \in 1..n : f[i] = log_file_track_sync(f[i - 1], log[r.offset + i])
    BY ReadSteps
<1>2. r.offset \in Nat /\ End \in Nat
    BY DEF Reads, LogOK, End
<1>. DEFINE S == {i \in 0..n : Good(f[i], i)}
<1>3. 0 \in S
    BY <1>1, <1>2
<1>4. ASSUME NEW i \in 0..n - 1, i \in S PROVE i + 1 \in S
    <2>1. Good(f[i], i)
        BY <1>4
    <2>2. f[i].offset < End /\ r.offset + (i + 1) = f[i].offset + 1
        BY <1>2, <2>1
    <2>3. f[i + 1] = log_file_track_sync(f[i], log[f[i].offset + 1])
        <3>1. i + 1 \in 1..n /\ (i + 1) - 1 = i
            OBVIOUS
        <3>. QED BY <1>1, <2>2, <3>1
    <2>4. Reads(f[i + 1]) /\ f[i + 1].offset = f[i].offset + 1
        <3>. HIDE DEF S
        <3>. QED BY <2>1, <2>2, <2>3, TrackSync
    <2>5. Covers(f[i + 1])
        <3>. HIDE DEF S
        <3>. QED BY <2>1, <2>2, <2>3, TrackCovers
    <2>. QED BY <2>2, <2>4, <2>5
<1>5. n \in S
    <2>. HIDE DEF S
    <2>. QED BY <1>3, <1>4, UpTo
<1>. QED BY <1>1, <1>5

(* The log file that is open when a map is updated skips nothing that it   *)
(* does not cover: only dovecot.index, whose tail offset is its head        *)
(* offset, can be ahead of the file.                                       *)
LEMMA OpenCovers ==
    ASSUME LogOK, FilesOK, NEW r, Fits(r), r.log = start => Covers(r),
           \/ r.tail = r.head
           \/ r.file = r.log /\ r.head <= r.offset
    PROVE  Covers(OpenFile(r))
<1>. DEFINE f == IF r.log = start THEN r
                 ELSE [r EXCEPT !.log = start, !.offset = start,
                                !.max = NoOffset, !.last = NoOffset]
<1>1. End \in Nat /\ start \in Nat /\ start <= End
    BY DEF LogOK, FilesOK, End
<1>2. /\ r \in Memory /\ r.offset \in Int /\ r.head \in Int /\ r.tail \in Int
      /\ r.max \in Int /\ r.head <= End
    BY DEF Fits, Memory, NoOffset
<1>3. f \in Memory /\ Covers(f) /\ f.max \in Int /\ f.offset \in Int
      /\ (r.log = start => f.offset = r.offset)
    <2>1. CASE r.log = start
        BY <1>2, <2>1
    <2>2. CASE r.log # start
        <3>1. start \in Int /\ NoOffset \in Int
            BY <1>1 DEF NoOffset
        <3>2. f = [r EXCEPT !.log = start, !.offset = start,
                            !.max = NoOffset, !.last = NoOffset]
            BY <2>2
        <3>. HIDE DEF f
        <3>3. f \in Memory /\ f.offset = start /\ f.max = NoOffset
            BY <1>2, <3>1, <3>2 DEF Memory
        <3>. QED BY <1>1, <2>2, <3>1, <3>3 DEF Covers
    <2>. QED BY <2>1, <2>2
<1>. HIDE DEF f
<1>4. CASE ~(r.file = start /\ r.head > f.offset)
    <2>1. OpenFile(r) = f
        BY <1>4 DEF OpenFile, f
    <2>. QED BY <1>3, <2>1
<1>5. CASE r.file = start /\ r.head > f.offset
    <2>1. r.tail = r.head
        BY <1>2, <1>3, <1>5
    <2>. DEFINE m == Later(f.max, r.tail)
    <2>2. m \in Int /\ r.head <= m
        BY <1>2, <1>3, <2>1 DEF Later
    <2>3. OpenFile(r) = [f EXCEPT !.offset = r.head, !.last = r.tail, !.max = m]
        BY <1>5 DEF OpenFile, f
    <2>. HIDE DEF m
    <2>4. PICK g : g = OpenFile(r)
        OBVIOUS
    <2>5. g.offset = r.head /\ g.max = m
        BY <1>2, <1>3, <2>2, <2>3, <2>4 DEF Memory
    <2>6. ASSUME NEW i \in start + 1..r.head PROVE log[i].tail <= m
        <3>1. i \in 1..End
            BY <1>1, <1>2
        <3>2. log[i].tail \in NoOffset..i
            BY <3>1 DEF LogOK
        <3>. QED BY <1>1, <1>2, <2>2, <3>2 DEF NoOffset
    <2>. QED BY <2>4, <2>5, <2>6 DEF Covers
<1>. QED BY <1>4, <1>5

(* A mapped index knows every tail offset of the file and has taken over   *)
(* the greatest.                                                           *)
LEMMA MapCovers ==
    ASSUME LogOK, FilesOK, NEW r, Fits(r), r.log = start => Covers(r),
           \/ r.tail = r.head
           \/ r.file = r.log /\ r.head <= r.offset
    PROVE  LET g == mail_index_sync_map(r) IN Covers(g) /\ g.max <= g.tail
<1>. DEFINE o == OpenFile(r)
            n == End - o.offset
            f == log_file_read(o, n)
            t == Later(IF f.file = start THEN f.tail ELSE NoOffset, f.max)
            g == [f EXCEPT !.file = start, !.head = End, !.tail = t]
<1>1. Reads(o) /\ Covers(o)
    BY Opening, OpenCovers
<1>. HIDE DEF o
<1>2. n \in Nat /\ o.offset + n = End /\ o.offset + n <= End
    BY <1>1 DEF LogOK, End, Reads
<1>. HIDE DEF n
<1>3. Reads(f) /\ Covers(f)
    BY <1>1, <1>2, Reading, ReadCovers
<1>. HIDE DEF f
<1>4. f.max <= t
    BY <1>3 DEF Later, Reads, Memory, NoOffset
<1>. HIDE DEF t
<1>5. g.tail = t /\ g.offset = f.offset /\ g.max = f.max
    BY <1>3 DEF Reads, Memory
<1>6. mail_index_sync_map(r) = g
    BY DEF mail_index_sync_map, t, f, n, o
<1>. HIDE DEF g
<1>. QED BY <1>3, <1>4, <1>5, <1>6 DEF Covers

LEMMA MappingKeeps ==
    ASSUME LogOK, FilesOK, NEW r, Fits(r), Keeps(r)
    PROVE  \A g \in mail_index_map(r) \cup {FromIndex(r)} :
               Mapped(g, r) /\ Covers(g) /\ Keeps(g) /\ g.max <= g.tail
<1>. DEFINE Good(g) == Mapped(g, r) /\ Covers(g) /\ g.max <= g.tail
<1>1. Good(mail_index_sync_map(r))
    BY MapUpdated, MapCovers DEF Keeps
<1>2. Good(FromIndex(r))
    <2>. DEFINE q == [r EXCEPT !.file = index.file, !.head = index.head, !.tail = index.tail]
    <2>1. /\ q \in Memory /\ q.file = index.file /\ q.head = index.head /\ q.tail = index.tail
          /\ q.open = r.open /\ q.log = r.log /\ q.offset = r.offset
          /\ q.max = r.max /\ q.last = r.last
        BY DEF FilesOK, Fits, Memory
    <2>2. FromIndex(r) = mail_index_sync_map(q)
        BY DEF FromIndex
    <2>. HIDE DEF q
    <2>3. Fits(q) /\ q.tail = q.head
        BY <2>1 DEF Fits, FilesOK
    <2>4. q.log = start => Covers(q)
        BY <2>1 DEF Keeps, Covers
    <2>5. LET g == mail_index_sync_map(q) IN Covers(g) /\ g.max <= g.tail
        BY <2>3, <2>4, MapCovers
    <2>. QED BY <2>2, <2>5, MapReread
<1>3. ASSUME NEW g, Good(g) PROVE Keeps(g)
    BY <1>3 DEF Keeps, Mapped, LogOK, End
<1>. HIDE DEF Good
<1>4. \A g \in mail_index_map(r) \cup {FromIndex(r)} : Good(g)
    BY <1>1, <1>2 DEF mail_index_map
<1>. QED BY <1>3, <1>4 DEF Good

-----------------------------------------------------------------------------
(* The log and the file stay as they are. *)
LEMMA QuietPays ==
    ASSUME UNCHANGED <<log, start>>
    PROVE  /\ \A r : Keeps(r) => Keeps(r)'
           /\ Owing => Owing'
           /\ \A k : Passes(k) => Passes(k)'
BY DEF Keeps, Covers, Owing, Passes, End

(* A sync is as it was. *)
LEMMA SyncPaysKept ==
    ASSUME SyncOK, SyncPays, UNCHANGED <<log, start>>,
           \/ sync'.stage # "sync"
           \/ /\ sync'.stage = sync.stage /\ sync'.proc = sync.proc
              /\ sync'.pos = sync.pos /\ sync'.requests = sync.requests
              /\ sync'.expunges = sync.expunges
              /\ proc'[sync.proc] = proc[sync.proc]
    PROVE  SyncPays'
<1>1. CASE sync'.stage # "sync"
    BY <1>1 DEF SyncPays
<1>2. CASE sync'.stage = "sync"
    <2>1. \A k : Passes(k) => Passes(k)'
        BY QuietPays
    <2>2. End' = End
        BY DEF End
    <2>. QED BY <1>2, <2>1, <2>2 DEF SyncPays
<1>. QED BY <1>1, <1>2

(* One process has something new in memory, and a sync of another goes on. *)
LEMMA MemoryPays ==
    ASSUME IInv, PInv, NEW p \in Procs, NEW g, Keeps(g),
           proc' = [proc EXCEPT ![p] = g], UNCHANGED <<log, start, appends>>,
           sync'.stage # "sync" \/ (sync' = sync /\ sync.proc # p)
    PROVE  PInv'
<1>1. (\A q \in Procs : Keeps(proc[q]))'
    <2>1. \A q \in Procs : Keeps(proc'[q])
        BY DEF PInv, IInv, ProcsOK
    <2>. QED BY <2>1, QuietPays
<1>2. Owing'
    BY QuietPays DEF PInv
<1>3. SyncPays'
    <2>1. sync' = sync /\ sync.proc # p /\ sync.stage = "sync" => proc'[sync.proc] = proc[sync.proc]
        BY DEF IInv, SyncOK, NoSync, ProcsOK
    <2>2. SyncOK /\ SyncPays
        BY DEF IInv, PInv
    <2>. QED BY <2>1, <2>2, SyncPaysKept
<1>. QED BY <1>1, <1>2, <1>3 DEF PInv

(* A sync moves on without touching memory or log. *)
LEMMA SyncOnlyPays ==
    ASSUME IInv, PInv, UNCHANGED <<log, start, appends, proc>>,
           \/ sync'.stage # "sync"
           \/ /\ sync'.stage = sync.stage /\ sync'.proc = sync.proc
              /\ sync'.pos = sync.pos /\ sync'.requests = sync.requests
              /\ sync'.expunges = sync.expunges
    PROVE  PInv'
<1>1. (\A q \in Procs : Keeps(proc[q]))'
    BY QuietPays DEF PInv
<1>2. Owing'
    BY QuietPays DEF PInv
<1>3. SyncPays'
    BY SyncPaysKept DEF IInv, PInv
<1>. QED BY <1>1, <1>2, <1>3 DEF PInv

(* Nothing open, nothing to keep. *)
LEMMA ClosedKeeps ==
    ASSUME FilesOK
    PROVE  Keeps(Closed) /\ Keeps([Closed EXCEPT !.open = TRUE])
<1>1. PICK o : o = [Closed EXCEPT !.open = TRUE]
    OBVIOUS
<1>2. o.file = NoOffset /\ o.log = NoOffset /\ o.head = NoOffset /\ o.offset = NoOffset
    BY <1>1 DEF Closed
<1>3. start # NoOffset /\ NoOffset <= NoOffset
    BY DEF FilesOK, NoOffset
<1>4. Keeps(o)
    BY <1>2, <1>3 DEF Keeps
<1>5. Keeps(Closed)
    BY <1>3 DEF Keeps, Closed
<1>. QED BY <1>1, <1>4, <1>5

(* A sync begins: what it is to do is past every tail offset of the file. *)
LEMMA BeginPays ==
    ASSUME IInv, PInv, NEW p \in Procs, NEW g, Mapped(g, proc[p]), Covers(g), Keeps(g),
           g.max <= g.tail, NEW update \in BOOLEAN,
           proc' = [proc EXCEPT ![p] = g], sync' = SyncOf(p, g, update),
           UNCHANGED <<log, start, appends>>
    PROVE  PInv'
<1>1. (\A q \in Procs : Keeps(proc[q]))'
    <2>1. \A q \in Procs : Keeps(proc'[q])
        BY DEF PInv, IInv, ProcsOK
    <2>. QED BY <2>1, QuietPays
<1>2. Owing'
    BY QuietPays DEF PInv
<1>3. SyncPays'
    <2>. DEFINE seen == {i \in 1..End : i > Later(g.tail, start)}
    <2>1. /\ sync'.proc = p /\ sync'.pos = End
          /\ sync'.requests = ({i \in seen : log[i].kind = "req"} # {})
          /\ sync'.expunges = (\E i \in seen : log[i].kind = "exp")
        BY DEF SyncOf
    <2>2. proc'[p] = g /\ End' = End /\ End \in Nat /\ g.offset = End
        BY DEF IInv, ProcsOK, End, LogOK, Mapped
    <2>3. ASSUME NEW i \in seen, log[i].kind # "hdr" PROVE Passes(i)
        <3>1. g.tail \in Int /\ start \in Nat /\ i \in Nat /\ i > g.tail /\ g.max \in Int
            BY DEF Mapped, Fits, Memory, IInv, FilesOK, Later
        <3>2. ASSUME NEW j \in start + 1..End, log[j].kind = "hdr" PROVE log[j].tail < i
            <4>1. log[j].tail <= g.max
                BY <2>2, <3>2 DEF Covers
            <4>2. log[j].tail \in Int
                <5>1. j \in 1..End
                    BY <2>2, <3>1
                <5>. QED BY <5>1 DEF IInv, LogOK, NoOffset
            <4>. QED BY <3>1, <4>1, <4>2
        <3>. QED BY <2>3, <3>2 DEF Passes
    <2>4. sync'.requests \/ sync'.expunges => \E k \in 1..End : Passes(k)
        <3>1. sync'.requests \/ sync'.expunges =>
                  \E k \in seen : log[k].kind = "req" \/ log[k].kind = "exp"
            <4>. HIDE DEF seen
            <4>. QED BY <2>1
        <3>. QED BY <2>3, <3>1
    <2>5. \A k : Passes(k) => Passes(k)'
        BY QuietPays
    <2>. HIDE DEF seen
    <2>6. (sync'.requests \/ sync'.expunges => \E k \in 1..sync'.pos : Passes(k)')
        BY <2>1, <2>4, <2>5
    <2>7. \A k \in sync'.pos + 1..End' : log'[k].kind # "hdr"
        BY <2>1, <2>2
    <2>. QED BY <2>1, <2>2, <2>6, <2>7 DEF SyncPays
<1>. QED BY <1>1, <1>2, <1>3 DEF PInv

(* Records are appended to the file: what was kept is kept. *)
LEMMA LongerKeeps ==
    ASSUME LogOK, FilesOK, NEW r, Fits(r), Keeps(r), Len(log') \in Nat, End <= Len(log'),
           \A i \in 1..End : log'[i] = log[i], UNCHANGED start
    PROVE  Keeps(r)'
<1>1. \A i \in start + 1..r.offset : i \in 1..End
    BY DEF Fits, Memory, FilesOK, LogOK, End, NoOffset
<1>. QED BY <1>1 DEF Keeps, Covers

(* A record is appended that is no header update. *)
LEMMA AppendPays ==
    ASSUME LogOK, FilesOK, NEW kind \in Kinds, kind # "hdr", log' = Append(log, Rec(kind)),
           UNCHANGED start
    PROVE  /\ End' = End + 1 /\ End \in Nat
           /\ \A i \in 1..End : log'[i] = log[i]
           /\ log'[End + 1].kind # "hdr"
           /\ Owing'
           /\ \A k \in 1..End : Passes(k) => Passes(k)'
           /\ \A r : Fits(r) /\ Keeps(r) => Keeps(r)'
<1>. DEFINE rec == Rec(kind)
<1>1. rec.kind # "hdr" /\ log \in Seq(Records)
    BY DEF Rec, LogOK
<1>. HIDE DEF rec
<1>2. log' = Append(log, rec)
    BY DEF rec
<1>3. /\ Len(log') = End + 1 /\ End \in Nat /\ log'[End + 1] = rec
      /\ \A i \in 1..End : log'[i] = log[i]
    BY <1>1, <1>2 DEF End
<1>4. End' = End + 1 /\ start \in Nat /\ start <= End
    BY <1>3 DEF End, FilesOK
<1>5. ASSUME NEW i \in start + 1..End', log'[i].kind = "hdr"
      PROVE  i \in start + 1..End /\ i \in 1..End /\ log'[i] = log[i]
    BY <1>1, <1>3, <1>4, <1>5
<1>0. PICK n : n = End + 1
    OBVIOUS
<1>6. Passes(n)'
    <2>1. ASSUME NEW i \in start + 1..End', log'[i].kind = "hdr" PROVE log'[i].tail < End + 1
        <3>1. i \in 1..End /\ log'[i] = log[i]
            BY <1>5, <2>1
        <3>2. log[i].tail \in NoOffset..i
            BY <3>1 DEF LogOK
        <3>. QED BY <1>3, <3>1, <3>2 DEF NoOffset
    <2>. QED BY <1>0, <1>1, <1>3, <2>1 DEF Passes
<1>7. Owing'
    <2>1. n \in 1..End'
        BY <1>0, <1>3, <1>4
    <2>. QED BY <1>6, <2>1 DEF Owing
<1>8. ASSUME NEW k \in 1..End, Passes(k) PROVE Passes(k)'
    <2>1. log'[k].kind # "hdr"
        BY <1>3, <1>8 DEF Passes
    <2>2. ASSUME NEW i \in start' + 1..End', log'[i].kind = "hdr" PROVE log'[i].tail < k
        BY <1>5, <1>8, <2>2 DEF Passes
    <2>. QED BY <2>1, <2>2 DEF Passes
<1>9. \A r : Fits(r) /\ Keeps(r) => Keeps(r)'
    BY <1>3, LongerKeeps
<1>. QED BY <1>1, <1>3, <1>4, <1>7, <1>8, <1>9


-----------------------------------------------------------------------------
(* The end of a sync. *)

(* The log after a commit. *)
LEMMA CommitAppends ==
    ASSUME IInv, NEW recs, NEW m, Closing(recs, m), log' = log \o recs
    PROVE  /\ recs \in Seq(Records) /\ Len(recs) \in Nat /\ End \in Nat
           /\ End' = End + Len(recs) /\ Len(log') = End + Len(recs)
           /\ \A i \in 1..End : log'[i] = log[i]
           /\ \A j \in 1..Len(recs) : log'[End + j] = recs[j]
           /\ \A i \in 1..End' : i \notin 1..End =>
                 \E j \in 1..Len(recs) : i = End + j
<1>1. recs \in Seq(Records) /\ Len(recs) \in Nat /\ log \in Seq(Records) /\ End \in Nat
      /\ End = Len(log) /\ End' = Len(log')
    BY DEF Closing, IInv, LogOK, End
<1>2. /\ Len(log') = End + Len(recs)
      /\ \A i \in 1..End : log'[i] = log[i]
      /\ \A j \in 1..Len(recs) : log'[End + j] = recs[j]
    BY <1>1
<1>3. ASSUME NEW i \in 1..End', i \notin 1..End
      PROVE  \E j \in 1..Len(recs) : i = End + j
    <2>1. i - End \in 1..Len(recs) /\ i = End + (i - End)
        BY <1>1, <1>2, <1>3
    <2>. QED BY <2>1
<1>. QED BY <1>1, <1>2, <1>3

(* A commit without changes writes a tail offset only when the sync moves  *)
(* it: to the end of the log and over the update itself, or to where the   *)
(* sync began, having done something before that.                          *)
LEMMA TailMoves ==
    ASSUME IInv, PInv, NEW p \in Procs, Commit(p, <<>>),
           NEW r, NEW recs, NEW w, Committed(p, <<>>, r, recs, w), recs # <<>>
    PROVE  \E n \in Int :
              /\ recs = <<Header(n)>>
              /\ \/ n = End + 1 /\ r.max = End /\ proc[p].max < End
                 \/ n = sync.pos /\ r.max = sync.pos /\ n < End
                    /\ (sync.requests \/ sync.expunges)
<1>. DEFINE T == SyncedTo(proc[p], sync)
<1>1. /\ sync.proc = p /\ sync.stage = "sync" /\ proc[p].offset = End /\ sync.pos \in 0..End
      /\ proc[p] \in Memory /\ End \in Nat /\ proc[p].max <= proc[p].tail
    BY NoProcAssumption DEF Commit, Syncing, IInv, SyncOK, ProcsOK, LogOK, End, PInv, SyncPays
<1>2. /\ r \in Memory /\ r.offset = End /\ r.tail = proc[p].tail
    BY CommitFits
<1>3. T \in {sync.pos, End} /\ (T # End => T = sync.pos /\ ~sync.update)
    BY <1>1 DEF SyncedTo
<1>4. /\ mail_index_sync_update_mailbox_offset(r, sync)
      /\ recs = log_append_sync_offset_if_needed(r, <<>>)
    BY DEF Committed
<1>5. sync.full /\ r.tail < SyncedTo(r, sync) /\ (sync.expunges \/ sync.requests \/ sync.update)
    BY <1>4, Zenon DEF mail_index_sync_update_mailbox_offset
<1>6. SyncedTo(r, sync) = T
    BY <1>1, <1>2 DEF SyncedTo
<1>. HIDE DEF T
<1>7. T \in Int /\ proc[p].max \in Int /\ proc[p].tail \in Int /\ proc[p].max < T /\ T <= End
    BY <1>1, <1>2, <1>3, <1>5, <1>6 DEF Memory
<1>8. r.max = T
    <2>1. r = [proc[p] EXCEPT !.max = Later(proc[p].max, T)]
        BY <1>5 DEF Committed, T
    <2>2. Later(proc[p].max, T) = T
        BY <1>7 DEF Later
    <2>. QED BY <1>1, <2>1, <2>2 DEF Memory
<1>9. PICK n : n = IF r.max = r.offset THEN r.offset + Len(<<>>) + 1 ELSE r.max
    OBVIOUS
<1>10. recs = Append(<<>>, Header(n))
    <2>1. recs = IF n = r.last THEN <<>> ELSE Append(<<>>, Header(n))
        BY <1>4, <1>9 DEF log_append_sync_offset_if_needed
    <2>. QED BY <2>1
<1>11. recs = <<Header(n)>>
    <2>. DEFINE h == Header(n)
    <2>1. recs = Append(<<>>, h)
        BY <1>10
    <2>. HIDE DEF h
    <2>2. recs = <<h>>
        BY <2>1
    <2>. QED BY <2>2 DEF h
<1>12. CASE T = End
    <2>1. n = End + 1 /\ n \in Int
        BY <1>1, <1>2, <1>8, <1>9, <1>12
    <2>. QED BY <1>7, <1>8, <1>11, <1>12, <2>1
<1>13. CASE T # End
    <2>1. n = T /\ T = sync.pos /\ T < End /\ (sync.requests \/ sync.expunges)
        BY <1>1, <1>2, <1>3, <1>5, <1>7, <1>8, <1>9, <1>13
    <2>. QED BY <1>7, <1>8, <1>11, <2>1
<1>. QED BY <1>12, <1>13

(* A commit with changes appends one, which is no header update, and the   *)
(* tail offset after it.                                                   *)
LEMMA ChangesFirst ==
    ASSUME IInv, NEW p \in Procs, NEW changes \in {<<Rec("ext")>>, <<Rec("exp")>>},
           Commit(p, changes), NEW r, NEW recs, NEW w, Committed(p, changes, r, recs, w)
    PROVE  /\ Len(recs) \in {1, 2} /\ recs[1].kind # "hdr"
           /\ Len(recs) = 2 /\ r.max = End => recs[2] = Header(End + 2)
<1>1. changes \in {<<>>, <<Rec("ext")>>, <<Rec("exp")>>}
    OBVIOUS
<1>2. r \in Memory /\ r.offset = End /\ End \in Nat
    BY <1>1, CommitFits DEF IInv, LogOK, End
<1>3. PICK c : changes = <<c>> /\ c.kind # "hdr"
    BY DEF Rec
<1>4. changes # <<>> /\ Len(changes) = 1
    BY <1>3
<1>5. recs = log_append_sync_offset_if_needed(r, changes)
    BY <1>4 DEF Committed
<1>6. PICK n : n = IF r.max = r.offset THEN r.offset + Len(changes) + 1 ELSE r.max
    OBVIOUS
<1>7. PICK h : h = Header(n)
    OBVIOUS
<1>8. recs = <<c>> \/ recs = <<c, h>>
    <2>1. recs = changes \/ recs = Append(changes, h)
        BY <1>5, <1>6, <1>7 DEF log_append_sync_offset_if_needed
    <2>. QED BY <1>3, <2>1
<1>9. r.max = End => n = End + 2
    BY <1>2, <1>4, <1>6
<1>. QED BY <1>3, <1>7, <1>8, <1>9

(* Something is owing after a commit, or the log ends with a tail update   *)
(* that covers itself.                                                     *)
LEMMA CommitOwing ==
    ASSUME IInv, PInv, NEW p \in Procs, NEW changes \in {<<>>, <<Rec("ext")>>, <<Rec("exp")>>},
           Commit(p, changes), NEW r, NEW recs, NEW w, Committed(p, changes, r, recs, w)
    PROVE  Owing'
<1>1. /\ r \in Memory /\ r.max \in NoOffset..End /\ Closing(recs, r.max)
      /\ log' = log \o recs /\ start' = start
    <2>1. r \in Memory /\ r.max \in NoOffset..End /\ Closing(recs, r.max)
        BY CommitFits
    <2>. QED BY <2>1 DEF Committed, Commit
<1>2. /\ recs \in Seq(Records) /\ Len(recs) \in Nat /\ End \in Nat
      /\ End' = End + Len(recs)
      /\ \A i \in 1..End : log'[i] = log[i]
      /\ \A j \in 1..Len(recs) : log'[End + j] = recs[j]
      /\ \A i \in 1..End' : i \notin 1..End => \E j \in 1..Len(recs) : i = End + j
    BY <1>1, CommitAppends
<1>3. start \in Nat /\ start <= End /\ r.max \in Int /\ r.max <= End
    BY <1>1, <1>2 DEF IInv, FilesOK, NoOffset
<1>4. ASSUME NEW i \in 1..End PROVE log[i].tail \in Int /\ log[i].tail <= i
    BY <1>2 DEF IInv, LogOK, NoOffset
<1>5. ASSUME NEW n \in Int, Len(recs) > 0, recs[Len(recs)] = Header(n), n = End'
      PROVE  Owing'
    <2>0. Len(recs) \in 1..Len(recs)
        BY <1>2, <1>5
    <2>1. log'[End'] = Header(n) /\ End' \in start + 1..End'
        BY <1>2, <1>3, <1>5, <2>0
    <2>2. log'[End'].kind = "hdr" /\ log'[End'].tail = End'
        BY <1>5, <2>1 DEF Header
    <2>. QED BY <1>1, <2>1, <2>2 DEF Owing
<1>6. CASE recs = <<>>
    <2>1. log' = log
        BY <1>1, <1>6 DEF IInv, LogOK
    <2>. QED BY <1>1, <2>1, QuietPays DEF PInv
<1>7. CASE recs # <<>> /\ changes = <<>>
    <2>1. PICK n \in Int :
              /\ recs = <<Header(n)>>
              /\ \/ n = End + 1 /\ r.max = End /\ proc[p].max < End
                 \/ n = sync.pos /\ r.max = sync.pos /\ n < End
                    /\ (sync.requests \/ sync.expunges)
        BY <1>7, TailMoves
    <2>2. Len(recs) = 1 /\ recs[1] = Header(n)
        BY <2>1
    <2>3. CASE n = End + 1
        BY <1>2, <1>5, <2>2, <2>3
    <2>4. CASE n = sync.pos /\ n < End
        <3>1. /\ sync.stage = "sync" /\ sync.pos \in 0..End
              /\ \A k \in sync.pos + 1..End : log[k].kind # "hdr"
            BY NoProcAssumption DEF Commit, Syncing, IInv, SyncOK, PInv, SyncPays
        <3>2. PICK e : e = End
            OBVIOUS
        <3>3. e \in 1..End' /\ e \in 1..End /\ log'[e].kind # "hdr"
            BY <1>2, <2>2, <2>4, <3>1, <3>2
        <3>4. ASSUME NEW i \in start' + 1..End', log'[i].kind = "hdr" PROVE log'[i].tail < e
            <4>1. CASE i \in 1..End
                <5>1. log'[i] = log[i] /\ log[i].kind = "hdr"
                    BY <1>2, <3>4, <4>1
                <5>2. i <= sync.pos
                    BY <1>2, <3>1, <4>1, <5>1
                <5>. QED BY <1>2, <1>4, <2>4, <3>1, <3>2, <4>1, <5>1, <5>2
            <4>2. CASE i \notin 1..End
                <5>1. log'[i] = Header(n)
                    <6>1. i \in 1..End'
                        BY <1>1, <1>2, <1>3
                    <6>2. PICK j \in 1..Len(recs) : i = End + j
                        BY <1>2, <4>2, <6>1
                    <6>. QED BY <1>2, <2>2, <6>2
                <5>. QED BY <2>4, <3>2, <5>1 DEF Header
            <4>. QED BY <4>1, <4>2
        <3>5. Passes(e)'
            BY <3>3, <3>4 DEF Passes
        <3>. QED BY <3>3, <3>5 DEF Owing
    <2>. QED BY <2>1, <2>3, <2>4
<1>8. CASE changes # <<>>
    <2>0. changes \in {<<Rec("ext")>>, <<Rec("exp")>>}
        BY <1>8
    <2>1. /\ Len(recs) \in {1, 2} /\ recs[1].kind # "hdr"
          /\ Len(recs) = 2 /\ r.max = End => recs[2] = Header(End + 2)
        BY <2>0, ChangesFirst
    <2>2. CASE Len(recs) = 2 /\ r.max = End
        <3>1. End + 2 \in Int /\ End' = End + 2 /\ Len(recs) > 0
            BY <1>2, <2>2
        <3>. QED BY <1>5, <2>1, <2>2, <3>1
    <2>3. CASE ~(Len(recs) = 2 /\ r.max = End)
        <3>1. PICK e : e = End + 1
            OBVIOUS
        <3>2. e \in 1..End' /\ log'[e].kind # "hdr"
            <4>1. 1 \in 1..Len(recs)
                BY <2>1
            <4>2. log'[End + 1] = recs[1]
                BY <1>2, <4>1
            <4>. QED BY <1>2, <2>1, <3>1, <4>1, <4>2
        <3>3. ASSUME NEW i \in start' + 1..End', log'[i].kind = "hdr" PROVE log'[i].tail < e
            <4>1. CASE i \in 1..End
                BY <1>2, <1>4, <3>1, <4>1
            <4>2. CASE i \notin 1..End
                <5>1. PICK j \in 1..Len(recs) : i = End + j
                    BY <1>1, <1>2, <1>3, <4>2
                <5>2. j # 1
                    BY <1>2, <2>1, <3>3, <5>1
                <5>3. Len(recs) = 2 /\ r.max # End
                    BY <2>1, <2>3, <5>1, <5>2
                <5>4. recs[j].tail <= r.max /\ recs[j].tail \in Int
                    BY <1>1, <1>2, <5>3 DEF Closing, NoOffset
                <5>. QED BY <1>2, <1>3, <3>1, <5>1, <5>4
            <4>. QED BY <4>1, <4>2
        <3>4. Passes(e)'
            BY <3>2, <3>3 DEF Passes
        <3>. QED BY <3>2, <3>4 DEF Owing
    <2>. QED BY <2>2, <2>3
<1>. QED BY <1>6, <1>7, <1>8

LEMMA CommitPays ==
    ASSUME IInv, PInv, NEW p \in Procs, NEW changes \in {<<>>, <<Rec("ext")>>, <<Rec("exp")>>},
           Commit(p, changes)
    PROVE  PInv'
<1>1. PICK r, recs, w : Committed(p, changes, r, recs, w)
    BY CommitParts
<1>2. Owing'
    BY <1>1, CommitOwing
<1>3. /\ r \in Memory /\ r.max \in NoOffset..End /\ Closing(recs, r.max)
      /\ r.file = proc[p].file
      /\ w \in Memory /\ w.log = start /\ w.offset = End' /\ w.file = r.file
      /\ w.max \in NoOffset..End' /\ (w.max = r.max \/ w.max = End')
      /\ r.max = End => w.max = End'
    BY <1>1, CommitFits
<1>4. log' = log \o recs /\ start' = start /\ sync' = [sync EXCEPT !.stage = "write"]
      /\ appends' = appends + Len(changes)
    BY <1>1 DEF Committed, Commit
<1>5. /\ recs \in Seq(Records) /\ Len(recs) \in Nat /\ End \in Nat
      /\ End' = End + Len(recs) /\ Len(log') = End + Len(recs)
      /\ \A i \in 1..End : log'[i] = log[i]
      /\ \A j \in 1..Len(recs) : log'[End + j] = recs[j]
      /\ \A i \in 1..End' : i \notin 1..End => \E j \in 1..Len(recs) : i = End + j
    BY <1>3, <1>4, CommitAppends
<1>6. /\ sync.proc = p /\ sync.stage = "sync" /\ proc[p].log = start /\ proc[p].offset = End
      /\ proc[p] \in Memory /\ start \in Nat /\ Keeps(proc[p])
    BY NoProcAssumption DEF Commit, Syncing, IInv, SyncOK, ProcsOK, FilesOK, PInv
<1>7. proc[p].max <= r.max
    <2>1. CASE ~sync.full
        BY <1>1, <1>6, <2>1 DEF Committed, Memory
    <2>2. CASE sync.full
        <3>. DEFINE t == SyncedTo(proc[p], sync)
                    m == Later(proc[p].max, t)
        <3>1. t \in Int
            BY <1>5, <1>6 DEF SyncedTo, IInv, SyncOK
        <3>2. m \in Int /\ proc[p].max <= m
            BY <1>6, <3>1 DEF Later, Memory
        <3>3. r = [proc[p] EXCEPT !.max = m]
            BY <1>1, <2>2 DEF Committed
        <3>. HIDE DEF m
        <3>. QED BY <1>6, <3>2, <3>3 DEF Memory
    <2>. QED BY <2>1, <2>2
<1>8. ASSUME NEW i \in start + 1..End', log'[i].kind = "hdr" PROVE log'[i].tail <= w.max
    <2>1. i \in 1..End' /\ i \in Nat /\ w.max \in Int /\ r.max \in Int /\ proc[p].max \in Int
          /\ r.max <= w.max
        <3>1. w.max \in Int /\ r.max \in Int /\ proc[p].max \in Int
            BY <1>3, <1>6 DEF Memory
        <3>2. r.max <= End'
            BY <1>3, <1>5, <3>1
        <3>. QED BY <1>3, <1>5, <1>6, <3>1, <3>2
    <2>2. CASE i \in 1..End
        <3>1. log[i].tail \in Int /\ log'[i] = log[i] /\ i \in start + 1..End
            BY <1>5, <1>6, <2>2 DEF IInv, LogOK, NoOffset
        <3>2. log[i].tail <= proc[p].max
            BY <1>6, <1>8, <3>1 DEF Keeps, Covers
        <3>. QED BY <1>7, <2>1, <3>1, <3>2
    <2>3. CASE i \notin 1..End
        <3>1. PICK j \in 1..Len(recs) : i = End + j
            BY <1>5, <2>1, <2>3
        <3>2. log'[i] = recs[j]
            BY <1>5, <3>1
        <3>3. recs[j].tail \in NoOffset..End + j /\ (r.max # End => recs[j].tail <= r.max)
            BY <1>3, <3>1 DEF Closing
        <3>4. CASE r.max = End
            BY <1>3, <1>5, <3>1, <3>2, <3>3, <3>4 DEF NoOffset
        <3>5. CASE r.max # End
            BY <2>1, <3>2, <3>3, <3>5 DEF NoOffset
        <3>. QED BY <3>4, <3>5
    <2>. QED BY <2>2, <2>3
<1>9. PICK tail : proc' = [proc EXCEPT ![p] = [w EXCEPT !.head = w.offset,
                                                        !.tail = Later(tail, w.max)]]
    BY <1>1 DEF Committed
<1>10. PICK g : g = [w EXCEPT !.head = w.offset, !.tail = Later(tail, w.max)]
    OBVIOUS
<1>11. g.file = w.file /\ g.log = w.log /\ g.head = w.offset /\ g.offset = w.offset
       /\ g.max = w.max
    BY <1>3, <1>10 DEF Memory
<1>12. Keeps(g)'
    <2>1. g.file = g.log /\ g.head <= g.offset
        BY <1>3, <1>5, <1>6, <1>11 DEF Keeps
    <2>. QED BY <1>3, <1>4, <1>8, <1>11, <2>1 DEF Keeps, Covers
<1>13. (\A q \in Procs : Keeps(proc[q]))'
    <2>1. ASSUME NEW q \in Procs, q # p PROVE Keeps(proc[q])'
        <3>1. PICK x : x = proc[q]
            OBVIOUS
        <3>2. Fits(x) /\ Keeps(x) /\ proc'[q] = x
            BY <1>9, <2>1, <3>1 DEF IInv, ProcsOK, PInv
        <3>3. Len(log') \in Nat /\ End <= Len(log')
            BY <1>5
        <3>4. Keeps(x)'
            BY <1>4, <1>5, <3>2, <3>3, LongerKeeps DEF IInv
        <3>. QED BY <3>2, <3>4
    <2>2. proc'[p] = g
        BY <1>9, <1>10 DEF IInv, ProcsOK
    <2>3. Keeps(proc[p])'
        BY <1>12, <2>2
    <2>. QED BY <2>1, <2>3
<1>14. SyncPays'
    <2>1. sync'.stage = "write"
        BY <1>4 DEF IInv, SyncOK
    <2>. QED BY <2>1 DEF SyncPays
<1>15. appends' \in Nat
    <2>1. Len(changes) \in Nat
        BY DEF Rec
    <2>. QED BY <1>4, <2>1 DEF PInv
<1>. QED BY <1>2, <1>13, <1>14, <1>15 DEF PInv

-----------------------------------------------------------------------------
(* One lemma per other action: it preserves PInv. *)

LEMMA OpenPays == ASSUME IInv, PInv, NEW p \in Procs, Open(p) PROVE PInv'
<1>1. PICK o : o = [Closed EXCEPT !.open = TRUE]
    OBVIOUS
<1>2. Fits(o) /\ Keeps(o)
    BY <1>1, ClosedFits, ClosedKeeps DEF IInv
<1>3. Keeps(FromIndex(o))
    BY <1>2, MappingKeeps DEF IInv
<1>4. sync.proc # p
    BY NoProcAssumption DEF IInv, SyncOK, Open
<1>5. proc' = [proc EXCEPT ![p] = FromIndex(o)] /\ UNCHANGED <<log, start, appends, sync>>
    BY <1>1 DEF Open, counters
<1>. QED BY <1>3, <1>4, <1>5, MemoryPays

LEMMA RefreshPays == ASSUME IInv, PInv, NEW p \in Procs, mail_index_refresh(p) PROVE PInv'
<1>1. PICK g \in mail_index_map(proc[p]) : proc' = [proc EXCEPT ![p] = g]
    BY DEF mail_index_refresh
<1>2. Keeps(g)
    BY MappingKeeps DEF IInv, ProcsOK, PInv
<1>3. sync.proc # p /\ UNCHANGED <<log, start, appends, sync>>
    BY DEF mail_index_refresh, counters
<1>. QED BY <1>1, <1>2, <1>3, MemoryPays

LEMMA SyncBeginPays ==
    ASSUME IInv, PInv, NEW p \in Procs, NEW update \in BOOLEAN, SyncBegin(p, update) PROVE PInv'
<1>1. PICK g \in mail_index_map(proc[p]) :
          proc' = [proc EXCEPT ![p] = g] /\ sync' = SyncOf(p, g, update)
    BY DEF SyncBegin
<1>2. Mapped(g, proc[p]) /\ Covers(g) /\ Keeps(g) /\ g.max <= g.tail
    BY MappingKeeps DEF IInv, ProcsOK, PInv
<1>3. UNCHANGED <<log, start, appends>>
    BY DEF SyncBegin, counters
<1>. QED BY <1>1, <1>2, <1>3, BeginPays

LEMMA SyncBeginRequireChangesPays ==
    ASSUME IInv, PInv, NEW p \in Procs, SyncBeginRequireChanges(p) PROVE PInv'
<1>1. PICK g \in mail_index_map(proc[p]) :
          /\ proc' = [proc EXCEPT ![p] = g]
          /\ UNCHANGED sync \/ sync' = SyncOf(p, g, FALSE)
    BY DEF SyncBeginRequireChanges
<1>2. Mapped(g, proc[p]) /\ Covers(g) /\ Keeps(g) /\ g.max <= g.tail
    BY MappingKeeps DEF IInv, ProcsOK, PInv
<1>3. sync.proc # p /\ UNCHANGED <<log, start, appends>>
    BY DEF SyncBeginRequireChanges, counters
<1>4. CASE UNCHANGED sync
    BY <1>1, <1>2, <1>3, <1>4, MemoryPays
<1>5. CASE sync' = SyncOf(p, g, FALSE)
    BY <1>1, <1>2, <1>3, <1>5, BeginPays
<1>. QED BY <1>1, <1>4, <1>5

(* One process appends a record that is no header update. *)
LEMMA WritePays ==
    ASSUME IInv, PInv, NEW p \in Procs, NEW kind \in Kinds, kind # "hdr",
           log' = Append(log, Rec(kind)), UNCHANGED start, appends' = appends + 1,
           NEW r, Mapped(r, proc[p]), Covers(r), NEW g, g.file = r.file, g.log = r.log,
           g.offset = End + 1, g.max = r.max, g.head <= g.offset,
           proc' = [proc EXCEPT ![p] = g]
    PROVE  (\A q \in Procs : Keeps(proc[q]))' /\ Owing' /\ (appends \in Nat)'
<1>1. /\ End' = End + 1 /\ End \in Nat
      /\ \A i \in 1..End : log'[i] = log[i]
      /\ log'[End + 1].kind # "hdr"
      /\ Owing'
      /\ \A x : Fits(x) /\ Keeps(x) => Keeps(x)'
    BY AppendPays DEF IInv
<1>2. Keeps(g)'
    <2>1. r.file = start /\ r.log = start /\ r.offset = End /\ start \in Nat
        BY DEF Mapped, IInv, FilesOK
    <2>2. ASSUME NEW i \in start' + 1..g.offset, log'[i].kind = "hdr"
          PROVE  log'[i].tail <= g.max
        <3>2. start' + 1..g.offset = start + 1..End + 1
            OBVIOUS
        <3>0. i # End + 1 /\ i \in start + 1..End + 1
            BY <1>1, <2>2, <3>2
        <3>1. i \in start + 1..r.offset /\ log'[i] = log[i]
            <4>1. i \in start + 1..End /\ i \in 1..End
                BY <1>1, <2>1, <3>0
            <4>. QED BY <1>1, <2>1, <4>1
        <3>. QED BY <2>2, <3>1 DEF Covers
    <2>. QED BY <2>1, <2>2 DEF Keeps, Covers
<1>3. ASSUME NEW q \in Procs, q # p PROVE Keeps(proc[q])'
    <2>1. PICK x : x = proc[q]
        OBVIOUS
    <2>2. Fits(x) /\ Keeps(x) /\ proc'[q] = x
        BY <1>3, <2>1 DEF IInv, ProcsOK, PInv
    <2>3. Keeps(x)'
        BY <1>1, <2>2
    <2>. QED BY <2>2, <2>3
<1>4. proc'[p] = g
    BY DEF IInv, ProcsOK
<1>5. Keeps(proc[p])'
    BY <1>2, <1>4
<1>6. (appends \in Nat)'
    BY DEF PInv
<1>. QED BY <1>1, <1>3, <1>4, <1>5, <1>6

LEMMA TransactionPays ==
    ASSUME IInv, PInv, NEW p \in Procs, NEW kind \in Kinds, Transaction(p, kind) PROVE PInv'
<1>1. PICK r \in mail_index_map(proc[p]) :
          proc' = [proc EXCEPT ![p] = [Wrote(r, <<kind>>) EXCEPT !.head = End + 1]]
    BY DEF Transaction
<1>2. Mapped(r, proc[p]) /\ Covers(r)
    BY MappingKeeps DEF IInv, ProcsOK, PInv
<1>3. PICK g : g = [Wrote(r, <<kind>>) EXCEPT !.head = End + 1]
    OBVIOUS
<1>4. End \in Nat
    BY DEF IInv, LogOK, End
<1>5. /\ g.file = r.file /\ g.log = r.log /\ g.offset = End + 1 /\ g.max = r.max
      /\ g.head <= g.offset
    <2>. DEFINE v == Wrote(r, <<kind>>)
    <2>1. r \in Memory /\ r.offset = End /\ Len(<<kind>>) = 1 /\ Len(<<kind>>) \in Nat
        BY <1>2 DEF Mapped, Fits
    <2>2. /\ v \in Memory /\ v.offset = r.offset + Len(<<kind>>)
          /\ v.file = r.file /\ v.log = r.log /\ v.max = r.max
        BY <2>1, Writing, Zenon
    <2>. HIDE DEF v
    <2>3. g = [v EXCEPT !.head = End + 1]
        BY <1>3 DEF v
    <2>4. g.file = v.file /\ g.log = v.log /\ g.offset = v.offset /\ g.max = v.max
          /\ g.head = End + 1
        BY <2>2, <2>3 DEF Memory
    <2>. QED BY <1>4, <2>1, <2>2, <2>4
<1>6. /\ kind # "hdr" /\ log' = Append(log, Rec(kind)) /\ UNCHANGED <<start, sync>>
      /\ appends' = appends + 1 /\ Unlocked
    BY DEF Transaction
<1>7. (\A q \in Procs : Keeps(proc[q]))' /\ Owing' /\ (appends \in Nat)'
    BY <1>1, <1>2, <1>3, <1>5, <1>6, WritePays
<1>8. SyncPays'
    <2>1. sync'.stage = "none"
        BY <1>6 DEF Unlocked, IInv, SyncOK, NoSync
    <2>. QED BY <2>1 DEF SyncPays
<1>. QED BY <1>7, <1>8 DEF PInv

LEMMA SyncTransactionPays ==
    ASSUME IInv, PInv, NEW p \in Procs, NEW kind \in Kinds, SyncTransaction(p, kind) PROVE PInv'
<1>1. PICK r \in mail_index_map(proc[p]) :
          proc' = [proc EXCEPT ![p] = Wrote(r, <<kind>>)]
    BY DEF SyncTransaction
<1>2. Mapped(r, proc[p]) /\ Covers(r) /\ r.max <= r.tail
    BY MappingKeeps DEF IInv, ProcsOK, PInv
<1>3. PICK g : g = Wrote(r, <<kind>>)
    OBVIOUS
<1>4. End \in Nat
    BY DEF IInv, LogOK, End
<1>5. /\ g.file = r.file /\ g.log = r.log /\ g.offset = End + 1 /\ g.max = r.max
      /\ g.head <= g.offset /\ g.tail = r.tail
    <2>1. r \in Memory /\ r.offset = End /\ r.head = End
          /\ Len(<<kind>>) = 1 /\ Len(<<kind>>) \in Nat
        BY <1>2 DEF Mapped, Fits
    <2>. DEFINE v == Wrote(r, <<kind>>)
    <2>2. /\ v \in Memory /\ v.offset = r.offset + Len(<<kind>>)
          /\ v.file = r.file /\ v.log = r.log /\ v.max = r.max /\ v.head = r.head
          /\ v.tail = r.tail
        BY <2>1, Writing, Zenon
    <2>. HIDE DEF v
    <2>3. g = v
        BY <1>3 DEF v
    <2>. QED BY <1>4, <2>1, <2>2, <2>3
<1>6. /\ kind # "hdr" /\ log' = Append(log, Rec(kind)) /\ UNCHANGED <<start, sync>>
      /\ appends' = appends + 1 /\ sync.proc = p /\ sync.stage = "sync"
    BY DEF SyncTransaction, Syncing
<1>7. (\A q \in Procs : Keeps(proc[q]))' /\ Owing' /\ (appends \in Nat)'
    BY <1>1, <1>2, <1>3, <1>5, <1>6, WritePays
<1>9. proc'[p] = g
    BY <1>1, <1>3 DEF IInv, ProcsOK
<1>8. SyncPays'
    <2>1. /\ End' = End + 1
          /\ \A i \in 1..End : log'[i] = log[i]
          /\ log'[End + 1].kind # "hdr"
          /\ \A k \in 1..End : Passes(k) => Passes(k)'
        BY <1>6, AppendPays DEF IInv
    <2>2. /\ sync.pos \in 0..End
          /\ \A k \in sync.pos + 1..End : log[k].kind # "hdr"
          /\ sync.requests \/ sync.expunges => \E k \in 1..sync.pos : Passes(k)
        BY <1>6, NoProcAssumption DEF IInv, SyncOK, PInv, SyncPays
    <2>3. \A k \in sync'.pos + 1..End' : log'[k].kind # "hdr"
        <3>1. ASSUME NEW k \in sync.pos + 1..End + 1 PROVE log'[k].kind # "hdr"
            <4>1. CASE k = End + 1
                BY <2>1, <4>1
            <4>2. CASE k # End + 1
                <5>1. k \in sync.pos + 1..End /\ k \in 1..End
                    BY <1>4, <2>2, <4>2
                <5>. QED BY <2>1, <2>2, <5>1
            <4>. QED BY <4>1, <4>2
        <3>. QED BY <1>6, <2>1, <3>1
    <2>4. ASSUME sync'.requests \/ sync'.expunges
          PROVE  \E k \in 1..sync'.pos : Passes(k)'
        <3>1. PICK k \in 1..sync.pos : Passes(k)
            BY <1>6, <2>2, <2>4
        <3>2. k \in 1..End
            BY <1>4, <2>2
        <3>. QED BY <1>6, <2>1, <3>1, <3>2
    <2>5. proc'[sync'.proc].max <= proc'[sync'.proc].tail
        BY <1>2, <1>5, <1>6, <1>9
    <2>. QED BY <2>3, <2>4, <2>5 DEF SyncPays
<1>. QED BY <1>7, <1>8 DEF PInv

LEMMA CrashPays == ASSUME IInv, PInv, NEW p \in Procs, Crash(p) PROVE PInv'
<1>1. Keeps(Closed)
    BY ClosedKeeps DEF IInv
<1>2. sync'.stage # "sync" \/ (sync' = sync /\ sync.proc # p)
    BY DEF Crash, NoSync
<1>. QED BY <1>1, <1>2, MemoryPays DEF Crash

LEMMA RotatePays == ASSUME IInv, PInv, NEW p \in Procs, Rotate(p) PROVE PInv'
<1>0. PICK g : g = [open |-> TRUE, file |-> End, head |-> End, tail |-> End,
             log |-> End, offset |-> End, max |-> NoOffset, last |-> NoOffset]
    OBVIOUS
<1>1. /\ sync' = [sync EXCEPT !.stage = "recreate"] /\ start' = End /\ start < End
      /\ proc' = [proc EXCEPT ![p] = g] /\ UNCHANGED <<log, appends>>
    BY <1>0 DEF Rotate
<1>2. End' = End /\ End \in Nat /\ start \in Nat
    BY <1>1 DEF End, IInv, LogOK, FilesOK
<1>3. ASSUME NEW q \in Procs PROVE Keeps(proc[q])'
    <2>1. CASE q = p
        <3>1. proc'[q] = g
            BY <1>1, <2>1 DEF IInv, ProcsOK
        <3>2. g.file = End /\ g.log = End /\ g.head = End /\ g.offset = End
            BY <1>0
        <3>. QED BY <1>1, <1>2, <3>1, <3>2 DEF Keeps, Covers
    <2>2. CASE q # p
        <3>1. proc'[q] = proc[q] /\ Fits(proc[q]) /\ Keeps(proc[q])
            BY <1>1, <2>2 DEF IInv, ProcsOK, PInv
        <3>2. proc[q].log # End
            BY <1>1, <1>2, <3>1 DEF Fits, NoOffset
        <3>. QED BY <1>1, <3>1, <3>2 DEF Keeps
    <2>. QED BY <2>1, <2>2
<1>4. Owing'
    BY <1>1, <1>2 DEF Owing
<1>5. SyncPays'
    <2>1. sync'.stage = "recreate"
        BY <1>1 DEF IInv, SyncOK
    <2>. QED BY <2>1 DEF SyncPays
<1>. QED BY <1>1, <1>3, <1>4, <1>5 DEF PInv

(* Init and every step keep PInv. *)
LEMMA InitPays == Init => PInv
<1>. SUFFICES ASSUME Init PROVE PInv
    OBVIOUS
<1>1. FilesOK
    BY InitOK DEF IInv
<1>2. \A p \in Procs : Keeps(proc[p])
    BY <1>1, ClosedKeeps DEF Init
<1>3. Owing /\ SyncPays /\ appends \in Nat
    BY DEF Init, Owing, SyncPays, NoSync, End
<1>. QED BY <1>2, <1>3 DEF PInv

LEMMA StepPays == ASSUME IInv, PInv, [Next]_vars PROVE PInv'
<1>1. CASE UNCHANGED vars
    BY <1>1, SyncOnlyPays DEF vars
<1>2. ASSUME NEW p \in Procs, Open(p) PROVE PInv'
    BY <1>2, OpenPays
<1>3. ASSUME NEW p \in Procs, mail_index_refresh(p) PROVE PInv'
    BY <1>3, RefreshPays
<1>4. ASSUME NEW p \in Procs, NEW kind \in Kinds, Transaction(p, kind) PROVE PInv'
    BY <1>4, TransactionPays
<1>5. ASSUME NEW p \in Procs, NEW kind \in Kinds, SyncTransaction(p, kind) PROVE PInv'
    BY <1>5, SyncTransactionPays
<1>6. ASSUME NEW p \in Procs, Crash(p) PROVE PInv'
    BY <1>6, CrashPays
<1>7. ASSUME NEW p \in Procs, NEW update \in BOOLEAN, SyncBegin(p, update) PROVE PInv'
    BY <1>7, SyncBeginPays
<1>8. ASSUME NEW p \in Procs, SyncBeginRequireChanges(p) PROVE PInv'
    BY <1>8, SyncBeginRequireChangesPays
<1>9. ASSUME NEW p \in Procs, NEW i \in sync.todo, mail_index_sync_next(p, i) PROVE PInv'
    <2>1. /\ sync' = [sync EXCEPT !.todo = sync.todo \ {i}]
          /\ UNCHANGED <<log, start, appends, proc>>
        BY <1>9 DEF mail_index_sync_next, counters
    <2>2. /\ sync'.stage = sync.stage /\ sync'.proc = sync.proc
          /\ sync'.pos = sync.pos /\ sync'.requests = sync.requests
          /\ sync'.expunges = sync.expunges
        BY <2>1 DEF IInv, SyncOK
    <2>. QED BY <2>1, <2>2, SyncOnlyPays
<1>10. ASSUME NEW p \in Procs, mail_index_sync_next_none(p) PROVE PInv'
    <2>1. /\ sync' = [sync EXCEPT !.full = TRUE]
          /\ UNCHANGED <<log, start, appends, proc>>
        BY <1>10 DEF mail_index_sync_next_none, counters
    <2>2. /\ sync'.stage = sync.stage /\ sync'.proc = sync.proc
          /\ sync'.pos = sync.pos /\ sync'.requests = sync.requests
          /\ sync'.expunges = sync.expunges
        BY <2>1 DEF IInv, SyncOK
    <2>. QED BY <2>1, <2>2, SyncOnlyPays
<1>11. ASSUME NEW p \in Procs, NEW changes \in {<<>>, <<Rec("ext")>>, <<Rec("exp")>>},
              Commit(p, changes)
       PROVE  PInv'
    BY <1>11, CommitPays
<1>12. ASSUME NEW p \in Procs, Rotate(p) PROVE PInv'
    BY <1>12, RotatePays
<1>13. ASSUME NEW p \in Procs, mail_index_recreate(p) \/ mail_index_sync_end(p) PROVE PInv'
    <2>1. sync' = NoSync /\ UNCHANGED <<log, start, appends, proc>>
        BY <1>13 DEF mail_index_recreate, mail_index_sync_end, counters
    <2>2. sync'.stage # "sync"
        BY <2>1 DEF NoSync
    <2>. QED BY <2>1, <2>2, SyncOnlyPays
<1>. QED BY <1>1, <1>2, <1>3, <1>4, <1>5, <1>6, <1>7, <1>8, <1>9, <1>10, <1>11, <1>12,
            <1>13 DEF Next

\* The step that TailUpdatesPay speaks of.
Pays ==
    LET old == {log[i].tail : i \in {j \in start + 1 .. End : log[j].kind = "hdr"}}
        new == log'[Len(log')].tail
    IN  log' # log /\ appends' = appends /\ old # {} =>
          \E k \in 1..new : log'[k].kind # "hdr" /\ \A t \in old : t < k

(* The commit of a sync that has no changes passes something. *)
LEMMA TailOnlyPays ==
    ASSUME IInv, PInv, NEW p \in Procs, Commit(p, <<>>), log' # log
    PROVE  Pays
<1>1. PICK r, recs, w : Committed(p, <<>>, r, recs, w)
    BY CommitParts
<1>2. Closing(recs, r.max)
    BY <1>1, CommitFits
<1>3. log' = log \o recs
    BY <1>1 DEF Committed
<1>4. /\ End \in Nat /\ End' = End + Len(recs) /\ Len(log') = End + Len(recs)
      /\ \A i \in 1..End : log'[i] = log[i]
      /\ \A j \in 1..Len(recs) : log'[End + j] = recs[j]
    BY <1>2, <1>3, CommitAppends
<1>5. recs # <<>>
    BY <1>3 DEF IInv, LogOK
<1>6. PICK n \in Int :
          /\ recs = <<Header(n)>>
          /\ \/ n = End + 1 /\ r.max = End /\ proc[p].max < End
             \/ n = sync.pos /\ r.max = sync.pos /\ n < End
                /\ (sync.requests \/ sync.expunges)
    BY <1>1, <1>5, TailMoves
<1>7. log'[Len(log')].tail = n
    <2>1. Len(recs) = 1 /\ recs[1] = Header(n)
        BY <1>6
    <2>2. log'[Len(log')] = Header(n)
        BY <1>4, <2>1
    <2>. QED BY <2>2 DEF Header
<1>8. SUFFICES ASSUME NEW i \in start + 1..End, log[i].kind = "hdr"
               PROVE  \E k \in 1..n : k \in 1..End /\ Passes(k)
    <2>1. ASSUME NEW k \in 1..n, k \in 1..End, Passes(k)
          PROVE  Pays
        BY <1>4, <1>7, <2>1 DEF Passes, Pays
    <2>. QED BY <2>1 DEF Pays
<1>9. /\ sync.proc = p /\ sync.stage = "sync" /\ sync.pos \in 0..End
      /\ proc[p].log = start /\ proc[p].offset = End
    BY NoProcAssumption DEF Commit, Syncing, IInv, SyncOK
<1>10. CASE n = End + 1 /\ proc[p].max < End
    <2>1. ASSUME NEW j \in start + 1..End, log[j].kind = "hdr" PROVE log[j].tail # End
        <3>1. log[j].tail <= proc[p].max
            BY <1>9, <2>1 DEF PInv, Keeps, Covers
        <3>2. proc[p].max \in Int
            BY DEF IInv, ProcsOK, Memory
        <3>. QED BY <1>4, <1>10, <3>1, <3>2
    <2>2. PICK k \in 1..End : Passes(k)
        BY <1>8, <2>1 DEF PInv, Owing
    <2>. QED BY <1>4, <1>10, <2>2
<1>11. CASE n = sync.pos /\ n < End /\ (sync.requests \/ sync.expunges)
    <2>1. PICK k \in 1..sync.pos : Passes(k)
        BY <1>9, <1>11 DEF PInv, SyncPays
    <2>. QED BY <1>4, <1>9, <1>11, <2>1
<1>. QED BY <1>6, <1>10, <1>11

(* A sync writes nothing but a tail offset only to pass something, so that *)
(* idle processes do not fill the log with tail updates: whatever the      *)
(* processes do, however many files the log has had and wherever they      *)
(* crash, with or without rewrites of dovecot.index by unfinished syncs.   *)
THEOREM TailUpdatesAlwaysPay == Spec => TailUpdatesPay
<1>1. PInv /\ IInv /\ [Next]_vars => PInv'
    BY StepPays
<1>2. IInv /\ PInv /\ [Next]_vars => [Pays]_vars
    <2>. SUFFICES ASSUME IInv, PInv, Next, log' # log, appends' = appends PROVE Pays
        BY DEF Pays
    <2>1. PICK p \in Procs, changes \in {<<>>, <<Rec("ext")>>, <<Rec("exp")>>} :
              Commit(p, changes)
        <3>1. appends \in Nat
            BY DEF PInv
        <3>2. appends # appends + 1
            BY <3>1
        <3>3. ASSUME NEW p \in Procs, NEW kind \in Kinds,
                     Transaction(p, kind) \/ SyncTransaction(p, kind)
              PROVE  FALSE
            BY <3>2, <3>3 DEF Transaction, SyncTransaction
        <3>. QED BY <3>3 DEF Next, Open, mail_index_refresh, Crash, SyncBegin,
                             SyncBeginRequireChanges, mail_index_sync_next,
                             mail_index_sync_next_none, Rotate, mail_index_recreate,
                             mail_index_sync_end
    <2>2. changes = <<>>
        <3>1. appends \in Nat /\ appends' = appends + Len(changes)
            BY <2>1 DEF PInv, Commit
        <3>2. changes # <<>> => Len(changes) = 1
            BY DEF Rec
        <3>. QED BY <3>1, <3>2
    <2>. QED BY <2>1, <2>2, TailOnlyPays
<1>3. [][Pays]_vars => TailUpdatesPay
    BY DEF TailUpdatesPay, Pays
<1>. QED BY InitPays, Invariance, <1>1, <1>2, <1>3, PTL DEF Spec
=============================================================================
