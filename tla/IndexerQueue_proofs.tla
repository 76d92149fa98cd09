------------------------ MODULE IndexerQueue_proofs ------------------------
(***************************************************************************)
(* Proofs about IndexerQueue, for any clients, mailboxes, worker limits    *)
(* and bounds.                                                             *)
(***************************************************************************)
EXTENDS IndexerQueue, FiniteSetTheorems, WellFoundedInduction, TLAPS

-----------------------------------------------------------------------------
(* Induction and recursion over the natural numbers, with sets and         *)
(* functions instead of operators, so that the backends can instantiate    *)
(* them                                                                    *)

(* A set that has 0, and n + 1 whenever it has n, has every number.        *)
LEMMA NatInd ==
    ASSUME NEW S, 0 \in S, \A n \in Nat : n \in S => n + 1 \in S
    PROVE  \A n \in Nat : n \in S
<1>. DEFINE T == {n \in Nat : n \notin S}
<1>. SUFFICES ASSUME T # {} PROVE FALSE
    OBVIOUS
<1>1. PICK x \in T : \A y \in T : ~ (<<y, x>> \in OpToRel(<, Nat))
    <2>1. T \subseteq Nat
        OBVIOUS
    <2>. HIDE DEF T
    <2>. QED BY <2>1, WFMin, NatLessThanWellFounded
<1>2. \A y \in T : ~(y < x)
    BY <1>1 DEF OpToRel
<1>3. x # 0
    OBVIOUS
<1>4. x - 1 \in Nat /\ x - 1 \in S
    BY <1>2, <1>3
<1>. QED BY <1>4

(* The same up to a number. *)
LEMMA UpTo ==
    ASSUME NEW S, NEW m \in Nat, 0 \in S,
           \A n \in 0 .. m - 1 : n \in S => n + 1 \in S
    PROVE  \A n \in 0 .. m : n \in S
<1>. DEFINE T == {n \in Nat : n <= m => n \in S}
<1>1. 0 \in T
    OBVIOUS
<1>2. \A n \in Nat : n \in T => n + 1 \in T
    OBVIOUS
<1>3. \A n \in Nat : n \in T
    <2>. HIDE DEF T
    <2>. QED BY <1>1, <1>2, NatInd
<1>. QED BY <1>3

\* f is a run of m steps in X: it begins with a, and step gives what follows.
Run(f, X, m, a, step) ==
    /\ f \in [0 .. m -> X]
    /\ f[0] = a
    /\ \A i \in 1 .. m : f[i] = step[<<f[i - 1], i>>]

(* From a in X, n steps of a function on X can be taken one after another. *)
LEMMA Steps ==
    ASSUME NEW X, NEW m \in Nat, NEW a \in X,
           NEW step, step \in [X \X (1 .. m) -> X]
    PROVE  \E f : Run(f, X, m, a, step)
<1>. DEFINE Taken(f, n) == f[0] = a /\ \A i \in 1 .. n : f[i] = step[<<f[i - 1], i>>]
            S == {n \in 0 .. m : \E f \in [0 .. n -> X] : Taken(f, n)}
<1>1. 0 \in S
    <2>. DEFINE f == [i \in 0 .. 0 |-> a]
    <2>1. f \in [0 .. 0 -> X] /\ Taken(f, 0)
        OBVIOUS
    <2>. HIDE DEF f
    <2>. QED BY <2>1
<1>2. ASSUME NEW n \in 0 .. m - 1, n \in S PROVE n + 1 \in S
    <2>1. PICK f \in [0 .. n -> X] : Taken(f, n)
        BY <1>2
    <2>. DEFINE g == [i \in 0 .. n + 1 |-> IF i <= n THEN f[i] ELSE step[<<f[n], n + 1>>]]
    <2>2. step[<<f[n], n + 1>>] \in X
        <3>1. <<f[n], n + 1>> \in X \X (1 .. m)
            OBVIOUS
        <3>. QED BY <3>1
    <2>3. g \in [0 .. n + 1 -> X]
        BY <2>2
    <2>4. ASSUME NEW i \in 1 .. n + 1 PROVE g[i] = step[<<g[i - 1], i>>]
        <3>1. CASE i <= n
            BY <3>1, <2>1
        <3>2. CASE i = n + 1
            BY <3>2
        <3>. QED BY <3>1, <3>2
    <2>5. g[0] = a
        BY <2>1
    <2>6. Taken(g, n + 1)
        BY <2>4, <2>5
    <2>. HIDE DEF g
    <2>. QED BY <2>3, <2>6
<1>3. m \in S
    <2>. HIDE DEF S
    <2>. QED BY <1>1, <1>2, UpTo
<1>. QED BY <1>3 DEF Run

-----------------------------------------------------------------------------
\* A request has a type as soon as it exists.
KnownOK == \A k \in Keys : req[k].type = "none" => req[k] = NoReq

\* Who was told lets go of its client, and nobody else does.
Holds(c) == {t \in Tickets : tk[t].client = c}
HeldOnce(c) == IF c \in connected THEN 1 ELSE 0
CountsOK ==
    /\ \A k \in Keys : Len(req[k].ctxs) <= made /\ req[k].idx <= made
    /\ \A c \in Clients : /\ refs[c] <= made + 1
                          /\ HeldOnce(c) + Cardinality(Holds(c)) <= refs[c]

TicketsOK ==
    \A t \in Tickets :
        /\ tk[t].client \in Clients => Waiting(t)
        /\ Waiting(t) => tk[t].client \in Clients /\ tk[t].key \in Keys

\* The contexts of request r of mailbox k, with T for the tickets.  The first idx
\* of them are told when the worker is done, which is asked for what they want;
\* the others came since and need another run.
Served(r, i) == r.working /\ i <= r.idx
Context(T, k, r, i) ==
    LET t == T[r.ctxs[i]] IN
    /\ t.status = "waiting"
    /\ t.key = k
    /\ Served(r, i) => t.run \in t.want
    /\ ~Served(r, i) => t.run = "none" /\ r.type \in t.want
    /\ r.working /\ i > r.idx => t.hit \/ r.head \/ r.tail
Contexts(T, k, r) ==
    /\ IsInjective(r.ctxs)
    /\ r.working => r.idx <= Len(r.ctxs)
    /\ \A i \in 1..Len(r.ctxs) : Context(T, k, r, i)
ContextsOK == \A k \in Keys : Contexts(tk, k, req[k])

\* Nobody who waits is forgotten.
WaitersOK ==
    up => \A t \in Tickets :
        Waiting(t) /\ ~tk[t].hit => \E i \in 1..Len(req[tk[t].key].ctxs) :
                                       req[tk[t].key].ctxs[i] = t

IInv ==
    /\ TypeOK /\ QueuedOrWorking /\ NeverStalled
    /\ KnownOK /\ CountsOK /\ TicketsOK /\ ContextsOK /\ WaitersOK

-----------------------------------------------------------------------------
(* Sequences.                                                              *)

LEMMA AppendSeq ==
    ASSUME NEW X, NEW q \in Seq(X), NEW x \in X
    PROVE  /\ Append(q, x) \in Seq(X)
           /\ Range(Append(q, x)) = Range(q) \union {x}
           /\ IsInjective(q) /\ x \notin Range(q) => IsInjective(Append(q, x))
<1>. DEFINE a == Append(q, x)
<1>1. /\ a \in Seq(X) /\ Len(a) = Len(q) + 1 /\ DOMAIN a = 1..Len(q) + 1 /\ Len(q) \in Nat
      /\ DOMAIN q = 1..Len(q) /\ a[Len(q) + 1] = x /\ \A i \in 1..Len(q) : a[i] = q[i]
    OBVIOUS
<1>. HIDE DEF a
<1>2. Range(a) = Range(q) \union {x}
    <2>1. ASSUME NEW i \in 1..Len(q) + 1 PROVE a[i] \in Range(q) \union {x}
        <3>1. CASE i \in 1..Len(q)
            BY <1>1, <3>1 DEF Range
        <3>2. CASE i = Len(q) + 1
            BY <1>1, <3>2
        <3>. QED BY <1>1, <3>1, <3>2
    <2>2. \A i \in 1..Len(q) : q[i] \in Range(a)
        BY <1>1 DEF Range
    <2>3. x \in Range(a)
        BY <1>1 DEF Range
    <2>. QED BY <1>1, <2>1, <2>2, <2>3 DEF Range
<1>3. ASSUME IsInjective(q), x \notin Range(q) PROVE IsInjective(a)
    <2>1. \A i \in 1..Len(q) : q[i] # x
        BY <1>1, <1>3 DEF Range
    <2>2. ASSUME NEW i \in 1..Len(q) + 1, NEW j \in 1..Len(q) + 1, a[i] = a[j] PROVE i = j
        <3>1. CASE i \in 1..Len(q) /\ j \in 1..Len(q)
            BY <1>1, <1>3, <2>2, <3>1 DEF IsInjective
        <3>2. CASE i = Len(q) + 1 \/ j = Len(q) + 1
            BY <1>1, <2>1, <2>2, <3>2
        <3>. QED BY <1>1, <3>1, <3>2
    <2>. QED BY <1>1, <2>2 DEF IsInjective
<1>. QED BY <1>1, <1>2, <1>3 DEF a

LEMMA PrependSeq ==
    ASSUME NEW X, NEW q \in Seq(X), NEW x \in X
    PROVE  /\ <<x>> \o q \in Seq(X)
           /\ Range(<<x>> \o q) = Range(q) \union {x}
           /\ IsInjective(q) /\ x \notin Range(q) => IsInjective(<<x>> \o q)
<1>. DEFINE a == <<x>> \o q
<1>1. /\ a \in Seq(X) /\ Len(a) = Len(q) + 1 /\ DOMAIN a = 1..Len(q) + 1 /\ Len(q) \in Nat
      /\ DOMAIN q = 1..Len(q) /\ a[1] = x
    OBVIOUS
<1>2. \A i \in 2..Len(q) + 1 : a[i] = q[i - 1]
    OBVIOUS
<1>. HIDE DEF a
<1>3. Range(a) = Range(q) \union {x}
    <2>1. ASSUME NEW i \in 1..Len(q) + 1 PROVE a[i] \in Range(q) \union {x}
        <3>1. CASE i \in 2..Len(q) + 1
            <4>1. i - 1 \in DOMAIN q
                BY <1>1, <3>1
            <4>. QED BY <1>2, <3>1, <4>1 DEF Range
        <3>2. CASE i = 1
            BY <1>1, <3>2
        <3>. QED BY <1>1, <3>1, <3>2
    <2>2. ASSUME NEW i \in 1..Len(q) PROVE q[i] \in Range(a)
        <3>1. i + 1 \in 2..Len(q) + 1 /\ (i + 1) - 1 = i /\ i + 1 \in DOMAIN a
            BY <1>1
        <3>. QED BY <1>2, <3>1 DEF Range
    <2>3. x \in Range(a)
        BY <1>1 DEF Range
    <2>. QED BY <1>1, <2>1, <2>2, <2>3 DEF Range
<1>4. ASSUME IsInjective(q), x \notin Range(q) PROVE IsInjective(a)
    <2>1. \A i \in 1..Len(q) : q[i] # x
        BY <1>1, <1>4 DEF Range
    <2>2. ASSUME NEW i \in 1..Len(q) + 1, NEW j \in 1..Len(q) + 1, a[i] = a[j] PROVE i = j
        <3>1. CASE i \in 2..Len(q) + 1 /\ j \in 2..Len(q) + 1
            <4>1. i - 1 \in DOMAIN q /\ j - 1 \in DOMAIN q /\ q[i - 1] = q[j - 1]
                BY <1>1, <1>2, <2>2, <3>1
            <4>2. i - 1 = j - 1
                BY <1>4, <4>1 DEF IsInjective
            <4>. QED BY <4>2
        <3>2. CASE i = 1 /\ j \in 2..Len(q) + 1
            <4>1. j - 1 \in 1..Len(q)
                BY <1>1, <3>2
            <4>. QED BY <1>1, <1>2, <2>1, <2>2, <3>2, <4>1
        <3>3. CASE j = 1 /\ i \in 2..Len(q) + 1
            <4>1. i - 1 \in 1..Len(q)
                BY <1>1, <3>3
            <4>. QED BY <1>1, <1>2, <2>1, <2>2, <3>3, <4>1
        <3>. QED BY <1>1, <3>1, <3>2, <3>3
    <2>. QED BY <1>1, <2>2 DEF IsInjective
<1>. QED BY <1>1, <1>3, <1>4 DEF a

LEMMA TailSeq ==
    ASSUME NEW X, NEW q \in Seq(X), q # <<>>, IsInjective(q)
    PROVE  /\ Tail(q) \in Seq(X) /\ q[1] \in X /\ q[1] \in Range(q)
           /\ Range(Tail(q)) = Range(q) \ {q[1]} /\ IsInjective(Tail(q))
<1>. DEFINE a == Tail(q)
<1>1. /\ a \in Seq(X) /\ Len(q) \in Nat \ {0} /\ DOMAIN a = 1..Len(q) - 1
      /\ DOMAIN q = 1..Len(q) /\ q[1] \in X /\ q[1] \in Range(q)
    BY DEF Range
<1>2. \A i \in 1..Len(q) - 1 : a[i] = q[i + 1] /\ i + 1 \in 1..Len(q)
    OBVIOUS
<1>. HIDE DEF a
<1>3. ASSUME NEW i \in 1..Len(q) - 1 PROVE a[i] \in Range(q) \ {q[1]}
    <2>1. i + 1 # 1 /\ i + 1 \in 1..Len(q) /\ 1 \in 1..Len(q)
        BY <1>1
    <2>. QED BY <1>1, <1>2, <2>1 DEF Range, IsInjective
<1>4. ASSUME NEW i \in 1..Len(q), i # 1 PROVE q[i] \in Range(a)
    <2>1. i - 1 \in 1..Len(q) - 1 /\ (i - 1) + 1 = i
        BY <1>1, <1>4
    <2>. QED BY <1>1, <1>2, <2>1 DEF Range
<1>5. Range(a) = Range(q) \ {q[1]}
    BY <1>1, <1>3, <1>4 DEF Range
<1>6. ASSUME NEW i \in 1..Len(q) - 1, NEW j \in 1..Len(q) - 1, a[i] = a[j] PROVE i = j
    <2>1. i + 1 = j + 1
        BY <1>1, <1>2, <1>6 DEF IsInjective
    <2>. QED BY <2>1
<1>7. IsInjective(a)
    BY <1>1, <1>6 DEF IsInjective
<1>. QED BY <1>1, <1>5, <1>7 DEF a

(* Without() goes through the sequence once. *)
LEMMA WithoutSteps ==
    ASSUME NEW X, NEW q \in Seq(X), NEW S
    PROVE  \E f : /\ Without(q, S) = f[Len(q)]
                  /\ f[0] = <<>>
                  /\ \A i \in 1..Len(q) :
                        f[i] = IF q[i] \in S THEN f[i - 1] ELSE Append(f[i - 1], q[i])
<1>0. PICK n \in Nat : n = Len(q)
    OBVIOUS
<1>e. PICK e : e = <<>>
    OBVIOUS
<1>. DEFINE Step(g, i) == IF q[i] \in S THEN g ELSE Append(g, q[i])
            Goes(f) == f = [i \in 0..n |-> IF i = 0 THEN e ELSE Step(f[i - 1], i)]
            Y == Seq(X)
            step == [x \in Y \X (1..n) |-> Step(x[1], x[2])]
<1>1. ASSUME NEW g \in Seq(X), NEW i \in 1..n PROVE Step(g, i) \in Seq(X)
    BY <1>0
<1>2. step \in [Y \X (1..n) -> Y]
    <2>1. ASSUME NEW x \in Y \X (1..n) PROVE Step(x[1], x[2]) \in Y
        <3>. HIDE DEF Step
        <3>. QED BY <1>1
    <2>. HIDE DEF Step, Y
    <2>. QED BY <2>1
<1>3. PICK f : Run(f, Y, n, e, step)
    <2>1. e \in Y
        BY <1>e
    <2>. HIDE DEF Y, step
    <2>. QED BY <1>2, <2>1, Steps
<1>4. \A i \in 1..n : f[i] = Step(f[i - 1], i)
    <2>1. ASSUME NEW i \in 1..n PROVE f[i] = Step(f[i - 1], i)
        <3>. HIDE DEF Step, Y
        <3>1. i - 1 \in 0..n
            OBVIOUS
        <3>2. <<f[i - 1], i>> \in Y \X (1..n)
            BY <1>3, <3>1 DEF Run
        <3>3. step[<<f[i - 1], i>>] = Step(f[i - 1], i)
            BY <3>2
        <3>. HIDE DEF step
        <3>. QED BY <1>3, <3>3 DEF Run
    <2>. HIDE DEF Step
    <2>. QED BY <2>1
<1>5. Goes(f)
    <2>. HIDE DEF Step, Y, step
    <2>1. \A i \in 0..n : f[i] = IF i = 0 THEN e ELSE Step(f[i - 1], i)
        BY <1>3, <1>4 DEF Run
    <2>2. f = [i \in 0..n |-> f[i]]
        BY <1>3 DEF Run
    <2>. QED BY <2>1, <2>2
<1>6. Goes(CHOOSE g : Goes(g))
    <2>. HIDE DEF Goes
    <2>. QED BY <1>5, Zenon
<1>. DEFINE h == CHOOSE g : Goes(g)
<1>7. Without(q, S) = h[n]
    BY <1>0, <1>e DEF Without
<1>8. h[0] = e /\ \A i \in 1..n : h[i] = Step(h[i - 1], i)
    <2>1. Goes(h)
        BY <1>6
    <2>. HIDE DEF h, Step
    <2>. QED BY <2>1
<1>. HIDE DEF h
<1>. QED BY <1>0, <1>e, <1>7, <1>8

(* Without() leaves what is not to go. *)
LEMMA WithoutSeq ==
    ASSUME NEW X, NEW q \in Seq(X), NEW S, IsInjective(q)
    PROVE  /\ Without(q, S) \in Seq(X)
           /\ Range(Without(q, S)) = Range(q) \ S
           /\ IsInjective(Without(q, S))
<1>1. PICK f : /\ Without(q, S) = f[Len(q)]
               /\ f[0] = <<>>
               /\ \A i \in 1..Len(q) :
                     f[i] = IF q[i] \in S THEN f[i - 1] ELSE Append(f[i - 1], q[i])
    BY WithoutSteps
<1>2. PICK m \in Nat : m = Len(q) /\ DOMAIN q = 1..m /\ \A i \in 1..m : q[i] \in X
    OBVIOUS
<1>. DEFINE First(n) == {q[i] : i \in 1..n}
            Good(n) == f[n] \in Seq(X) /\ Range(f[n]) = First(n) \ S /\ IsInjective(f[n])
            G == {n \in 0..m : Good(n)}
<1>3. 0 \in G
    <2>1. PICK e : e = <<>>
        OBVIOUS
    <2>2. e \in Seq(X) /\ Range(e) = {} /\ IsInjective(e) /\ First(0) = {}
        BY <2>1 DEF Range, IsInjective
    <2>3. f[0] = e
        BY <1>1, <2>1
    <2>. HIDE DEF First
    <2>. QED BY <2>2, <2>3
<1>4. ASSUME NEW n \in 0..m - 1, n \in G PROVE n + 1 \in G
    <2>1. Good(n) /\ n + 1 \in 1..m /\ (n + 1) - 1 = n
        BY <1>2, <1>4
    <2>2. First(n + 1) = First(n) \union {q[n + 1]}
        <3>1. 1..n + 1 = (1..n) \union {n + 1}
            OBVIOUS
        <3>. QED BY <3>1
    <2>3. q[n + 1] \notin First(n)
        BY <1>2, <2>1 DEF IsInjective
    <2>4. f[n + 1] = IF q[n + 1] \in S THEN f[n] ELSE Append(f[n], q[n + 1])
        BY <1>1, <1>2, <2>1
    <2>. HIDE DEF First
    <2>5. Good(n + 1)
        <3>1. CASE q[n + 1] \in S
            BY <2>1, <2>2, <2>4, <3>1
        <3>2. CASE q[n + 1] \notin S
            <4>1. q[n + 1] \in X /\ q[n + 1] \notin Range(f[n])
                BY <1>2, <2>1, <2>3
            <4>2. /\ Append(f[n], q[n + 1]) \in Seq(X)
                  /\ Range(Append(f[n], q[n + 1])) = Range(f[n]) \union {q[n + 1]}
                  /\ IsInjective(Append(f[n], q[n + 1]))
                BY <2>1, <4>1, AppendSeq
            <4>. QED BY <2>1, <2>2, <2>4, <3>2, <4>2
        <3>. QED BY <3>1, <3>2
    <2>. QED BY <2>1, <2>5
<1>5. m \in G
    <2>. HIDE DEF G
    <2>1. \A n \in 0..m - 1 : n \in G => n + 1 \in G
        BY <1>4
    <2>2. \A n \in 0..m : n \in G
        BY <1>3, <2>1, UpTo
    <2>. QED BY <2>2
<1>6. First(m) = Range(q)
    BY <1>2 DEF Range
<1>. QED BY <1>1, <1>2, <1>5, <1>6

-----------------------------------------------------------------------------
(* Requests and tickets.                                                   *)

TicketSet == [status : {"free", "waiting", "completed", "failed"},
              client : Clients \cup {"none"}, key : Keys \cup {NoKey},
              want : SUBSET Types, run : Types \cup {"none"}, hit : BOOLEAN]

LEMMA TypeFacts ==
    ASSUME TypeOK
    PROVE  /\ queue \in Seq(Keys) /\ req \in [Keys -> Requests]
           /\ tk \in [Tickets -> TicketSet] /\ made \in Nat /\ MaxRequests \in Nat
           /\ made <= MaxRequests
           /\ refs \in [Clients -> Int] /\ \A c \in Clients : refs[c] >= 0
           /\ connected \subseteq Clients
BY BoundsAssumption DEF TypeOK, TicketSet

LEMMA RequestFacts ==
    ASSUME NEW r \in Requests
    PROVE  /\ r.ctxs \in Seq(Tickets) /\ Len(r.ctxs) \in Nat /\ DOMAIN r.ctxs = 1..Len(r.ctxs)
           /\ \A i \in 1..Len(r.ctxs) : r.ctxs[i] \in Tickets
           /\ r.idx \in Nat /\ r.idx <= MaxRequests /\ r.type \in Types \union {"none"}
           /\ r.working \in BOOLEAN /\ r.head \in BOOLEAN /\ r.tail \in BOOLEAN
BY BoundsAssumption DEF Requests

LEMMA NoReqFacts ==
    /\ NoReq \in Requests /\ NoReq.type = "none" /\ ~NoReq.working /\ ~NoReq.head /\ ~NoReq.tail
    /\ NoReq.idx = 0 /\ NoReq.ctxs = <<>> /\ Len(NoReq.ctxs) = 0
    /\ \A T, k : Contexts(T, k, NoReq)
<1>1. /\ NoReq.type = "none" /\ ~NoReq.working /\ ~NoReq.head /\ ~NoReq.tail
      /\ NoReq.idx = 0 /\ NoReq.ctxs = <<>> /\ Len(NoReq.ctxs) = 0
    BY DEF NoReq
<1>2. PICK e : e = <<>>
    OBVIOUS
<1>3. 0 \in 0..MaxRequests /\ e \in Seq(Tickets)
    BY <1>2, BoundsAssumption
<1>4. NoReq \in Requests
    BY <1>2, <1>3 DEF NoReq, Requests
<1>5. IsInjective(NoReq.ctxs)
    BY <1>1 DEF IsInjective
<1>6. ASSUME NEW T, NEW k PROVE Contexts(T, k, NoReq)
    BY <1>1, <1>5 DEF Contexts
<1>. QED BY <1>1, <1>4, <1>6

(* Contexts stay what they are if their tickets do. *)
LEMMA KeepContexts ==
    ASSUME NEW T, NEW U, NEW k, NEW r, Contexts(T, k, r),
           \A i \in 1..Len(r.ctxs) :
               LET t == T[r.ctxs[i]]
                   u == U[r.ctxs[i]]
               IN  /\ u.status = t.status /\ u.key = t.key /\ u.run = t.run
                   /\ u.want = t.want /\ (t.hit => u.hit)
    PROVE  Contexts(U, k, r)
BY DEF Contexts, Context

(* Some tickets are answered. *)
LEMMA LetGo ==
    ASSUME TypeOK, TicketsOK, NEW told \in SUBSET Tickets, tk' \in [Tickets -> TicketSet],
           \A t \in told : tk'[t].client = "none" /\ tk'[t].status # "waiting",
           \A t \in Tickets \ told : /\ tk'[t].client = tk[t].client
                                     /\ tk'[t].status = tk[t].status
                                     /\ tk'[t].key = tk[t].key
    PROVE  /\ TicketsOK'
           /\ \A c \in Clients :
                 /\ Cardinality({t \in told : tk[t].client = c}) \in Nat
                 /\ Cardinality({t \in Tickets : tk[t].client = c}) \in Nat
                 /\ Cardinality({t \in Tickets : tk'[t].client = c})
                       = Cardinality({t \in Tickets : tk[t].client = c})
                           - Cardinality({t \in told : tk[t].client = c})
<1>1. TicketsOK'
    <2>1. ASSUME NEW t \in Tickets
          PROVE  /\ tk'[t].client \in Clients => tk'[t].status = "waiting"
                 /\ tk'[t].status = "waiting" => tk'[t].client \in Clients /\ tk'[t].key \in Keys
        <3>1. CASE t \in told
            BY <3>1, ClientsAssumption
        <3>2. CASE t \notin told
            BY <3>2 DEF TicketsOK, Waiting
        <3>. QED BY <3>1, <3>2
    <2>. QED BY <2>1 DEF TicketsOK, Waiting
<1>2. ASSUME NEW c \in Clients
      PROVE  /\ Cardinality({t \in told : tk[t].client = c}) \in Nat
             /\ Cardinality({t \in Tickets : tk[t].client = c}) \in Nat
             /\ Cardinality({t \in Tickets : tk'[t].client = c})
                   = Cardinality({t \in Tickets : tk[t].client = c})
                       - Cardinality({t \in told : tk[t].client = c})
    <2>1. PICK H : H = {t \in Tickets : tk[t].client = c}
        OBVIOUS
    <2>2. {t \in told : tk[t].client = c} = H \intersect told
        BY <2>1
    <2>3. {t \in Tickets : tk'[t].client = c} = H \ told
        BY <2>1, ClientsAssumption
    <2>4. IsFiniteSet(H)
        BY <2>1, BoundsAssumption, FS_Subset
    <2>5. Cardinality(H) \in Nat /\ Cardinality(H \intersect told) \in Nat
        BY <2>4, FS_CardinalityType, FS_Intersection
    <2>6. Cardinality(H \ told) = Cardinality(H) - Cardinality(H \intersect told)
        BY <2>4, FS_Difference
    <2>. QED BY <2>1, <2>2, <2>3, <2>5, <2>6
<1>. QED BY <1>1, <1>2

-----------------------------------------------------------------------------
(* The steps.                                                              *)

\* What the invariant says of the tickets and their requests.
TicketPart == KnownOK /\ CountsOK /\ TicketsOK /\ ContextsOK /\ WaitersOK

LEMMA SameTickets ==
    ASSUME IInv, UNCHANGED <<req, tk, made, connected, refs>>, up' => up
    PROVE  TicketPart'
<1>1. KnownOK' /\ CountsOK'
    BY DEF IInv, KnownOK, CountsOK, Holds, HeldOnce
<1>2. TicketsOK' /\ WaitersOK'
    BY DEF IInv, TicketsOK, WaitersOK, Waiting
<1>3. ContextsOK'
    BY DEF IInv, ContextsOK
<1>. QED BY <1>1, <1>2, <1>3 DEF TicketPart

LEMMA Together ==
    ASSUME TypeOK', QueuedOrWorking', NeverStalled', TicketPart'
    PROVE  IInv'
BY DEF IInv, TicketPart

LEMMA MoveHeadOK ==
    ASSUME IInv, MoveHead
    PROVE  IInv'
<1>1. /\ TypeOK /\ QueuedOrWorking /\ queue \in Seq(Keys) /\ IsInjective(queue) /\ queue # <<>>
      /\ UNCHANGED <<req, conn, limit, tk, made, connected, refs, up, panic>>
    BY DEF IInv, TypeOK, QueuedOrWorking, MoveHead
<1>2. /\ Tail(queue) \in Seq(Keys) /\ queue[1] \in Keys /\ queue[1] \in Range(queue)
      /\ Range(Tail(queue)) = Range(queue) \ {queue[1]} /\ IsInjective(Tail(queue))
    BY <1>1, TailSeq
<1>3. /\ queue' \in Seq(Keys) /\ Range(queue') = Range(queue) /\ IsInjective(queue')
    <2>1. PICK q, x : q = Tail(queue) /\ x = queue[1]
        OBVIOUS
    <2>2. queue' = Append(q, x) /\ q \in Seq(Keys) /\ x \in Keys /\ x \notin Range(q)
          /\ IsInjective(q) /\ Range(q) \union {x} = Range(queue)
        BY <1>2, <2>1 DEF MoveHead
    <2>. QED BY <2>2, AppendSeq
<1>4. loop' \in [on : BOOLEAN, moved : Keys \cup {NoKey}] /\ loop'.on
    <2>1. PICK m \in Keys \union {NoKey} : loop' = [loop EXCEPT !.moved = m]
        BY <1>1, <1>2 DEF MoveHead, TypeOK
    <2>. QED BY <1>1, <2>1 DEF MoveHead, TypeOK
<1>5. TypeOK'
    BY <1>1, <1>3, <1>4 DEF TypeOK
<1>6. QueuedOrWorking'
    BY <1>1, <1>3 DEF QueuedOrWorking, Exists, Busy
<1>7. NeverStalled'
    BY <1>4 DEF NeverStalled, Ready
<1>8. TicketPart'
    BY <1>1, SameTickets
<1>. QED BY <1>5, <1>6, <1>7, <1>8, Together

LEMMA BusyFinite ==
    IsFiniteSet(Slots) /\ Cardinality(Slots) = MaxWorkers /\ IsFiniteSet(Busy)
    /\ Cardinality(Busy) \in Nat /\ (Busy # {} <=> Cardinality(Busy) > 0)
<1>1. IsFiniteSet(Slots) /\ Cardinality(Slots) = MaxWorkers
    BY LimitsAssumption, FS_Interval DEF Slots
<1>2. Busy \in SUBSET Slots
    BY DEF Busy
<1>3. IsFiniteSet(Busy)
    BY <1>1, <1>2, FS_Subset
<1>4. Cardinality(Busy) \in Nat
    BY <1>3, FS_CardinalityType
<1>5. Cardinality(Busy) = 0 <=> Busy = {}
    BY <1>3, FS_EmptySet
<1>. QED BY <1>1, <1>3, <1>4, <1>5

LEMMA LoopValues ==
    /\ Idle \in [on : BOOLEAN, moved : Keys \cup {NoKey}] /\ ~Idle.on
    /\ TrySendMore \in [on : BOOLEAN, moved : Keys \cup {NoKey}] /\ TrySendMore.on
BY DEF Idle, TrySendMore

LEMMA LoopOK ==
    ASSUME IInv, ConnectFails \/ LoopEnd
    PROVE  IInv'
<1>1. UNCHANGED <<queue, req, conn, limit, tk, made, connected, refs, up, panic>>
    BY DEF ConnectFails, LoopEnd
<1>2. loop' \in [on : BOOLEAN, moved : Keys \cup {NoKey}]
    BY LoopValues DEF ConnectFails, LoopEnd
<1>3. TypeOK'
    BY <1>1, <1>2 DEF IInv, TypeOK
<1>4. QueuedOrWorking'
    BY <1>1 DEF IInv, QueuedOrWorking, Exists, Busy
<1>5. NeverStalled'
    <2>1. CASE ConnectFails
        BY <2>1 DEF ConnectFails, TrySendMore, NeverStalled, Ready
    <2>2. CASE LoopEnd /\ queue = <<>>
        BY <1>1, <2>2 DEF NeverStalled
    <2>3. CASE LoopEnd /\ queue # <<>> /\ HeadWaits
        BY <1>1, <2>3 DEF NeverStalled, HeadWaits, Busy
    <2>4. CASE LoopEnd /\ queue # <<>> /\ ~RoomForWorker
        <3>1. limit \in Int
            BY LimitsAssumption DEF IInv, TypeOK
        <3>2. Busy # {}
            BY <2>4, <3>1, BusyFinite DEF RoomForWorker
        <3>. QED BY <1>1, <3>2 DEF NeverStalled, Busy
    <2>. QED BY <2>1, <2>2, <2>3, <2>4 DEF LoopEnd
<1>6. TicketPart'
    BY <1>1, SameTickets
<1>. QED BY <1>3, <1>4, <1>5, <1>6, Together

LEMMA HandshakeOK ==
    ASSUME IInv, NEW s \in Slots, NEW n \in Limits, Handshake(s, n)
    PROVE  IInv'
<1>1. UNCHANGED <<queue, req, loop, tk, made, connected, refs, up, panic>>
    BY DEF Handshake
<1>2. /\ conn' \in [Slots -> [key : Keys \cup {NoKey}, shaken : BOOLEAN]]
      /\ \A r \in Slots : conn'[r].key = conn[r].key
    <2>1. conn \in [Slots -> [key : Keys \cup {NoKey}, shaken : BOOLEAN]]
        BY DEF IInv, TypeOK
    <2>2. PICK g : g = [conn[s] EXCEPT !.shaken = TRUE]
        OBVIOUS
    <2>3. g \in [key : Keys \cup {NoKey}, shaken : BOOLEAN] /\ g.key = conn[s].key
        BY <2>1, <2>2
    <2>4. conn' = [conn EXCEPT ![s] = g]
        BY <2>1, <2>2 DEF Handshake
    <2>. QED BY <2>1, <2>3, <2>4
<1>3. TypeOK'
    BY <1>1, <1>2 DEF IInv, TypeOK, Handshake
<1>4. Busy' = Busy
    BY <1>2 DEF Busy
<1>5. QueuedOrWorking'
    <2>1. \A r \in Busy : conn'[r].key = conn[r].key
        BY <1>2 DEF Busy
    <2>. QED BY <1>1, <1>4, <2>1 DEF IInv, QueuedOrWorking, Exists
<1>6. NeverStalled'
    BY <1>1, <1>4 DEF IInv, NeverStalled, Ready
<1>7. TicketPart'
    BY <1>1, SameTickets
<1>. QED BY <1>3, <1>5, <1>6, <1>7, Together

LEMMA DisconnectOK ==
    ASSUME IInv, NEW c \in Clients, Disconnect(c)
    PROVE  IInv'
<1>1. /\ UNCHANGED <<queue, req, conn, limit, loop, tk, made, up, panic>>
      /\ c \in connected /\ connected' = connected \ {c}
    BY DEF Disconnect
<1>2. /\ TypeOK /\ CountsOK /\ refs \in [Clients -> Int] /\ made \in Nat
      /\ made <= MaxRequests /\ MaxRequests \in Nat
    BY TypeFacts DEF IInv
<1>3. ASSUME NEW d \in Clients
      PROVE  /\ Cardinality(Holds(d)) \in Nat /\ refs'[d] \in Int
             /\ HeldOnce(d)' + Cardinality(Holds(d)) <= refs'[d]
             /\ refs'[d] <= made + 1 /\ refs'[d] >= 0
    <2>1. IsFiniteSet(Holds(d))
        BY BoundsAssumption, FS_Subset DEF Holds
    <2>2. Cardinality(Holds(d)) \in Nat
        BY <2>1, FS_CardinalityType
    <2>3. /\ refs[d] \in Int /\ HeldOnce(d) + Cardinality(Holds(d)) <= refs[d]
          /\ refs[d] <= made + 1
        BY <1>2 DEF CountsOK
    <2>4. CASE d = c
        <3>1. refs'[d] = refs[d] - 1 /\ HeldOnce(d) = 1 /\ HeldOnce(d)' = 0
            BY <1>1, <1>2, <2>4 DEF Disconnect, HeldOnce
        <3>. QED BY <1>2, <2>2, <2>3, <3>1
    <2>5. CASE d # c
        <3>1. refs'[d] = refs[d] /\ HeldOnce(d)' = HeldOnce(d) /\ HeldOnce(d) \in {0, 1}
            BY <1>1, <1>2, <2>5 DEF Disconnect, HeldOnce
        <3>. QED BY <1>2, <2>2, <2>3, <3>1
    <2>. QED BY <2>4, <2>5
<1>4. refs' \in [Clients -> 0..MaxRequests + 1]
    <2>1. refs' = [d \in Clients |-> refs'[d]]
        BY <1>2 DEF Disconnect
    <2>2. \A d \in Clients : refs'[d] \in 0..MaxRequests + 1
        BY <1>2, <1>3
    <2>. QED BY <2>1, <2>2
<1>5. TypeOK'
    BY <1>1, <1>2, <1>4 DEF TypeOK
<1>6. QueuedOrWorking' /\ NeverStalled'
    BY <1>1 DEF IInv, QueuedOrWorking, NeverStalled, Exists, Busy, Ready
<1>7. KnownOK' /\ TicketsOK' /\ ContextsOK' /\ WaitersOK'
    <2>1. KnownOK' /\ ContextsOK'
        BY <1>1 DEF IInv, KnownOK, ContextsOK
    <2>2. TicketsOK' /\ WaitersOK'
        BY <1>1 DEF IInv, TicketsOK, WaitersOK, Waiting
    <2>. QED BY <2>1, <2>2
<1>8. CountsOK'
    <2>1. \A d \in Clients : Holds(d)' = Holds(d)
        BY <1>1 DEF Holds
    <2>. QED BY <1>1, <1>2, <1>3, <2>1 DEF CountsOK
<1>. QED BY <1>5, <1>6, <1>7, <1>8, Together DEF TicketPart

(* The request that a connection works on. *)
LEMMA WorkedOn ==
    ASSUME IInv, NEW s \in Busy
    PROVE  /\ s \in Slots /\ conn[s].key \in Keys /\ req[conn[s].key].working
           /\ conn[s].key \notin Range(queue)
           /\ req[conn[s].key] \in Requests /\ req[conn[s].key] # NoReq
           /\ req[conn[s].key].type # "none"
           /\ \A r \in Busy : conn[r].key = conn[s].key => r = s
<1>1. s \in Slots /\ conn[s].key \in Keys
    BY DEF Busy, IInv, TypeOK
<1>2. req[conn[s].key].working /\ conn[s].key \notin Range(queue)
    BY <1>1 DEF IInv, QueuedOrWorking
<1>3. req[conn[s].key] \in Requests /\ req[conn[s].key] # NoReq
    BY <1>1, <1>2, NoReqFacts DEF IInv, TypeOK
<1>. QED BY <1>1, <1>2, <1>3 DEF IInv, KnownOK, QueuedOrWorking, User

(* The tickets that a request tells are its own. *)
LEMMA ToldTickets ==
    ASSUME IInv, NEW k \in Keys, ~Overrun(req[k]), NEW t \in Told(req[k])
    PROVE  /\ t \in Tickets /\ Waiting(t) /\ tk[t].key = k
           /\ \E i \in 1..Len(req[k].ctxs) : i <= req[k].idx /\ t = req[k].ctxs[i]
<1>1. req[k] \in Requests
    BY DEF IInv, TypeOK
<1>2. PICK i \in 1..req[k].idx : t = req[k].ctxs[i]
    BY DEF Told
<1>3. i \in 1..Len(req[k].ctxs) /\ i <= req[k].idx
    BY <1>1, RequestFacts DEF Overrun
<1>4. Context(tk, k, req[k], i)
    BY <1>3 DEF IInv, ContextsOK, Contexts
<1>. QED BY <1>1, <1>2, <1>3, <1>4, RequestFacts DEF Context, Waiting

LEMMA AnsweredTickets ==
    ASSUME IInv, NEW told \in SUBSET Tickets, NEW state \in {"completed", "failed"},
           NEW T, T = Answered(told, state)
    PROVE  /\ T \in [Tickets -> TicketSet]
           /\ \A t \in told : T[t].client = "none" /\ T[t].status = state
           /\ \A t \in Tickets \ told : T[t] = tk[t]
<1>1. PICK a : a = [NoTicket EXCEPT !.status = state]
    OBVIOUS
<1>2. NoTicket \in TicketSet /\ NoTicket.client = "none"
    BY DEF NoTicket, TicketSet
<1>3. a \in TicketSet /\ a.client = "none" /\ a.status = state
    BY <1>1, <1>2 DEF TicketSet
<1>4. T = [t \in Tickets |-> IF t \in told THEN a ELSE tk[t]]
    BY <1>1 DEF Answered
<1>5. tk \in [Tickets -> TicketSet]
    BY TypeFacts DEF IInv
<1>. QED BY <1>3, <1>4, <1>5

(* Clients are let go of as their tickets are answered. *)
LEMMA UnrefOK ==
    ASSUME IInv, NEW told \in SUBSET Tickets, tk' \in [Tickets -> TicketSet],
           \A t \in told : tk'[t].client = "none" /\ tk'[t].status # "waiting",
           \A t \in Tickets \ told : /\ tk'[t].client = tk[t].client
                                     /\ tk'[t].status = tk[t].status
                                     /\ tk'[t].key = tk[t].key,
           NEW gone \in SUBSET connected, connected' = connected \ gone,
           refs' = [c \in Clients |-> Unref(told)[c] - (IF c \in gone THEN 1 ELSE 0)]
    PROVE  /\ TicketsOK' /\ refs' \in [Clients -> 0..MaxRequests + 1]
           /\ \A c \in Clients : /\ refs'[c] <= made + 1
                                 /\ HeldOnce(c)' + Cardinality(Holds(c)') <= refs'[c]
<1>1. TypeOK /\ TicketsOK /\ CountsOK /\ made \in Nat /\ MaxRequests \in Nat /\ made <= MaxRequests
    BY TypeFacts DEF IInv
<1>2. /\ TicketsOK'
      /\ \A c \in Clients :
            /\ Cardinality({t \in told : tk[t].client = c}) \in Nat
            /\ Cardinality({t \in Tickets : tk[t].client = c}) \in Nat
            /\ Cardinality({t \in Tickets : tk'[t].client = c})
                  = Cardinality({t \in Tickets : tk[t].client = c})
                      - Cardinality({t \in told : tk[t].client = c})
    BY <1>1, LetGo
<1>3. ASSUME NEW c \in Clients
      PROVE  /\ refs'[c] \in Int /\ refs'[c] >= 0 /\ refs'[c] <= made + 1
             /\ HeldOnce(c)' + Cardinality(Holds(c)') <= refs'[c]
    <2>1. PICK a, b, d : /\ a = Cardinality({t \in told : tk[t].client = c})
                         /\ b = Cardinality({t \in Tickets : tk[t].client = c})
                         /\ d = Cardinality({t \in Tickets : tk'[t].client = c})
        OBVIOUS
    <2>2. a \in Nat /\ b \in Nat /\ d = b - a /\ d \in Nat
        <3>1. a \in Nat /\ b \in Nat /\ d = b - a
            BY <1>2, <2>1
        <3>2. IsFiniteSet({t \in Tickets : tk'[t].client = c})
            BY BoundsAssumption, FS_Subset
        <3>. QED BY <2>1, <3>1, <3>2, FS_CardinalityType
    <2>3. Unref(told)[c] = refs[c] - a
        BY <2>1 DEF Unref
    <2>4. b = Cardinality(Holds(c)) /\ d = Cardinality(Holds(c)')
        BY <2>1 DEF Holds
    <2>5. refs[c] \in Int /\ refs[c] <= made + 1 /\ HeldOnce(c) + b <= refs[c]
        BY <1>1, <2>4, TypeFacts DEF CountsOK
    <2>6. CASE c \in gone
        <3>1. HeldOnce(c) = 1 /\ HeldOnce(c)' = 0 /\ refs'[c] = refs[c] - a - 1
            BY <2>3, <2>6 DEF HeldOnce
        <3>. QED BY <1>1, <2>2, <2>4, <2>5, <3>1
    <2>7. CASE c \notin gone
        <3>1. HeldOnce(c)' = HeldOnce(c) /\ HeldOnce(c) \in {0, 1} /\ refs'[c] = refs[c] - a - 0
            BY <2>3, <2>7 DEF HeldOnce
        <3>. QED BY <1>1, <2>2, <2>4, <2>5, <3>1
    <2>. QED BY <2>6, <2>7
<1>4. refs' \in [Clients -> 0..MaxRequests + 1]
    <2>1. \A c \in Clients : refs'[c] \in 0..MaxRequests + 1
        BY <1>1, <1>3
    <2>2. refs' = [c \in Clients |-> refs'[c]]
        OBVIOUS
    <2>. QED BY <2>1, <2>2
<1>. QED BY <1>2, <1>3, <1>4

LEMMA UnrefNone ==
    ASSUME IInv, NEW told \in SUBSET Tickets
    PROVE  Unref(told) = [c \in Clients |-> Unref(told)[c] - (IF c \in {} THEN 1 ELSE 0)]
<1>1. ASSUME NEW c \in Clients PROVE Unref(told)[c] \in Int
    <2>1. IsFiniteSet({t \in told : tk[t].client = c})
        BY BoundsAssumption, FS_Subset
    <2>2. Cardinality({t \in told : tk[t].client = c}) \in Nat
        BY <2>1, FS_CardinalityType
    <2>3. refs[c] \in Int
        BY TypeFacts DEF IInv
    <2>. QED BY <2>2, <2>3 DEF Unref
<1>2. Unref(told) = [c \in Clients |-> Unref(told)[c]]
    BY DEF Unref
<1>3. \A c \in Clients : Unref(told)[c] = Unref(told)[c] - (IF c \in {} THEN 1 ELSE 0)
    BY <1>1
<1>. QED BY <1>2, <1>3

LEMMA AgainRequest ==
    ASSUME NEW r \in Requests, r.idx <= Len(r.ctxs), NEW g, g = Again(r)
    PROVE  /\ g \in Requests /\ g.type = r.type /\ ~g.working /\ ~g.head /\ ~g.tail
           /\ g.idx = r.idx /\ Len(g.ctxs) = Len(r.ctxs) - r.idx
           /\ \A i \in 1..Len(g.ctxs) : g.ctxs[i] = r.ctxs[r.idx + i]
<1>1. /\ r.ctxs \in Seq(Tickets) /\ Len(r.ctxs) \in Nat /\ r.idx \in Nat
    BY RequestFacts
<1>2. PICK n : n = SubSeq(r.ctxs, r.idx + 1, Len(r.ctxs))
    OBVIOUS
<1>3. /\ n \in Seq(Tickets) /\ Len(n) = Len(r.ctxs) - r.idx
      /\ \A i \in 1..Len(n) : n[i] = r.ctxs[r.idx + i]
    <2>1. PICK x \in Nat, m \in Nat : x = r.idx /\ m = Len(r.ctxs) /\ x <= m
        BY <1>1
    <2>q. PICK q \in Seq(Tickets) : q = r.ctxs
        BY <1>1
    <2>2. n = SubSeq(q, x + 1, m) /\ m = Len(q) /\ x <= m
        BY <1>2, <2>1, <2>q
    <2>3. n \in Seq(Tickets) /\ Len(n) = m - x /\ \A i \in 1..m - x : n[i] = q[x + i]
        <3>1. n \in Seq(Tickets) /\ Len(n) = m - x
            BY <2>2
        <3>2. ASSUME NEW i \in 1..m - x PROVE n[i] = q[x + i]
            <4>1. n[i] = q[(x + 1) + i - 1]
                BY <2>2, <3>1
            <4>2. (x + 1) + i - 1 = x + i
                OBVIOUS
            <4>. QED BY <4>1, <4>2
        <3>. QED BY <3>1, <3>2
    <2>4. ASSUME NEW i \in 1..Len(n) PROVE n[i] = r.ctxs[r.idx + i]
        <3>1. i \in 1..m - x
            BY <2>3
        <3>2. q[x + i] = r.ctxs[r.idx + i]
            BY <2>1, <2>q
        <3>. QED BY <2>3, <3>1, <3>2
    <2>5. Len(n) = Len(r.ctxs) - r.idx
        BY <2>1, <2>3
    <2>. QED BY <2>3, <2>4, <2>5
<1>4. g = [r EXCEPT !.working = FALSE, !.head = FALSE, !.tail = FALSE, !.ctxs = n]
    BY <1>2 DEF Again
<1>5. /\ g \in Requests /\ g.type = r.type /\ ~g.working /\ ~g.head /\ ~g.tail
      /\ g.idx = r.idx /\ g.ctxs = n
    BY <1>3, <1>4 DEF Requests
<1>. QED BY <1>3, <1>5

LEMMA WorkerDoneOK ==
    ASSUME IInv, NEW s \in Slots, NEW state \in {"completed", "failed"}, WorkerDone(s, state)
    PROVE  IInv'
<1>. DEFINE k == conn[s].key
            r == req[k]
            told == Told(r)
<1>1. /\ s \in Busy /\ UNCHANGED <<limit, made, connected, up>>
      /\ loop' = TrySendMore /\ conn' = [conn EXCEPT ![s] = NoConn]
      /\ Answer(told, state)
    BY DEF WorkerDone, Finish
<1>2. /\ k \in Keys /\ r.working /\ k \notin Range(queue) /\ r \in Requests /\ r # NoReq
      /\ r.type # "none" /\ \A q \in Busy : conn[q].key = k => q = s
    BY <1>1, WorkedOn
<1>3. /\ TypeOK /\ QueuedOrWorking /\ KnownOK /\ CountsOK /\ TicketsOK /\ ContextsOK /\ WaitersOK
      /\ queue \in Seq(Keys) /\ IsInjective(queue) /\ req \in [Keys -> Requests]
      /\ conn \in [Slots -> [key : Keys \cup {NoKey}, shaken : BOOLEAN]]
    BY DEF IInv, TypeOK, QueuedOrWorking
<1>4. /\ ~Overrun(r) /\ r.idx <= Len(r.ctxs) /\ Contexts(tk, k, r)
      /\ r.idx \in Nat /\ Len(r.ctxs) \in Nat
    BY <1>2, <1>3, RequestFacts DEF Overrun, ContextsOK, Contexts
<1>m. PICK x \in Nat, m \in Nat : x = r.idx /\ m = Len(r.ctxs) /\ x <= m
    BY <1>4
<1>5. \A t \in told : t \in Tickets /\ Waiting(t) /\ tk[t].key = k
    BY <1>2, <1>4, ToldTickets
<1>6. /\ tk' \in [Tickets -> TicketSet]
      /\ \A t \in told : tk'[t].client = "none" /\ tk'[t].status = state
      /\ \A t \in Tickets \ told : tk'[t] = tk[t]
    <2>1. told \in SUBSET Tickets /\ tk' = Answered(told, state)
        BY <1>1, <1>5 DEF Answer
    <2>. HIDE DEF told
    <2>. QED BY <2>1, AnsweredTickets
<1>7. panic' = panic /\ refs' = Unref(told)
    <2>1. panic' = (panic \/ \E t \in told : ~Waiting(t)) /\ refs' = Unref(told)
        BY <1>1 DEF Answer
    <2>2. panic \in BOOLEAN
        BY <1>3 DEF TypeOK
    <2>. QED BY <1>5, <2>1, <2>2
\* Either the request is queued again or it is gone.
<1>8. PICK g : /\ req' = [req EXCEPT ![k] = g]
               /\ \/ /\ r.head \/ r.tail
                     /\ g = Again(r)
                     /\ queue' = IF r.head THEN <<k>> \o queue ELSE Append(queue, k)
                  \/ ~(r.head \/ r.tail) /\ g = NoReq /\ queue' = queue
    BY <1>1 DEF WorkerDone, Finish
<1>9. /\ g \in Requests /\ ~g.working /\ ~g.head /\ ~g.tail
      /\ Len(g.ctxs) <= m /\ g.idx <= x
      /\ g = NoReq \/ (g # NoReq /\ g.type = r.type /\ Len(g.ctxs) = m - x
                       /\ \A i \in 1..m - x : g.ctxs[i] = r.ctxs[x + i])
    <2>1. CASE g = Again(r)
        <3>1. /\ g \in Requests /\ g.type = r.type /\ ~g.working /\ ~g.head /\ ~g.tail
              /\ g.idx = r.idx /\ Len(g.ctxs) = Len(r.ctxs) - r.idx
              /\ \A i \in 1..Len(g.ctxs) : g.ctxs[i] = r.ctxs[r.idx + i]
            <4>1. PICK y : y = r
                OBVIOUS
            <4>2. y \in Requests /\ y.idx <= Len(y.ctxs) /\ g = Again(y)
                BY <1>2, <1>4, <2>1, <4>1
            <4>3. /\ g \in Requests /\ g.type = y.type /\ ~g.working /\ ~g.head /\ ~g.tail
                  /\ g.idx = y.idx /\ Len(g.ctxs) = Len(y.ctxs) - y.idx
                  /\ \A i \in 1..Len(g.ctxs) : g.ctxs[i] = y.ctxs[y.idx + i]
                BY <4>2, AgainRequest
            <4>. QED BY <4>1, <4>3
        <3>2. g # NoReq
            BY <1>2, <3>1, NoReqFacts
        <3>3. Len(g.ctxs) = m - x /\ g.idx = x /\ \A i \in 1..m - x : g.ctxs[i] = r.ctxs[x + i]
            BY <1>m, <3>1
        <3>. QED BY <3>1, <3>2, <3>3
    <2>2. CASE g = NoReq
        BY <2>2, NoReqFacts
    <2>. QED BY <1>8, <2>1, <2>2
<1>10. /\ queue' \in Seq(Keys) /\ IsInjective(queue')
       /\ Range(queue') = IF g = NoReq THEN Range(queue) ELSE Range(queue) \union {k}
    <2>1. CASE r.head \/ r.tail
        <3>1. g # NoReq
            BY <1>2, <1>4, <1>8, <2>1, AgainRequest, NoReqFacts
        <3>2. queue' = <<k>> \o queue \/ queue' = Append(queue, k)
            BY <1>8, <2>1
        <3>3. /\ queue' \in Seq(Keys) /\ IsInjective(queue')
              /\ Range(queue') = Range(queue) \union {k}
            <4>1. PICK y : y = k
                OBVIOUS
            <4>2. y \in Keys /\ y \notin Range(queue) /\ (queue' = <<y>> \o queue \/ queue' = Append(queue, y))
                BY <1>2, <3>2, <4>1
            <4>3. CASE queue' = <<y>> \o queue
                BY <1>3, <4>1, <4>2, <4>3, PrependSeq
            <4>4. CASE queue' = Append(queue, y)
                BY <1>3, <4>1, <4>2, <4>4, AppendSeq
            <4>. QED BY <4>2, <4>3, <4>4
        <3>. QED BY <3>1, <3>3
    <2>2. CASE ~(r.head \/ r.tail)
        BY <1>3, <1>8, <2>2
    <2>. QED BY <2>1, <2>2
<1>11. /\ req' \in [Keys -> Requests] /\ req'[k] = g
       /\ \A q \in Keys \ {k} : req'[q] = req[q]
    <2>. HIDE DEF k, r
    <2>. QED BY <1>2, <1>3, <1>8, <1>9
<1>12. /\ conn' \in [Slots -> [key : Keys \cup {NoKey}, shaken : BOOLEAN]]
       /\ conn'[s].key = NoKey /\ \A q \in Slots \ {s} : conn'[q] = conn[q]
    <2>1. NoConn \in [key : Keys \cup {NoKey}, shaken : BOOLEAN] /\ NoConn.key = NoKey
        BY DEF NoConn
    <2>. QED BY <1>1, <1>3, <2>1
<1>. HIDE DEF told
<1>13. /\ TicketsOK' /\ refs' \in [Clients -> 0..MaxRequests + 1]
       /\ \A c \in Clients : /\ refs'[c] <= made + 1
                             /\ HeldOnce(c)' + Cardinality(Holds(c)') <= refs'[c]
    <2>1. told \in SUBSET Tickets
        BY <1>5
    <2>2. refs' = [c \in Clients |-> Unref(told)[c] - (IF c \in {} THEN 1 ELSE 0)]
        BY <1>7, <2>1, UnrefNone
    <2>3. connected' = connected \ {} /\ {} \in SUBSET connected
        BY <1>1
    <2>4. \A t \in told : tk'[t].client = "none" /\ tk'[t].status # "waiting"
        BY <1>6
    <2>5. \A t \in Tickets \ told : /\ tk'[t].client = tk[t].client
                                     /\ tk'[t].status = tk[t].status
                                     /\ tk'[t].key = tk[t].key
        BY <1>6
    <2>. QED BY <1>6, <2>1, <2>2, <2>3, <2>4, <2>5, UnrefOK
<1>14. TypeOK'
    BY <1>1, <1>3, <1>6, <1>7, <1>10, <1>11, <1>12, <1>13, LoopValues DEF TypeOK, TicketSet
<1>15. QueuedOrWorking'
    <2>1. Busy' = Busy \ {s}
        BY <1>12 DEF Busy
    <2>2. Range(queue') = {q \in Keys : req'[q] # NoReq /\ ~req'[q].working}
        <3>1. Range(queue) = {q \in Keys : req[q] # NoReq /\ ~req[q].working}
            BY <1>3 DEF QueuedOrWorking, Exists
        <3>. HIDE DEF k, r
        <3>. QED BY <1>2, <1>9, <1>10, <1>11, <3>1
    <2>3. \A q \in Keys : req'[q].head \/ req'[q].tail => req'[q].working
        <3>. HIDE DEF k, r
        <3>. QED BY <1>3, <1>9, <1>11 DEF QueuedOrWorking
    <2>4. ASSUME NEW q \in Keys
          PROVE  req'[q].working <=> \E b \in Busy' : conn'[b].key = q
        <3>1. CASE q = k
            BY <1>2, <1>9, <1>11, <1>12, <2>1, <3>1 DEF Busy
        <3>2. CASE q # k
            <4>1. req[q].working <=> \E b \in Busy : conn[b].key = q
                BY <1>3 DEF QueuedOrWorking
            <4>2. \A b \in Busy' : b \in Busy /\ conn'[b].key = conn[b].key
                BY <1>12, <2>1 DEF Busy
            <4>3. \A b \in Busy : conn[b].key = q => b \in Busy'
                BY <2>1, <3>2
            <4>. QED BY <1>11, <3>2, <4>1, <4>2, <4>3
        <3>. QED BY <3>1, <3>2
    <2>5. \A a, b \in Busy' : a # b => User(conn'[a].key) # User(conn'[b].key)
        BY <1>3, <1>12, <2>1 DEF QueuedOrWorking, Busy
    <2>. QED BY <1>10, <2>2, <2>3, <2>4, <2>5 DEF QueuedOrWorking, Exists
<1>16. NeverStalled'
    BY <1>1, LoopValues DEF NeverStalled, Ready
<1>17. KnownOK'
    <2>. HIDE DEF k, r
    <2>. QED BY <1>2, <1>3, <1>9, <1>11 DEF KnownOK
<1>18. CountsOK'
    <2>1. \A q \in Keys : Len(req'[q].ctxs) <= made /\ req'[q].idx <= made
        <3>1. Len(r.ctxs) <= made /\ r.idx <= made /\ made \in Nat
            BY <1>2, <1>3, TypeFacts DEF CountsOK
        <3>2. Len(g.ctxs) \in Nat /\ g.idx \in Nat
            BY <1>9, RequestFacts
        <3>3. Len(g.ctxs) <= made /\ g.idx <= made
            BY <1>m, <1>9, <3>1, <3>2
        <3>. HIDE DEF k, r
        <3>. QED BY <1>3, <1>11, <3>3 DEF CountsOK
    <2>. QED BY <1>1, <1>13, <2>1 DEF CountsOK
<1>19. ContextsOK'
    <2>1. ASSUME NEW q \in Keys \ {k} PROVE Contexts(tk', q, req'[q])
        <3>1. Contexts(tk, q, req[q]) /\ req'[q] = req[q] /\ req[q] \in Requests
            BY <1>3, <1>11 DEF ContextsOK
        <3>2. \A i \in 1..Len(req[q].ctxs) : tk'[req[q].ctxs[i]] = tk[req[q].ctxs[i]]
            <4>1. ASSUME NEW i \in 1..Len(req[q].ctxs)
                  PROVE  req[q].ctxs[i] \in Tickets /\ tk[req[q].ctxs[i]].key = q
                BY <3>1, RequestFacts DEF Contexts, Context
            <4>. QED BY <1>5, <1>6, <4>1
        <3>. QED BY <3>1, <3>2, KeepContexts
    <2>2. Contexts(tk', k, g)
        <3>1. CASE g = NoReq
            BY <3>1, NoReqFacts
        <3>2. CASE g # NoReq
            <4>0. /\ Len(g.ctxs) = m - x /\ g.type = r.type /\ Contexts(tk, k, r)
                  /\ \A i \in 1..m - x : g.ctxs[i] = r.ctxs[x + i]
                BY <1>4, <1>9, <3>2
            <4>1. ASSUME NEW i \in 1..m - x
                  PROVE  /\ x + i \in 1..m /\ ~(x + i <= x) /\ g.ctxs[i] = r.ctxs[x + i]
                <5>1. x + i \in 1..m /\ ~(x + i <= x)
                    BY <1>m
                <5>. QED BY <4>0, <5>1
            <4>r. /\ DOMAIN r.ctxs = 1..m /\ IsInjective(r.ctxs)
                  /\ \A i \in 1..m : r.ctxs[i] \in Tickets /\ Context(tk, k, r, i)
                BY <1>2, <1>m, <4>0, RequestFacts DEF Contexts
            <4>2. ASSUME NEW i \in 1..m - x
                  PROVE  g.ctxs[i] \in Tickets /\ g.ctxs[i] \notin told
                <5>1. g.ctxs[i] \in Tickets
                    BY <4>1, <4>r
                <5>2. ASSUME g.ctxs[i] \in told PROVE FALSE
                    <6>1. PICK j \in 1..m : j <= x /\ g.ctxs[i] = r.ctxs[j]
                        <7>1. \E j \in 1..Len(r.ctxs) : j <= r.idx /\ g.ctxs[i] = r.ctxs[j]
                            BY <1>2, <1>4, <5>2, ToldTickets DEF told
                        <7>. QED BY <1>m, <7>1
                    <6>2. j = x + i
                        BY <4>1, <4>r, <6>1 DEF IsInjective
                    <6>. QED BY <4>1, <6>1, <6>2
                <5>. QED BY <5>1, <5>2
            <4>3. ASSUME NEW i \in 1..m - x PROVE Context(tk', k, g, i)
                <5>1. Context(tk, k, r, x + i) /\ ~Served(r, x + i)
                    BY <1>m, <4>1, <4>r DEF Served
                <5>2. tk'[g.ctxs[i]] = tk[r.ctxs[x + i]]
                    BY <1>6, <4>1, <4>2
                <5>. QED BY <1>9, <4>0, <5>1, <5>2 DEF Context, Served
            <4>4. IsInjective(g.ctxs)
                <5>1. ASSUME NEW i \in 1..m - x, NEW j \in 1..m - x, g.ctxs[i] = g.ctxs[j]
                      PROVE  i = j
                    <6>1. x + i = x + j
                        BY <4>1, <4>r, <5>1 DEF IsInjective
                    <6>. QED BY <6>1
                <5>2. DOMAIN g.ctxs = 1..m - x
                    BY <1>9, <4>0, RequestFacts
                <5>. QED BY <5>1, <5>2 DEF IsInjective
            <4>. QED BY <1>9, <4>0, <4>3, <4>4 DEF Contexts
        <3>. QED BY <3>1, <3>2
    <2>. HIDE DEF k
    <2>. QED BY <1>2, <1>11, <2>1, <2>2 DEF ContextsOK
<1>20. WaitersOK'
    <2>1. ASSUME up, NEW t \in Tickets, tk'[t].status = "waiting", ~tk'[t].hit
          PROVE  \E i \in 1..Len(req'[tk'[t].key].ctxs) : req'[tk'[t].key].ctxs[i] = t
        <3>1. t \notin told /\ tk'[t] = tk[t]
            BY <1>6, <2>1
        <3>2. PICK i \in 1..Len(req[tk[t].key].ctxs) : req[tk[t].key].ctxs[i] = t
            BY <1>3, <2>1, <3>1 DEF WaitersOK, Waiting
        <3>3. tk[t].key \in Keys
            BY <1>3, <2>1, <3>1 DEF TicketsOK, Waiting
        <3>4. CASE tk[t].key # k
            BY <1>11, <3>1, <3>2, <3>3, <3>4
        <3>5. CASE tk[t].key = k
            <4>1. i > x /\ i \in 1..m /\ r.ctxs[i] = t /\ Context(tk, k, r, i)
                <5>1. i \in 1..m /\ r.ctxs[i] = t
                    BY <1>m, <3>2, <3>5
                <5>2. ~(i \in 1..x)
                    BY <1>m, <3>1, <5>1 DEF told, Told
                <5>3. Context(tk, k, r, i)
                    BY <1>4, <1>m, <5>1 DEF Contexts
                <5>. QED BY <5>1, <5>2, <5>3
            <4>2. r.head \/ r.tail
                BY <1>2, <1>m, <2>1, <3>1, <4>1 DEF Context
            <4>3. g # NoReq
                BY <1>2, <1>4, <1>8, <4>2, AgainRequest, NoReqFacts
            <4>4. Len(g.ctxs) = m - x /\ \A j \in 1..m - x : g.ctxs[j] = r.ctxs[x + j]
                BY <1>9, <4>3
            <4>5. i - x \in 1..Len(g.ctxs) /\ i - x \in 1..m - x /\ x + (i - x) = i
                BY <4>1, <4>4
            <4>6. g.ctxs[i - x] = t
                BY <4>1, <4>4, <4>5
            <4>. QED BY <1>11, <3>1, <3>5, <4>5, <4>6
        <3>. QED BY <3>4, <3>5
    <2>. QED BY <1>1, <2>1 DEF WaitersOK, Waiting
<1>. QED BY <1>13, <1>14, <1>15, <1>16, <1>17, <1>18, <1>19, <1>20, Together DEF TicketPart

(* A connection is free when there is room for a worker. *)
LEMMA FreeSlot ==
    ASSUME IInv, RoomForWorker
    PROVE  \E s : s \in Slots \ Busy
<1>1. limit \in Int /\ limit <= MaxWorkers /\ MaxWorkers \in Nat \ {0}
    BY LimitsAssumption DEF IInv, TypeOK
<1>2. Cardinality(Busy) < MaxWorkers
    BY <1>1, BusyFinite DEF RoomForWorker
<1>3. Busy # Slots
    BY <1>2, BusyFinite
<1>4. Busy \subseteq Slots
    BY DEF Busy
<1>. QED BY <1>3, <1>4

LEMMA WorkRequest ==
    ASSUME NEW r \in Requests, Len(r.ctxs) <= MaxRequests, NEW g, g = Work(r)
    PROVE  /\ g \in Requests /\ g.type = r.type /\ g.working /\ g.head = r.head /\ g.tail = r.tail
           /\ g.idx = Len(r.ctxs) /\ g.ctxs = r.ctxs
<1>1. PICK n : n = Len(r.ctxs)
    OBVIOUS
<1>2. n \in 0..MaxRequests
    BY <1>1, RequestFacts, BoundsAssumption
<1>3. g = [r EXCEPT !.working = TRUE, !.idx = n]
    BY <1>1 DEF Work
<1>. QED BY <1>1, <1>2, <1>3 DEF Requests

LEMMA SendHeadOK ==
    ASSUME IInv, SendHead
    PROVE  IInv'
<1>1. /\ TypeOK /\ QueuedOrWorking /\ KnownOK /\ CountsOK /\ TicketsOK /\ ContextsOK /\ WaitersOK
      /\ queue \in Seq(Keys) /\ IsInjective(queue) /\ queue # <<>> /\ req \in [Keys -> Requests]
      /\ conn \in [Slots -> [key : Keys \cup {NoKey}, shaken : BOOLEAN]]
      /\ tk \in [Tickets -> TicketSet] /\ loop.on
      /\ UNCHANGED <<limit, loop, made, connected, refs, up, panic>>
    BY TypeFacts DEF IInv, TypeOK, QueuedOrWorking, SendHead
<1>2. PICK k : k = queue[1]
    OBVIOUS
<1>3. /\ queue' \in Seq(Keys) /\ Range(queue') = Range(queue) \ {k} /\ IsInjective(queue')
      /\ k \in Keys /\ k \in Range(queue)
    BY <1>1, <1>2, TailSeq DEF SendHead
<1>4. PICK s \in Slots \ Busy : conn' = [conn EXCEPT ![s] = [key |-> k, shaken |-> FALSE]]
    <2>1. PICK s : s = CHOOSE x \in Slots \ Busy : TRUE
        OBVIOUS
    <2>2. s \in Slots \ Busy
        <3>1. \E x : x \in Slots \ Busy
            BY FreeSlot DEF SendHead
        <3>. QED BY <2>1, <3>1
    <2>. QED BY <1>2, <2>1, <2>2 DEF SendHead
<1>5. PICK r : r = req[k]
    OBVIOUS
<1>6. /\ r \in Requests /\ r # NoReq /\ ~r.working /\ r.type \in Types /\ ~r.head /\ ~r.tail
      /\ Contexts(tk, k, r) /\ Len(r.ctxs) <= made
    <2>1. r \in Requests /\ r # NoReq /\ ~r.working /\ Contexts(tk, k, r) /\ Len(r.ctxs) <= made
          /\ ~r.head /\ ~r.tail
        BY <1>1, <1>3, <1>5 DEF QueuedOrWorking, Exists, ContextsOK, CountsOK
    <2>2. r.type # "none"
        BY <1>1, <1>3, <1>5, <2>1 DEF KnownOK
    <2>. QED BY <2>1, <2>2, RequestFacts
<1>7. PICK g : g = Work(r)
    OBVIOUS
<1>8. /\ g \in Requests /\ g.type = r.type /\ g.working /\ ~g.head /\ ~g.tail
      /\ g.idx = Len(r.ctxs) /\ g.ctxs = r.ctxs
    <2>1. made \in Nat /\ MaxRequests \in Nat /\ made <= MaxRequests /\ Len(r.ctxs) \in Nat
        BY <1>1, <1>6, TypeFacts, RequestFacts
    <2>2. Len(r.ctxs) <= MaxRequests
        BY <1>6, <2>1
    <2>. QED BY <1>6, <1>7, <2>2, WorkRequest
<1>9. /\ req' \in [Keys -> Requests] /\ req'[k] = g /\ \A q \in Keys \ {k} : req'[q] = req[q]
    <2>1. req' = [req EXCEPT ![k] = g]
        BY <1>1, <1>2, <1>3, <1>5, <1>7 DEF SendHead
    <2>. QED BY <1>1, <1>3, <1>8, <2>1
<1>10. /\ conn' \in [Slots -> [key : Keys \cup {NoKey}, shaken : BOOLEAN]]
       /\ conn'[s].key = k /\ \A q \in Slots \ {s} : conn'[q] = conn[q]
    BY <1>1, <1>3, <1>4
<1>11. /\ tk' \in [Tickets -> TicketSet]
       /\ \A t \in Tickets : /\ tk'[t].status = tk[t].status /\ tk'[t].client = tk[t].client
                             /\ tk'[t].key = tk[t].key /\ tk'[t].want = tk[t].want
                             /\ tk'[t].hit = tk[t].hit
                             /\ tk[t].key = k => tk'[t].run = r.type
                             /\ tk[t].key # k => tk'[t].run = tk[t].run
    <2>1. PICK y \in Types : y = r.type
        BY <1>6
    <2>2. tk' = [t \in Tickets |-> IF tk[t].key = k THEN [tk[t] EXCEPT !.run = y] ELSE tk[t]]
        BY <1>2, <1>5, <2>1 DEF SendHead
    <2>3. ASSUME NEW t \in Tickets, NEW u, u = [tk[t] EXCEPT !.run = y]
          PROVE  /\ u \in TicketSet /\ u.status = tk[t].status /\ u.client = tk[t].client
                 /\ u.key = tk[t].key /\ u.want = tk[t].want /\ u.hit = tk[t].hit /\ u.run = y
        BY <1>1, <2>3 DEF TicketSet
    <2>4. ASSUME NEW t \in Tickets
          PROVE  /\ tk'[t] \in TicketSet /\ tk'[t].status = tk[t].status
                 /\ tk'[t].client = tk[t].client
                 /\ tk'[t].key = tk[t].key /\ tk'[t].want = tk[t].want
                 /\ tk'[t].hit = tk[t].hit
                 /\ tk[t].key = k => tk'[t].run = y
                 /\ tk[t].key # k => tk'[t].run = tk[t].run
        <3>1. CASE tk[t].key = k
            BY <2>2, <2>3, <3>1
        <3>2. CASE tk[t].key # k
            BY <1>1, <2>2, <3>2
        <3>. QED BY <3>1, <3>2
    <2>5. tk' = [t \in Tickets |-> tk'[t]]
        BY <2>2
    <2>. QED BY <2>1, <2>4, <2>5
<1>12. TypeOK'
    BY <1>1, <1>3, <1>9, <1>10, <1>11 DEF TypeOK, TicketSet
<1>13. Busy' = Busy \union {s} /\ s \notin Busy /\ \A b \in Busy : conn'[b] = conn[b]
    BY <1>3, <1>4, <1>10, NoKeyAssumption DEF Busy
<1>14. QueuedOrWorking'
    <2>1. Range(queue') = {q \in Keys : req'[q] # NoReq /\ ~req'[q].working}
        <3>1. Range(queue) = {q \in Keys : req[q] # NoReq /\ ~req[q].working}
            BY <1>1 DEF QueuedOrWorking, Exists
        <3>. QED BY <1>3, <1>8, <1>9, <3>1
    <2>2. \A q \in Keys : req'[q].head \/ req'[q].tail => req'[q].working
        BY <1>1, <1>8, <1>9 DEF QueuedOrWorking
    <2>3. ASSUME NEW q \in Keys
          PROVE  req'[q].working <=> \E b \in Busy' : conn'[b].key = q
        <3>1. CASE q = k
            BY <1>8, <1>9, <1>10, <1>13, <3>1
        <3>2. CASE q # k
            <4>1. req[q].working <=> \E b \in Busy : conn[b].key = q
                BY <1>1 DEF QueuedOrWorking
            <4>. QED BY <1>9, <1>10, <1>13, <3>2, <4>1
        <3>. QED BY <3>1, <3>2
    <2>4. ASSUME NEW a \in Busy', NEW b \in Busy', a # b
          PROVE  User(conn'[a].key) # User(conn'[b].key)
        <3>1. \A c \in Busy : User(conn[c].key) # User(k)
            BY <1>2 DEF SendHead, HeadWaits
        <3>2. CASE a # s /\ b # s
            BY <1>1, <1>13, <2>4, <3>2 DEF QueuedOrWorking
        <3>3. CASE a = s \/ b = s
            BY <1>10, <1>13, <2>4, <3>1, <3>3
        <3>. QED BY <3>2, <3>3
    <2>. QED BY <1>3, <2>1, <2>2, <2>3, <2>4 DEF QueuedOrWorking, Exists
<1>15. NeverStalled'
    BY <1>1 DEF NeverStalled, Ready
<1>16. KnownOK'
    BY <1>1, <1>6, <1>8, <1>9 DEF KnownOK, Types
<1>17. CountsOK' /\ TicketsOK'
    <2>1. \A c \in Clients : Holds(c)' = Holds(c) /\ HeldOnce(c)' = HeldOnce(c)
        BY <1>1, <1>11 DEF Holds, HeldOnce
    <2>2. \A q \in Keys : Len(req'[q].ctxs) <= made /\ req'[q].idx <= made
        BY <1>1, <1>6, <1>8, <1>9 DEF CountsOK
    <2>3. CountsOK'
        BY <1>1, <2>1, <2>2 DEF CountsOK
    <2>4. TicketsOK'
        BY <1>1, <1>11 DEF TicketsOK, Waiting
    <2>. QED BY <2>3, <2>4
<1>18. ContextsOK'
    <2>1. ASSUME NEW q \in Keys \ {k} PROVE Contexts(tk', q, req'[q])
        <3>1. Contexts(tk, q, req[q]) /\ req'[q] = req[q] /\ req[q] \in Requests
            BY <1>1, <1>9 DEF ContextsOK
        <3>2. ASSUME NEW i \in 1..Len(req[q].ctxs)
              PROVE  LET t == tk[req[q].ctxs[i]]
                         u == tk'[req[q].ctxs[i]]
                     IN  /\ u.status = t.status /\ u.key = t.key /\ u.run = t.run
                         /\ u.want = t.want /\ (t.hit => u.hit)
            <4>1. req[q].ctxs[i] \in Tickets /\ tk[req[q].ctxs[i]].key = q
                BY <3>1, RequestFacts DEF Contexts, Context
            <4>. QED BY <1>11, <4>1
        <3>3. Contexts(tk', q, req[q])
            BY <3>1, <3>2, KeepContexts
        <3>. QED BY <3>1, <3>3
    <2>2. Contexts(tk', k, g)
        <3>1. ASSUME NEW i \in 1..Len(g.ctxs) PROVE Context(tk', k, g, i)
            <4>1. g.ctxs[i] = r.ctxs[i] /\ r.ctxs[i] \in Tickets /\ Context(tk, k, r, i)
                BY <1>6, <1>8, <3>1, RequestFacts DEF Contexts
            <4>2. Served(g, i) /\ ~(i > g.idx)
                BY <1>6, <1>8, <3>1, RequestFacts DEF Served
            <4>3. tk[r.ctxs[i]].key = k /\ tk[r.ctxs[i]].status = "waiting"
                  /\ r.type \in tk[r.ctxs[i]].want
                BY <1>6, <4>1 DEF Context, Served
            <4>. QED BY <1>11, <4>1, <4>2, <4>3 DEF Context
        <3>2. g.idx <= Len(g.ctxs)
            BY <1>6, <1>8, RequestFacts
        <3>. QED BY <1>6, <1>8, <3>1, <3>2 DEF Contexts
    <2>. QED BY <1>9, <2>1, <2>2 DEF ContextsOK
<1>19. WaitersOK'
    <2>1. \A q \in Keys : req'[q].ctxs = req[q].ctxs
        BY <1>5, <1>8, <1>9
    <2>2. ASSUME up, NEW t \in Tickets, tk'[t].status = "waiting", ~tk'[t].hit
          PROVE  \E i \in 1..Len(req'[tk'[t].key].ctxs) : req'[tk'[t].key].ctxs[i] = t
        <3>1. tk'[t].key = tk[t].key /\ tk[t].key \in Keys
            BY <1>1, <1>11, <2>2 DEF TicketsOK, Waiting
        <3>2. \E i \in 1..Len(req[tk[t].key].ctxs) : req[tk[t].key].ctxs[i] = t
            BY <1>1, <1>11, <2>2 DEF WaitersOK, Waiting
        <3>. QED BY <2>1, <3>1, <3>2
    <2>. QED BY <1>1, <2>2 DEF WaitersOK, Waiting
<1>. QED BY <1>12, <1>14, <1>15, <1>16, <1>17, <1>18, <1>19, Together DEF TicketPart

\* The contexts that a request brings.
AtMostOne == {<<>>} \cup {<<t>> : t \in Tickets}
Brings(q, new, n) ==
    /\ n \in Seq(Tickets) /\ Range(new) \in SUBSET Tickets
    /\ \A i \in 1..Len(q) : n[i] = q[i]
    /\ \/ Range(new) = {} /\ Len(new) = 0 /\ Len(n) = Len(q)
       \/ \E t \in Tickets : /\ Range(new) = {t} /\ Len(new) = 1 /\ Len(n) = Len(q) + 1
                             /\ n[Len(q) + 1] = t

(* The ticket that comes with a request, if one does, goes to the end. *)
LEMMA NewTicket ==
    ASSUME NEW new \in AtMostOne, NEW q \in Seq(Tickets),
           NEW n, n = q \o new
    PROVE  Brings(q, new, n)
<1>1. CASE new = <<>>
    <2>1. n = q
        BY <1>1
    <2>2. Range(new) = {} /\ Len(new) = 0
        BY <1>1 DEF Range
    <2>. QED BY <1>1, <2>1, <2>2 DEF Brings
<1>2. ASSUME NEW t \in Tickets, new = <<t>>
      PROVE  /\ n \in Seq(Tickets) /\ Range(new) = {t} /\ Len(new) = 1 /\ Len(n) = Len(q) + 1
             /\ n[Len(q) + 1] = t /\ \A i \in 1..Len(q) : n[i] = q[i]
    <2>1. Len(new) = 1 /\ new[1] = t /\ new \in Seq(Tickets) /\ DOMAIN new = 1..1
        BY <1>2
    <2>2. n \in Seq(Tickets) /\ Len(n) = Len(q) + 1 /\ n[Len(q) + 1] = t
        BY <1>2
    <2>3. \A i \in 1..Len(q) : n[i] = q[i]
        BY <1>2
    <2>4. Range(new) = {t}
        BY <2>1 DEF Range
    <2>. QED BY <2>1, <2>2, <2>3, <2>4
<1>. QED BY <1>1, <1>2 DEF AtMostOne, Brings

\* Request r after another one for the same mailbox has been merged into it.
MergedAs(r, append, type, n, g) ==
    /\ g \in Requests /\ g.type = type /\ g.working = r.working /\ g.idx = r.idx
    /\ g.ctxs = n
    /\ g.head <=> r.head \/ (r.working /\ ~append)
    /\ g.tail <=> r.tail \/ (r.working /\ append)

LEMMA MergedRequest ==
    ASSUME NEW r \in Requests, NEW append \in BOOLEAN, NEW type \in Types,
           NEW new \in AtMostOne,
           NEW n, n = r.ctxs \o new,
           NEW g, g = [Merged(r, append, new) EXCEPT !.type = type]
    PROVE  MergedAs(r, append, type, n, g)
<1>1. /\ r.ctxs \in Seq(Tickets) /\ r.working \in BOOLEAN /\ r.head \in BOOLEAN /\ r.tail \in BOOLEAN
    BY RequestFacts
<1>2. n \in Seq(Tickets)
    <2>1. PICK q \in Seq(Tickets) : q = r.ctxs
        BY <1>1
    <2>. QED BY <2>1, NewTicket DEF Brings
<1>3. PICK h, l : /\ h = (r.head \/ (r.working /\ ~append))
                  /\ l = (r.tail \/ (r.working /\ append))
    OBVIOUS
<1>4. h \in BOOLEAN /\ l \in BOOLEAN
    BY <1>1, <1>3
<1>5. PICK f : f = [r EXCEPT !.ctxs = n, !.head = h, !.tail = l]
    OBVIOUS
<1>6. g = [f EXCEPT !.type = type]
    BY <1>3, <1>5 DEF Merged
<1>7. /\ f \in Requests /\ f.working = r.working /\ f.idx = r.idx /\ f.ctxs = n
      /\ f.head = h /\ f.tail = l
    BY <1>2, <1>4, <1>5 DEF Requests
<1>8. /\ g \in Requests /\ g.type = type /\ g.working = f.working /\ g.idx = f.idx
      /\ g.ctxs = f.ctxs /\ g.head = f.head /\ g.tail = f.tail
    BY <1>6, <1>7 DEF Requests
<1>. QED BY <1>3, <1>7, <1>8 DEF MergedAs

(* Where indexer_queue_append_request() puts a request. *)
LEMMA PlaceOK ==
    ASSUME IInv, NEW k \in Keys, NEW append \in BOOLEAN, NEW q, q = Place(k, append)
    PROVE  /\ q \in Seq(Keys) /\ IsInjective(q)
           /\ Range(q) = IF req[k].working THEN Range(queue) ELSE Range(queue) \union {k}
<1>1. /\ queue \in Seq(Keys) /\ IsInjective(queue)
      /\ Range(queue) = {x \in Keys : Exists(x) /\ ~req[x].working}
    BY DEF IInv, TypeOK, QueuedOrWorking
<1>2. CASE Exists(k) /\ (append \/ req[k].working)
    BY <1>1, <1>2 DEF Place
<1>3. CASE Exists(k) /\ ~(append \/ req[k].working)
    <2>1. PICK w : w = Without(queue, {k})
        OBVIOUS
    <2>2. w \in Seq(Keys) /\ Range(w) = Range(queue) \ {k} /\ IsInjective(w)
        BY <1>1, <2>1, WithoutSeq
    <2>3. q = <<k>> \o w /\ k \notin Range(w)
        BY <1>3, <2>1, <2>2 DEF Place
    <2>4. q \in Seq(Keys) /\ IsInjective(q) /\ Range(q) = Range(w) \union {k}
        BY <2>2, <2>3, PrependSeq
    <2>. QED BY <1>1, <1>3, <2>2, <2>4
<1>4. CASE ~Exists(k)
    <2>1. k \notin Range(queue) /\ ~req[k].working
        BY <1>1, <1>4, NoReqFacts DEF Exists
    <2>2. q = Append(queue, k) \/ q = <<k>> \o queue
        BY <1>4 DEF Place
    <2>3. CASE q = Append(queue, k)
        BY <1>1, <2>1, <2>3, AppendSeq
    <2>4. CASE q = <<k>> \o queue
        BY <1>1, <2>1, <2>4, PrependSeq
    <2>. QED BY <2>2, <2>3, <2>4
<1>. QED BY <1>2, <1>3, <1>4

LEMMA RequestOK ==
    ASSUME IInv, NEW c \in Clients, NEW k \in Keys, NEW append \in BOOLEAN, NEW type \in Types,
           NEW new \in AtMostOne, Request(c, k, append, type, new)
    PROVE  IInv'
<1>1. /\ TypeOK /\ QueuedOrWorking /\ KnownOK /\ CountsOK /\ TicketsOK /\ ContextsOK /\ WaitersOK
      /\ req \in [Keys -> Requests] /\ tk \in [Tickets -> TicketSet]
      /\ made \in Nat /\ MaxRequests \in Nat /\ made < MaxRequests
      /\ refs \in [Clients -> Int] /\ \A d \in Clients : refs[d] >= 0
      /\ c \in connected /\ up /\ made' = made + 1 /\ loop' = TrySendMore
      /\ UNCHANGED <<conn, limit, connected, up, panic>>
    BY TypeFacts DEF IInv, TypeOK, Request, Ready
<1>2. PICK r, N : r = req[k] /\ N = Range(new)
    OBVIOUS
<1>3. /\ r \in Requests /\ Contexts(tk, k, r) /\ r.ctxs \in Seq(Tickets) /\ Len(r.ctxs) \in Nat
      /\ Len(r.ctxs) <= made /\ r.idx <= made /\ r.idx \in Nat /\ DOMAIN r.ctxs = 1..Len(r.ctxs)
      /\ \A i \in 1..Len(r.ctxs) : r.ctxs[i] \in Tickets
    BY <1>1, <1>2, RequestFacts DEF ContextsOK, CountsOK
<1>4. PICK q, m : q = r.ctxs /\ m = Len(r.ctxs)
    OBVIOUS
<1>n. PICK n : n = q \o new
    OBVIOUS
<1>5. /\ q \in Seq(Tickets) /\ m = Len(q) /\ m \in Nat /\ m <= made /\ DOMAIN q = 1..m
      /\ \A i \in 1..m : q[i] \in Tickets
    BY <1>3, <1>4
<1>6. /\ n \in Seq(Tickets) /\ N \in SUBSET Tickets /\ \A i \in 1..m : n[i] = q[i]
      /\ \/ N = {} /\ Len(new) = 0 /\ Len(n) = m
         \/ \E t \in Tickets : N = {t} /\ Len(new) = 1 /\ Len(n) = m + 1 /\ n[m + 1] = t
    <2>1. q \in Seq(Tickets)
        BY <1>5
    <2>2. Brings(q, new, n)
        BY <1>n, <2>1, NewTicket
    <2>. QED BY <1>2, <1>5, <2>2 DEF Brings
<1>7. PICK g : g = [Merged(r, append, new) EXCEPT !.type = type]
    OBVIOUS
<1>8. /\ g \in Requests /\ g.type = type /\ g.working = r.working /\ g.idx = r.idx /\ g.ctxs = n
      /\ g.head <=> r.head \/ (r.working /\ ~append)
      /\ g.tail <=> r.tail \/ (r.working /\ append)
    <2>1. n = r.ctxs \o new
        BY <1>4, <1>n
    <2>2. r \in Requests
        BY <1>3
    <2>3. MergedAs(r, append, type, n, g)
        BY <1>7, <2>1, <2>2, MergedRequest
    <2>. QED BY <2>3 DEF MergedAs
<1>9. /\ req' \in [Keys -> Requests] /\ req'[k] = g /\ \A x \in Keys \ {k} : req'[x] = req[x]
    <2>1. req' = [req EXCEPT ![k] = g]
        BY <1>1, <1>2, <1>7 DEF Request
    <2>. QED BY <1>1, <1>8, <2>1
<1>10. g # NoReq /\ g.type # "none"
    BY <1>8, NoReqFacts DEF Types
<1>11. /\ queue' \in Seq(Keys) /\ IsInjective(queue')
       /\ Range(queue') = IF r.working THEN Range(queue) ELSE Range(queue) \union {k}
    <2>1. PICK p : p = Place(k, append)
        OBVIOUS
    <2>2. queue' = p
        BY <2>1 DEF Request
    <2>. QED BY <1>2, <2>1, <2>2, PlaceOK
\* What becomes of the tickets.
<1>12. /\ tk' \in [Tickets -> TicketSet]
       /\ \A t \in N : /\ tk'[t].status = "waiting" /\ tk'[t].client = c /\ tk'[t].key = k
                       /\ tk'[t].run = "none" /\ type \in tk'[t].want
       /\ \A t \in Tickets \ N : /\ tk'[t].status = tk[t].status /\ tk'[t].client = tk[t].client
                                 /\ tk'[t].key = tk[t].key /\ tk'[t].run = tk[t].run
                                 /\ tk'[t].hit = tk[t].hit /\ tk[t].want \subseteq tk'[t].want
                                 /\ tk[t].key # k => tk'[t] = tk[t]
                                 /\ tk[t].key = k /\ tk[t].run = "none" => type \in tk'[t].want
    <2>1. PICK w \in SUBSET Types : w = {type}
        OBVIOUS
    <2>2. PICK a : a = [NoTicket EXCEPT !.status = "waiting", !.client = c, !.key = k, !.want = w]
        OBVIOUS
    <2>3. /\ a \in TicketSet /\ a.status = "waiting" /\ a.client = c /\ a.key = k
          /\ a.run = "none" /\ a.want = w
        BY <2>2 DEF TicketSet, NoTicket
    <2>4. tk' = [t \in Tickets |->
                    IF t \in N THEN a
                    ELSE IF tk[t].key = k /\ tk[t].run = "none"
                    THEN [tk[t] EXCEPT !.want = @ \cup {type}] ELSE tk[t]]
        BY <1>2, <2>1, <2>2 DEF Request
    <2>5. ASSUME NEW t \in Tickets, NEW u, u = [tk[t] EXCEPT !.want = @ \cup {type}]
          PROVE  /\ u \in TicketSet /\ u.status = tk[t].status /\ u.client = tk[t].client
                 /\ u.key = tk[t].key /\ u.run = tk[t].run /\ u.hit = tk[t].hit
                 /\ tk[t].want \subseteq u.want /\ type \in u.want
        <3>1. tk[t] \in TicketSet /\ tk[t].want \in SUBSET Types
            BY <1>1 DEF TicketSet
        <3>2. PICK v \in SUBSET Types : v = tk[t].want \union {type}
            BY <3>1
        <3>3. u = [tk[t] EXCEPT !.want = v]
            BY <2>5, <3>1, <3>2
        <3>4. u \in TicketSet /\ u.status = tk[t].status /\ u.client = tk[t].client
              /\ u.key = tk[t].key /\ u.run = tk[t].run /\ u.hit = tk[t].hit /\ u.want = v
            BY <3>1, <3>3 DEF TicketSet
        <3>. QED BY <3>2, <3>4
    <2>6. \A t \in N : tk'[t] = a
        BY <1>6, <2>4
    <2>7. ASSUME NEW t \in Tickets \ N
          PROVE  /\ tk'[t] \in TicketSet
                 /\ tk'[t].status = tk[t].status /\ tk'[t].client = tk[t].client
                 /\ tk'[t].key = tk[t].key /\ tk'[t].run = tk[t].run
                 /\ tk'[t].hit = tk[t].hit /\ tk[t].want \subseteq tk'[t].want
                 /\ tk[t].key # k => tk'[t] = tk[t]
                 /\ tk[t].key = k /\ tk[t].run = "none" => type \in tk'[t].want
        <3>1. CASE tk[t].key = k /\ tk[t].run = "none"
            BY <2>4, <2>5, <3>1
        <3>2. CASE ~(tk[t].key = k /\ tk[t].run = "none")
            BY <1>1, <2>4, <3>2
        <3>. QED BY <3>1, <3>2
    <2>8. tk' \in [Tickets -> TicketSet]
        <3>1. tk' = [t \in Tickets |-> tk'[t]]
            BY <2>4
        <3>2. \A t \in Tickets : tk'[t] \in TicketSet
            BY <2>3, <2>6, <2>7
        <3>. QED BY <3>1, <3>2
    <2>9. \A t \in N : /\ tk'[t].status = "waiting" /\ tk'[t].client = c /\ tk'[t].key = k
                       /\ tk'[t].run = "none" /\ type \in tk'[t].want
        BY <2>1, <2>3, <2>6
    <2>. QED BY <2>7, <2>8, <2>9
<1>13. \A t \in N : tk[t].status # "waiting" /\ tk[t].client \notin Clients
    BY <1>1, <1>2, <1>6 DEF Request, Waiting, TicketsOK
<1>14. TicketsOK'
    BY <1>1, <1>12 DEF TicketsOK, Waiting
\* What becomes of the reference counts.
<1>15. ASSUME NEW d \in Clients
       PROVE  /\ refs'[d] \in Int /\ refs'[d] >= 0 /\ refs'[d] <= made' + 1
              /\ HeldOnce(d)' + Cardinality(Holds(d)') <= refs'[d]
    <2>1. IsFiniteSet(Holds(d)) /\ Cardinality(Holds(d)) \in Nat
        <3>1. IsFiniteSet(Holds(d))
            BY BoundsAssumption, FS_Subset DEF Holds
        <3>. QED BY <3>1, FS_CardinalityType
    <2>2. /\ refs[d] \in Int /\ refs[d] >= 0 /\ refs[d] <= made + 1
          /\ HeldOnce(d) + Cardinality(Holds(d)) <= refs[d]
          /\ HeldOnce(d) \in {0, 1} /\ HeldOnce(d)' = HeldOnce(d)
        BY <1>1 DEF CountsOK, HeldOnce
    <2>3. refs' = [refs EXCEPT ![c] = refs[c] + Len(new)]
        BY <1>1 DEF Request
    <2>4. CASE d # c
        <3>1. refs'[d] = refs[d]
            BY <1>1, <2>3, <2>4
        <3>2. Holds(d)' = Holds(d)
            BY <1>6, <1>12, <1>13, <2>4 DEF Holds
        <3>. QED BY <1>1, <2>1, <2>2, <3>1, <3>2
    <2>5. CASE d = c /\ N = {} /\ Len(new) = 0
        <3>1. refs'[d] = refs[d]
            BY <1>1, <2>3, <2>5
        <3>2. Holds(d)' = Holds(d)
            BY <1>6, <1>12, <1>13, <2>5 DEF Holds
        <3>. QED BY <1>1, <2>1, <2>2, <3>1, <3>2
    <2>6. ASSUME d = c, NEW t \in Tickets, N = {t}, Len(new) = 1
          PROVE  /\ refs'[d] \in Int /\ refs'[d] >= 0 /\ refs'[d] <= made' + 1
                 /\ HeldOnce(d)' + Cardinality(Holds(d)') <= refs'[d]
        <3>1. refs'[d] = refs[d] + 1
            BY <1>1, <2>3, <2>6
        <3>2. Holds(d)' = Holds(d) \union {t} /\ t \notin Holds(d)
            BY <1>6, <1>12, <1>13, <2>6 DEF Holds
        <3>3. Cardinality(Holds(d)') = Cardinality(Holds(d)) + 1
            BY <2>1, <3>2, FS_AddElement
        <3>. QED BY <1>1, <2>1, <2>2, <3>1, <3>3
    <2>. QED BY <1>6, <2>4, <2>5, <2>6
<1>16. refs' \in [Clients -> 0..MaxRequests + 1] /\ made' \in 0..MaxRequests
    <2>1. made' \in 0..MaxRequests
        BY <1>1
    <2>2. \A d \in Clients : refs'[d] \in 0..MaxRequests + 1
        BY <1>1, <1>15
    <2>3. refs' = [d \in Clients |-> refs'[d]]
        BY <1>1 DEF Request
    <2>. QED BY <2>1, <2>2, <2>3
<1>17. TypeOK'
    BY <1>1, <1>9, <1>11, <1>12, <1>16, LoopValues DEF TypeOK, TicketSet
<1>18. QueuedOrWorking'
    <2>1. Range(queue') = {x \in Keys : req'[x] # NoReq /\ ~req'[x].working}
        <3>1. Range(queue) = {x \in Keys : req[x] # NoReq /\ ~req[x].working}
            BY <1>1 DEF QueuedOrWorking, Exists
        <3>. QED BY <1>2, <1>8, <1>9, <1>10, <1>11, <3>1
    <2>2. \A x \in Keys : req'[x].head \/ req'[x].tail => req'[x].working
        BY <1>1, <1>2, <1>8, <1>9 DEF QueuedOrWorking
    <2>3. Busy' = Busy
        BY <1>1 DEF Busy
    <2>4. \A x \in Keys : req'[x].working = req[x].working
        BY <1>2, <1>8, <1>9
    <2>. QED BY <1>1, <1>11, <2>1, <2>2, <2>3, <2>4 DEF QueuedOrWorking, Exists
<1>19. NeverStalled'
    BY <1>1, LoopValues DEF NeverStalled, Ready
<1>20. KnownOK'
    BY <1>1, <1>9, <1>10 DEF KnownOK
<1>21. CountsOK'
    <2>1. ASSUME NEW x \in Keys PROVE Len(req'[x].ctxs) <= made' /\ req'[x].idx <= made'
        <3>1. CASE x = k
            <4>1. Len(n) <= made + 1 /\ r.idx <= made + 1
                BY <1>1, <1>3, <1>5, <1>6
            <4>. QED BY <1>1, <1>8, <1>9, <3>1, <4>1
        <3>2. CASE x # k
            <4>1. /\ Len(req[x].ctxs) <= made /\ req[x].idx <= made
                  /\ Len(req[x].ctxs) \in Nat /\ req[x].idx \in Nat
                BY <1>1, RequestFacts DEF CountsOK
            <4>2. Len(req[x].ctxs) <= made + 1 /\ req[x].idx <= made + 1
                BY <1>1, <4>1
            <4>. QED BY <1>1, <1>9, <3>2, <4>2
        <3>. QED BY <3>1, <3>2
    <2>. QED BY <1>15, <2>1 DEF CountsOK
<1>22. ContextsOK'
    <2>1. ASSUME NEW x \in Keys \ {k} PROVE Contexts(tk', x, req'[x])
        <3>1. Contexts(tk, x, req[x]) /\ req'[x] = req[x] /\ req[x] \in Requests
            BY <1>1, <1>9 DEF ContextsOK
        <3>2. ASSUME NEW i \in 1..Len(req[x].ctxs)
              PROVE  LET t == tk[req[x].ctxs[i]]
                         u == tk'[req[x].ctxs[i]]
                     IN  /\ u.status = t.status /\ u.key = t.key /\ u.run = t.run
                         /\ u.want = t.want /\ (t.hit => u.hit)
            <4>1. /\ req[x].ctxs[i] \in Tickets /\ tk[req[x].ctxs[i]].key = x
                  /\ tk[req[x].ctxs[i]].status = "waiting"
                BY <3>1, RequestFacts DEF Contexts, Context
            <4>. QED BY <1>12, <1>13, <4>1
        <3>3. Contexts(tk', x, req[x])
            BY <3>1, <3>2, KeepContexts
        <3>. QED BY <3>1, <3>3
    <2>2. ASSUME NEW i \in 1..m
          PROVE  /\ q[i] \in Tickets \ N /\ Context(tk, k, r, i)
                 /\ tk[q[i]].status = "waiting" /\ tk[q[i]].key = k
        <3>1. Context(tk, k, r, i)
            BY <1>3, <1>4 DEF Contexts
        <3>2. tk[q[i]].status = "waiting" /\ tk[q[i]].key = k
            BY <1>4, <3>1 DEF Context
        <3>. QED BY <1>5, <1>13, <3>1, <3>2
    <2>3. IsInjective(n)
        <3>1. ASSUME NEW i \in 1..m, NEW j \in 1..m, n[i] = n[j] PROVE i = j
            BY <1>3, <1>4, <1>5, <1>6, <3>1 DEF Contexts, IsInjective
        <3>2. CASE Len(n) = m
            BY <1>6, <3>1, <3>2 DEF IsInjective
        <3>3. ASSUME NEW t \in Tickets, N = {t}, Len(n) = m + 1, n[m + 1] = t
              PROVE  IsInjective(n)
            <4>1. \A i \in 1..m : n[i] # n[m + 1]
                BY <1>6, <2>2, <3>3
            <4>2. ASSUME NEW i \in 1..m + 1, NEW j \in 1..m + 1, n[i] = n[j] PROVE i = j
                <5>1. CASE i \in 1..m /\ j \in 1..m
                    BY <3>1, <4>2, <5>1
                <5>2. CASE i = m + 1 \/ j = m + 1
                    BY <1>5, <4>1, <4>2, <5>2
                <5>. QED BY <1>5, <5>1, <5>2
            <4>3. DOMAIN n = 1..m + 1
                BY <1>6, <3>3
            <4>. QED BY <4>2, <4>3 DEF IsInjective
        <3>. QED BY <1>6, <3>2, <3>3
    <2>4. g.working => g.idx <= m
        BY <1>3, <1>4, <1>8 DEF Contexts
    <2>5. ASSUME NEW i \in 1..m PROVE Context(tk', k, g, i)
        <3>1. g.ctxs[i] = q[i] /\ q[i] = r.ctxs[i]
            BY <1>4, <1>6, <1>8
        <3>2. Served(g, i) <=> Served(r, i)
            BY <1>8 DEF Served
        <3>3. CASE Served(r, i)
            <4>1. tk[q[i]].run \in tk[q[i]].want /\ ~(i > r.idx)
                BY <1>3, <2>2, <3>1, <3>3 DEF Context, Served
            <4>. QED BY <1>8, <1>12, <2>2, <3>1, <3>2, <3>3, <4>1 DEF Context
        <3>4. CASE ~Served(r, i)
            <4>1. tk[q[i]].run = "none" /\ (r.working /\ i > r.idx => tk[q[i]].hit \/ r.head \/ r.tail)
                BY <2>2, <3>1, <3>4 DEF Context
            <4>. QED BY <1>8, <1>12, <2>2, <3>1, <3>2, <3>4, <4>1 DEF Context
        <3>. QED BY <3>3, <3>4
    <2>6. ASSUME NEW t \in Tickets, N = {t}, n[m + 1] = t PROVE Context(tk', k, g, m + 1)
        <3>1. ~Served(g, m + 1) /\ g.ctxs[m + 1] = t
            BY <1>3, <1>5, <1>8, <2>4, <2>6 DEF Served
        <3>2. g.working => g.head \/ g.tail
            BY <1>8
        <3>. QED BY <1>8, <1>12, <2>6, <3>1, <3>2 DEF Context
    <2>7. \A i \in 1..Len(n) : Context(tk', k, g, i)
        <3>1. CASE Len(n) = m
            BY <2>5, <3>1
        <3>2. ASSUME NEW t \in Tickets, N = {t}, Len(n) = m + 1, n[m + 1] = t
              PROVE  \A i \in 1..Len(n) : Context(tk', k, g, i)
            <4>1. \A i \in 1..Len(n) : i \in 1..m \/ i = m + 1
                BY <1>5, <3>2
            <4>. QED BY <2>5, <2>6, <3>2, <4>1
        <3>. QED BY <1>6, <3>1, <3>2
    <2>8. Contexts(tk', k, g)
        <3>1. g.working => g.idx <= Len(n)
            BY <1>3, <1>5, <1>6, <1>8, <2>4
        <3>. QED BY <1>8, <2>3, <2>7, <3>1 DEF Contexts
    <2>. QED BY <1>9, <2>1, <2>8 DEF ContextsOK
<1>23. WaitersOK'
    <2>1. ASSUME NEW t \in Tickets, tk'[t].status = "waiting", ~tk'[t].hit
          PROVE  \E i \in 1..Len(req'[tk'[t].key].ctxs) : req'[tk'[t].key].ctxs[i] = t
        <3>1. CASE t \in N
            <4>1. N = {t} /\ Len(n) = m + 1 /\ n[m + 1] = t
                BY <1>6, <3>1
            <4>2. m + 1 \in 1..Len(n)
                BY <1>5, <4>1
            <4>. QED BY <1>8, <1>9, <1>12, <3>1, <4>1, <4>2
        <3>2. CASE t \notin N
            <4>1. /\ tk'[t].key = tk[t].key /\ tk[t].key \in Keys
                  /\ \E i \in 1..Len(req[tk[t].key].ctxs) : req[tk[t].key].ctxs[i] = t
                BY <1>1, <1>12, <2>1, <3>2 DEF WaitersOK, TicketsOK, Waiting
            <4>2. CASE tk[t].key # k
                BY <1>9, <4>1, <4>2
            <4>3. CASE tk[t].key = k
                <5>1. PICK i \in 1..m : q[i] = t
                    BY <1>2, <1>4, <4>1, <4>3
                <5>2. i \in 1..Len(n) /\ n[i] = t
                    BY <1>5, <1>6, <5>1
                <5>. QED BY <1>8, <1>9, <4>1, <4>3, <5>2
            <4>. QED BY <4>2, <4>3
        <3>. QED BY <3>1, <3>2
    <2>. QED BY <2>1 DEF WaitersOK, Waiting
<1>. QED BY <1>14, <1>17, <1>18, <1>19, <1>20, <1>21, <1>22, <1>23, Together DEF TicketPart

(* An assertion fails before anything is changed. *)
LEMMA PanicOK ==
    ASSUME IInv, panic' = TRUE, up' \in BOOLEAN, up' => up,
           UNCHANGED <<queue, req, conn, limit, loop, tk, made, connected, refs>>
    PROVE  IInv'
<1>1. TypeOK'
    BY DEF IInv, TypeOK
<1>2. QueuedOrWorking'
    BY DEF IInv, QueuedOrWorking, Exists, Busy
<1>3. NeverStalled'
    BY DEF NeverStalled, Ready
<1>4. TicketPart'
    BY SameTickets
<1>. QED BY <1>1, <1>2, <1>3, <1>4, Together

(* The tickets that the requests for a set of mailboxes tell. *)
LEMMA ToldBySome ==
    ASSUME IInv, NEW S \in SUBSET Keys, \A k \in S : ~Overrun(req[k]),
           NEW told, told = UNION {Told(req[k]) : k \in S}
    PROVE  told \in SUBSET Tickets /\ \A t \in told : Waiting(t) /\ tk[t].key \in S
<1>1. ASSUME NEW t \in told PROVE t \in Tickets /\ Waiting(t) /\ tk[t].key \in S
    <2>1. PICK k \in S : t \in Told(req[k])
        OBVIOUS
    <2>. QED BY <2>1, ToldTickets
<1>. QED BY <1>1

LEMMA RemoveRequestsOK ==
    ASSUME IInv, NEW c \in Clients, NEW u, NEW mask, RemoveRequests(c, u, mask)
    PROVE  IInv'
<1>1. PICK named : named = Named(u, mask)
    OBVIOUS
<1>2. PICK gone : gone = {k \in named : ~req[k].working}
    OBVIOUS
<1>3. PICK told : told = UNION {Told(req[k]) : k \in gone}
    OBVIOUS
<1>4. /\ UNCHANGED <<conn, limit, loop, made, connected, up>> /\ up /\ ~panic /\ ~loop.on
      /\ named \in SUBSET Keys /\ gone \in SUBSET named /\ \A k \in named : req[k] # NoReq
      /\ \A k \in named : k \in gone <=> ~req[k].working
    BY <1>1, <1>2 DEF RemoveRequests, Ready, Named, Exists
<1>5. /\ TypeOK /\ QueuedOrWorking /\ KnownOK /\ CountsOK /\ TicketsOK /\ ContextsOK /\ WaitersOK
      /\ queue \in Seq(Keys) /\ IsInjective(queue) /\ req \in [Keys -> Requests]
      /\ tk \in [Tickets -> TicketSet] /\ made \in Nat
    BY TypeFacts DEF IInv, QueuedOrWorking
<1>6. CASE \E k \in gone : Overrun(req[k])
    <2>1. panic' = TRUE /\ UNCHANGED <<queue, req, tk, refs>>
        BY <1>1, <1>2, <1>6 DEF RemoveRequests, Cancel
    <2>2. up' \in BOOLEAN
        BY <1>4, <1>5 DEF TypeOK
    <2>. QED BY <1>4, <2>1, <2>2, PanicOK
<1>7. CASE ~\E k \in gone : Overrun(req[k])
    <2>1. /\ queue' = Without(queue, gone)
          /\ req' = [k \in Keys |->
                       CASE k \in gone -> NoReq
                         [] k \in named \ gone ->
                              [req[k] EXCEPT !.head = FALSE, !.tail = FALSE]
                         [] OTHER -> req[k]]
          /\ tk' = [t \in Tickets |->
                      IF t \in told \/ tk[t].key \notin named
                      THEN Answered(told, "failed")[t]
                      ELSE [tk[t] EXCEPT !.hit = TRUE]]
          /\ refs' = Unref(told)
          /\ panic' = (panic \/ \E t \in told : ~Waiting(t))
        BY <1>1, <1>2, <1>3, <1>7 DEF RemoveRequests, Cancel
    <2>2. told \in SUBSET Tickets /\ \A t \in told : Waiting(t) /\ tk[t].key \in gone
        <3>1. gone \in SUBSET Keys /\ \A k \in gone : ~Overrun(req[k])
            BY <1>4, <1>7
        <3>. QED BY <1>3, <3>1, ToldBySome
    <2>3. panic' = FALSE
        BY <1>4, <2>1, <2>2
    <2>4. queue' \in Seq(Keys) /\ Range(queue') = Range(queue) \ gone /\ IsInjective(queue')
        BY <1>5, <2>1, WithoutSeq
    <2>5. /\ req' \in [Keys -> Requests]
          /\ \A k \in gone : req'[k] = NoReq
          /\ \A k \in named \ gone :
                /\ req'[k].type = req[k].type /\ req'[k].working /\ ~req'[k].head
                /\ ~req'[k].tail /\ req'[k].idx = req[k].idx /\ req'[k].ctxs = req[k].ctxs
          /\ \A k \in Keys \ named : req'[k] = req[k]
        <3>1. ASSUME NEW k \in Keys, NEW g, g = [req[k] EXCEPT !.head = FALSE, !.tail = FALSE]
              PROVE  /\ g \in Requests /\ g.type = req[k].type /\ g.working = req[k].working
                     /\ ~g.head /\ ~g.tail /\ g.idx = req[k].idx /\ g.ctxs = req[k].ctxs
            <4>1. req[k] \in Requests
                BY <1>5
            <4>. QED BY <3>1, <4>1 DEF Requests
        <3>2. \A k \in gone : req'[k] = NoReq
            BY <1>4, <2>1
        <3>3. \A k \in named \ gone : req'[k] = [req[k] EXCEPT !.head = FALSE, !.tail = FALSE]
            BY <1>4, <2>1
        <3>4. \A k \in Keys \ named : req'[k] = req[k]
            BY <1>4, <2>1
        <3>5. \A k \in named \ gone :
                /\ req'[k] \in Requests
                /\ req'[k].type = req[k].type /\ req'[k].working /\ ~req'[k].head
                /\ ~req'[k].tail /\ req'[k].idx = req[k].idx /\ req'[k].ctxs = req[k].ctxs
            BY <1>4, <3>1, <3>3
        <3>6. \A k \in Keys : req'[k] \in Requests
            BY <1>4, <1>5, <3>2, <3>4, <3>5, NoReqFacts
        <3>7. req' = [k \in Keys |-> req'[k]]
            BY <2>1
        <3>. QED BY <3>2, <3>4, <3>5, <3>6, <3>7
    <2>6. /\ tk' \in [Tickets -> TicketSet]
          /\ \A t \in told : tk'[t].client = "none" /\ tk'[t].status = "failed"
          /\ \A t \in Tickets \ told :
                /\ tk'[t].client = tk[t].client /\ tk'[t].status = tk[t].status
                /\ tk'[t].key = tk[t].key /\ tk'[t].want = tk[t].want /\ tk'[t].run = tk[t].run
                /\ tk[t].key \in named => tk'[t].hit
                /\ tk[t].key \notin named => tk'[t] = tk[t]
        <3>1. PICK T : T = Answered(told, "failed")
            OBVIOUS
        <3>2. /\ T \in [Tickets -> TicketSet]
              /\ \A t \in told : T[t].client = "none" /\ T[t].status = "failed"
              /\ \A t \in Tickets \ told : T[t] = tk[t]
            <4>1. "failed" \in {"completed", "failed"}
                OBVIOUS
            <4>. QED BY <2>2, <3>1, <4>1, AnsweredTickets
        <3>3. tk' = [t \in Tickets |-> IF t \in told \/ tk[t].key \notin named THEN T[t]
                                       ELSE [tk[t] EXCEPT !.hit = TRUE]]
            BY <2>1, <3>1
        <3>4. ASSUME NEW t \in Tickets, NEW v, v = [tk[t] EXCEPT !.hit = TRUE]
              PROVE  /\ v \in TicketSet /\ v.client = tk[t].client /\ v.status = tk[t].status
                     /\ v.key = tk[t].key /\ v.want = tk[t].want /\ v.run = tk[t].run /\ v.hit
            BY <1>5, <3>4 DEF TicketSet
        <3>5. \A t \in told : tk'[t] = T[t]
            BY <2>2, <3>3
        <3>6. ASSUME NEW t \in Tickets \ told
              PROVE  /\ tk'[t] \in TicketSet
                     /\ tk'[t].client = tk[t].client /\ tk'[t].status = tk[t].status
                     /\ tk'[t].key = tk[t].key /\ tk'[t].want = tk[t].want
                     /\ tk'[t].run = tk[t].run
                     /\ tk[t].key \in named => tk'[t].hit
                     /\ tk[t].key \notin named => tk'[t] = tk[t]
            <4>1. CASE tk[t].key \in named
                BY <3>3, <3>4, <4>1
            <4>2. CASE tk[t].key \notin named
                BY <1>5, <3>2, <3>3, <4>2
            <4>. QED BY <4>1, <4>2
        <3>7. tk' \in [Tickets -> TicketSet]
            <4>1. \A t \in Tickets : tk'[t] \in TicketSet
                BY <2>2, <3>2, <3>5, <3>6
            <4>2. tk' = [t \in Tickets |-> tk'[t]]
                BY <3>3
            <4>. QED BY <4>1, <4>2
        <3>. QED BY <3>2, <3>5, <3>6, <3>7
    <2>7. /\ TicketsOK' /\ refs' \in [Clients -> 0..MaxRequests + 1]
          /\ \A d \in Clients : /\ refs'[d] <= made + 1
                                /\ HeldOnce(d)' + Cardinality(Holds(d)') <= refs'[d]
        <3>1. refs' = [d \in Clients |-> Unref(told)[d] - (IF d \in {} THEN 1 ELSE 0)]
            BY <2>1, <2>2, UnrefNone
        <3>2. connected' = connected \ {} /\ {} \in SUBSET connected
            BY <1>4
        <3>3. \A t \in told : tk'[t].client = "none" /\ tk'[t].status # "waiting"
            BY <2>6
        <3>4. \A t \in Tickets \ told : /\ tk'[t].client = tk[t].client
                                        /\ tk'[t].status = tk[t].status
                                        /\ tk'[t].key = tk[t].key
            BY <2>6
        <3>. QED BY <2>2, <2>6, <3>1, <3>2, <3>3, <3>4, UnrefOK
    <2>8. TypeOK'
        BY <1>4, <1>5, <2>3, <2>4, <2>5, <2>6, <2>7 DEF TypeOK, TicketSet
    <2>9. QueuedOrWorking'
        <3>1. Range(queue') = {k \in Keys : req'[k] # NoReq /\ ~req'[k].working}
            <4>1. Range(queue) = {k \in Keys : req[k] # NoReq /\ ~req[k].working}
                BY <1>5 DEF QueuedOrWorking, Exists
            <4>2. ASSUME NEW k \in Keys
                  PROVE  k \in Range(queue') <=> req'[k] # NoReq /\ ~req'[k].working
                <5>1. CASE k \in gone
                    BY <2>4, <2>5, <5>1
                <5>2. CASE k \in named \ gone
                    BY <1>4, <2>4, <2>5, <4>1, <5>2
                <5>3. CASE k \notin named
                    BY <1>4, <2>4, <2>5, <4>1, <5>3
                <5>. QED BY <5>1, <5>2, <5>3
            <4>3. Range(queue') \subseteq Keys
                BY <2>4, <4>1
            <4>. QED BY <4>2, <4>3
        <3>2. \A k \in Keys : req'[k].head \/ req'[k].tail => req'[k].working
            BY <1>4, <1>5, <2>5, NoReqFacts DEF QueuedOrWorking
        <3>3. Busy' = Busy
            BY <1>4 DEF Busy
        <3>4. \A k \in Keys : req'[k].working <=> req[k].working
            BY <1>4, <2>5, NoReqFacts
        <3>. QED BY <1>4, <1>5, <2>4, <3>1, <3>2, <3>3, <3>4 DEF QueuedOrWorking, Exists
    <2>10. NeverStalled'
        <3>1. ASSUME queue' # <<>> PROVE queue # <<>>
            <4>1. queue'[1] \in Range(queue')
                BY <2>4, <3>1, TailSeq
            <4>2. queue = <<>> => Range(queue) = {}
                BY DEF Range
            <4>. QED BY <2>4, <4>1, <4>2
        <3>. QED BY <1>4, <3>1 DEF IInv, NeverStalled, Ready, Busy
    <2>11. KnownOK'
        BY <1>4, <1>5, <2>5 DEF KnownOK
    <2>12. CountsOK'
        <3>1. \A k \in Keys : Len(req'[k].ctxs) <= made /\ req'[k].idx <= made
            BY <1>4, <1>5, <2>5, NoReqFacts DEF CountsOK
        <3>. QED BY <1>4, <2>7, <3>1 DEF CountsOK
    <2>13. ContextsOK'
        <3>1. ASSUME NEW k \in Keys PROVE Contexts(tk', k, req'[k])
            <4>1. Contexts(tk, k, req[k]) /\ req[k] \in Requests
                BY <1>5 DEF ContextsOK
            <4>2. ASSUME NEW i \in 1..Len(req[k].ctxs), k \notin gone
                  PROVE  /\ req[k].ctxs[i] \in Tickets \ told /\ Context(tk, k, req[k], i)
                         /\ tk[req[k].ctxs[i]].key = k
                <5>1. /\ req[k].ctxs[i] \in Tickets /\ Context(tk, k, req[k], i)
                      /\ tk[req[k].ctxs[i]].key = k
                    BY <4>1, RequestFacts DEF Contexts, Context
                <5>. QED BY <2>2, <4>2, <5>1
            <4>3. CASE k \in gone
                BY <2>5, <4>3, NoReqFacts
            <4>4. CASE k \in named \ gone
                <5>1. ASSUME NEW i \in 1..Len(req[k].ctxs) PROVE Context(tk', k, req'[k], i)
                    BY <1>4, <2>5, <2>6, <4>2, <4>4 DEF Context, Served
                <5>. QED BY <1>4, <2>5, <4>1, <4>4, <5>1 DEF Contexts
            <4>5. CASE k \notin named
                <5>1. req'[k] = req[k] /\ k \notin gone
                    BY <1>4, <2>5, <4>5
                <5>2. \A i \in 1..Len(req[k].ctxs) : tk'[req[k].ctxs[i]] = tk[req[k].ctxs[i]]
                    BY <2>6, <4>2, <4>5, <5>1
                <5>. QED BY <4>1, <5>1, <5>2, KeepContexts
            <4>. QED BY <4>3, <4>4, <4>5
        <3>. QED BY <3>1 DEF ContextsOK
    <2>14. WaitersOK'
        <3>1. ASSUME NEW t \in Tickets, tk'[t].status = "waiting", ~tk'[t].hit
              PROVE  \E i \in 1..Len(req'[tk'[t].key].ctxs) : req'[tk'[t].key].ctxs[i] = t
            <4>1. t \notin told
                BY <2>6, <3>1
            <4>2. tk'[t] = tk[t] /\ tk[t].key \notin named
                BY <2>6, <3>1, <4>1
            <4>3. tk[t].key \in Keys /\ req'[tk[t].key] = req[tk[t].key]
                BY <1>5, <2>5, <3>1, <4>2 DEF TicketsOK, Waiting
            <4>. QED BY <1>4, <1>5, <3>1, <4>2, <4>3 DEF WaitersOK, Waiting
        <3>. QED BY <3>1 DEF WaitersOK, Waiting
    <2>. QED BY <2>7, <2>8, <2>9, <2>10, <2>11, <2>12, <2>13, <2>14, Together DEF TicketPart
<1>. QED BY <1>6, <1>7

LEMMA ShutdownOK ==
    ASSUME IInv, Shutdown
    PROVE  IInv'
<1>1. PICK S : S = {k \in Keys : Exists(k)}
    OBVIOUS
<1>2. PICK told : told = UNION {Told(req[k]) : k \in S}
    OBVIOUS
<1>3. up' = FALSE /\ UNCHANGED <<limit, loop, made>>
    BY DEF Shutdown
<1>4. /\ TypeOK /\ QueuedOrWorking /\ ContextsOK /\ req \in [Keys -> Requests]
      /\ connected \subseteq Clients /\ made \in Nat
    BY TypeFacts DEF IInv
<1>5. CASE \E k \in Keys : ~req[k].working /\ Overrun(req[k])
    <2>1. panic' = TRUE /\ UNCHANGED <<queue, req, tk, refs, conn, connected>>
        BY <1>5 DEF Shutdown
    <2>. QED BY <1>3, <2>1, PanicOK
<1>6. CASE ~\E k \in Keys : ~req[k].working /\ Overrun(req[k])
    <2>1. /\ queue' = <<>>
          /\ req' = [k \in Keys |-> IF \/ k \in Range(queue)
                                       \/ \E s \in Busy : conn[s].key = k
                                    THEN NoReq ELSE req[k]]
          /\ tk' = Answered(told, "failed")
          /\ refs' = [c \in Clients |-> Unref(told)[c] - (IF c \in connected THEN 1 ELSE 0)]
          /\ conn' = [s \in Slots |-> NoConn]
          /\ connected' = {}
          /\ panic' = (panic \/ \E k \in Keys : req'[k] # NoReq)
        BY <1>1, <1>2, <1>6 DEF Shutdown
    <2>2. \A k \in Keys : ~Overrun(req[k])
        <3>1. ASSUME NEW k \in Keys, req[k].working PROVE ~Overrun(req[k])
            BY <1>4, <3>1, RequestFacts DEF ContextsOK, Contexts, Overrun
        <3>. QED BY <1>6, <3>1
    <2>3. told \in SUBSET Tickets
        <3>1. S \in SUBSET Keys
            BY <1>1
        <3>. QED BY <1>2, <2>2, <3>1, ToldBySome
    <2>4. /\ tk' \in [Tickets -> TicketSet]
          /\ \A t \in told : tk'[t].client = "none" /\ tk'[t].status = "failed"
          /\ \A t \in Tickets \ told : tk'[t] = tk[t]
        <3>1. "failed" \in {"completed", "failed"}
            OBVIOUS
        <3>. QED BY <2>1, <2>3, <3>1, AnsweredTickets
    <2>5. /\ TicketsOK' /\ refs' \in [Clients -> 0..MaxRequests + 1]
          /\ \A c \in Clients : /\ refs'[c] <= made + 1
                                /\ HeldOnce(c)' + Cardinality(Holds(c)') <= refs'[c]
        <3>1. connected' = connected \ connected /\ connected \in SUBSET connected
            BY <2>1
        <3>2. \A t \in told : tk'[t].client = "none" /\ tk'[t].status # "waiting"
            BY <2>4
        <3>3. \A t \in Tickets \ told : /\ tk'[t].client = tk[t].client
                                        /\ tk'[t].status = tk[t].status
                                        /\ tk'[t].key = tk[t].key
            BY <2>4
        <3>. QED BY <2>1, <2>3, <2>4, <3>1, <3>2, <3>3, UnrefOK
    <2>6. \A k \in Keys : req'[k] = NoReq
        BY <1>4, <2>1 DEF QueuedOrWorking, Exists
    <2>7. Busy' = {}
        BY <2>1 DEF Busy, NoConn
    <2>8. TypeOK'
        <3>1. queue' \in Seq(Keys)
            BY <2>1
        <3>2. req' \in [Keys -> Requests]
            <4>1. req' = [k \in Keys |-> req'[k]]
                BY <2>1
            <4>. QED BY <2>6, <4>1, NoReqFacts
        <3>3. conn' \in [Slots -> [key : Keys \cup {NoKey}, shaken : BOOLEAN]]
            BY <2>1 DEF NoConn
        <3>4. panic' \in BOOLEAN
            BY <1>4, <2>1 DEF TypeOK
        <3>. QED BY <1>3, <1>4, <2>1, <2>4, <2>5, <3>1, <3>2, <3>3, <3>4 DEF TypeOK, TicketSet
    <2>9. QueuedOrWorking'
        <3>1. Range(queue') = {} /\ IsInjective(queue')
            BY <2>1 DEF Range, IsInjective
        <3>2. {k \in Keys : req'[k] # NoReq /\ ~req'[k].working} = {}
            BY <2>6
        <3>3. \A k \in Keys : ~req'[k].working /\ ~req'[k].head /\ ~req'[k].tail
            BY <2>6, NoReqFacts
        <3>. QED BY <2>7, <3>1, <3>2, <3>3 DEF QueuedOrWorking, Exists
    <2>10. NeverStalled' /\ WaitersOK'
        BY <1>3 DEF NeverStalled, Ready, WaitersOK
    <2>11. KnownOK' /\ ContextsOK'
        BY <2>6, NoReqFacts DEF KnownOK, ContextsOK
    <2>12. CountsOK'
        BY <1>3, <1>4, <2>5, <2>6, NoReqFacts DEF CountsOK
    <2>. QED BY <2>5, <2>8, <2>9, <2>10, <2>11, <2>12, Together DEF TicketPart
<1>. QED BY <1>5, <1>6

LEMMA InitOK ==
    ASSUME Init
    PROVE  IInv
<1>1. \A k \in Keys : req[k] = NoReq
    BY DEF Init
<1>2. Busy = {}
    BY DEF Init, Busy, NoConn
<1>3. tk \in [Tickets -> TicketSet] /\ \A t \in Tickets : tk[t].status = "free" /\ tk[t].client = "none"
    <2>1. NoTicket \in TicketSet /\ NoTicket.status = "free" /\ NoTicket.client = "none"
        BY DEF NoTicket, TicketSet
    <2>. QED BY <2>1 DEF Init
<1>4. TypeOK
    <2>0. queue \in Seq(Keys)
        BY DEF Init
    <2>1. limit \in {0} \cup Limits /\ connected \subseteq Clients
        BY DEF Init
    <2>b. up \in BOOLEAN /\ panic \in BOOLEAN
        BY Zenon DEF Init
    <2>2. req \in [Keys -> Requests]
        BY NoReqFacts DEF Init
    <2>3. conn \in [Slots -> [key : Keys \cup {NoKey}, shaken : BOOLEAN]]
        BY DEF Init, NoConn
    <2>4. made \in 0..MaxRequests /\ refs \in [Clients -> 0..MaxRequests + 1]
        BY BoundsAssumption DEF Init
    <2>. QED BY <1>3, <2>0, <2>1, <2>b, <2>2, <2>3, <2>4, LoopValues DEF TypeOK, TicketSet, Init
<1>5. QueuedOrWorking
    <2>1. Range(queue) = {} /\ IsInjective(queue)
        BY DEF Range, IsInjective, Init
    <2>2. {k \in Keys : Exists(k) /\ ~req[k].working} = {}
        BY <1>1 DEF Exists
    <2>3. \A k \in Keys : ~req[k].working /\ ~req[k].head /\ ~req[k].tail
        BY <1>1, NoReqFacts
    <2>. QED BY <1>2, <2>1, <2>2, <2>3 DEF QueuedOrWorking
<1>6. NeverStalled
    BY DEF Init, NeverStalled
<1>7. KnownOK /\ ContextsOK
    BY <1>1, NoReqFacts DEF KnownOK, ContextsOK
<1>8. CountsOK
    <2>1. ASSUME NEW c \in Clients
          PROVE  refs[c] <= made + 1 /\ HeldOnce(c) + Cardinality(Holds(c)) <= refs[c]
        <3>1. Holds(c) = {}
            BY <1>3, ClientsAssumption DEF Holds
        <3>2. Cardinality(Holds(c)) = 0
            BY <3>1, FS_EmptySet
        <3>3. HeldOnce(c) = 1 /\ refs[c] = 1 /\ made = 0
            BY DEF HeldOnce, Init
        <3>. QED BY <3>2, <3>3
    <2>2. \A k \in Keys : Len(req[k].ctxs) <= made /\ req[k].idx <= made
        BY <1>1, NoReqFacts DEF Init
    <2>. QED BY <2>1, <2>2 DEF CountsOK
<1>9. TicketsOK /\ WaitersOK
    BY <1>3, ClientsAssumption DEF TicketsOK, WaitersOK, Waiting
<1>. QED BY <1>4, <1>5, <1>6, <1>7, <1>8, <1>9 DEF IInv

-----------------------------------------------------------------------------
(* The theorems.                                                           *)

LEMMA NextOK ==
    ASSUME IInv, [Next]_vars
    PROVE  IInv'
<1>1. CASE Next
    <2>1. ASSUME NEW c \in Clients, NEW k \in Keys, NEW append \in BOOLEAN, NEW type \in Types,
                 NEW new \in {<<>>} \cup {<<t>> : t \in Tickets},
                 Request(c, k, append, type, new)
          PROVE  IInv'
        <3>1. new \in AtMostOne
            BY DEF AtMostOne
        <3>. QED BY <2>1, <3>1, RequestOK
    <2>2. ASSUME NEW c \in Clients, NEW u, NEW mask, RemoveRequests(c, u, mask) PROVE IInv'
        BY <2>2, RemoveRequestsOK
    <2>3. ASSUME NEW c \in Clients, Disconnect(c) PROVE IInv'
        BY <2>3, DisconnectOK
    <2>4. CASE MoveHead
        BY <2>4, MoveHeadOK
    <2>5. CASE SendHead
        BY <2>5, SendHeadOK
    <2>6. CASE ConnectFails \/ LoopEnd
        BY <2>6, LoopOK
    <2>7. ASSUME NEW s \in Slots, NEW n \in Limits, Handshake(s, n) PROVE IInv'
        BY <2>7, HandshakeOK
    <2>8. ASSUME NEW s \in Slots, NEW state \in {"completed", "failed"}, WorkerDone(s, state)
          PROVE  IInv'
        BY <2>8, WorkerDoneOK
    <2>9. CASE Shutdown
        BY <2>9, ShutdownOK
    <2>. QED BY <1>1, <2>1, <2>2, <2>3, <2>4, <2>5, <2>6, <2>7, <2>8, <2>9 DEF Next
<1>2. CASE UNCHANGED vars
    <2>1. TypeOK' /\ NeverStalled'
        BY <1>2 DEF IInv, TypeOK, NeverStalled, Ready, Busy, vars
    <2>2. QueuedOrWorking'
        BY <1>2 DEF IInv, QueuedOrWorking, Exists, Busy, vars
    <2>3. TicketPart'
        BY <1>2, SameTickets DEF vars
    <2>. QED BY <2>1, <2>2, <2>3, Together
<1>. QED BY <1>1, <1>2

\* The inductive invariant holds in every reachable state.
THEOREM Invariance == Spec => []IInv
BY InitOK, NextOK, PTL DEF Spec

\* The state keeps its types: no client is unreferenced more often than it is
\* referenced, and working_context_idx stays within the number of requests.
THEOREM TypesHold == Spec => []TypeOK
<1>1. IInv => TypeOK
    BY DEF IInv
<1>. QED BY <1>1, Invariance, PTL

\* Every request is in the queue once or is worked on by exactly one connection,
\* and no user has two connections (indexer_queue_append_request(),
\* indexer_queue_request_finish(), queue_try_send_more()).
THEOREM RequestsQueuedOrWorking == Spec => []QueuedOrWorking
<1>1. IInv => QueuedOrWorking
    BY DEF IInv
<1>. QED BY <1>1, Invariance, PTL

\* Between two events requests wait only for workers: queue_try_send_more() is
\* called wherever a worker or a request may have made it possible to go on.
THEOREM NeverStalls == Spec => []NeverStalled
<1>1. IInv => NeverStalled
    BY DEF IInv
<1>. QED BY <1>1, Invariance, PTL

LEMMA WaitersKeptOK ==
    ASSUME IInv
    PROVE  WaitersKept
<1>1. SUFFICES ASSUME up, NEW t \in Tickets, Waiting(t)
               PROVE  /\ refs[tk[t].client] > 0
                      /\ tk[t].hit \/ Cardinality({i \in DOMAIN req[tk[t].key].ctxs :
                                                     req[tk[t].key].ctxs[i] = t}) = 1
    BY DEF WaitersKept
<1>2. tk[t].client \in Clients /\ tk[t].key \in Keys
    BY <1>1 DEF IInv, TicketsOK
<1>3. refs[tk[t].client] > 0
    <2>1. PICK c \in Clients : c = tk[t].client
        BY <1>2
    <2>2. t \in Holds(c) /\ IsFiniteSet(Holds(c))
        <3>1. t \in Holds(c)
            BY <2>1 DEF Holds
        <3>2. IsFiniteSet(Holds(c))
            BY BoundsAssumption, FS_Subset DEF Holds
        <3>. QED BY <3>1, <3>2
    <2>3. Cardinality(Holds(c)) \in Nat /\ Cardinality(Holds(c)) # 0
        BY <2>2, FS_CardinalityType, FS_EmptySet
    <2>4. /\ refs[c] \in Int /\ HeldOnce(c) \in {0, 1}
          /\ HeldOnce(c) + Cardinality(Holds(c)) <= refs[c]
        BY TypeFacts DEF IInv, CountsOK, HeldOnce
    <2>. QED BY <2>1, <2>3, <2>4
<1>4. ASSUME ~tk[t].hit
      PROVE  Cardinality({i \in DOMAIN req[tk[t].key].ctxs : req[tk[t].key].ctxs[i] = t}) = 1
    <2>1. PICK r : r = req[tk[t].key]
        OBVIOUS
    <2>2. r \in Requests /\ IsInjective(r.ctxs)
        BY <1>2, <2>1 DEF IInv, TypeOK, ContextsOK, Contexts
    <2>3. DOMAIN r.ctxs = 1..Len(r.ctxs)
        BY <2>2, RequestFacts
    <2>4. PICK i \in 1..Len(r.ctxs) : r.ctxs[i] = t
        BY <1>1, <1>4, <2>1 DEF IInv, WaitersOK
    <2>5. {j \in DOMAIN r.ctxs : r.ctxs[j] = t} = {i}
        BY <2>2, <2>3, <2>4 DEF IsInjective
    <2>6. Cardinality({i}) = 1
        BY FS_Singleton
    <2>. QED BY <2>1, <2>5, <2>6
<1>. QED BY <1>3, <1>4

\* A client that waits is not freed, and unless a REMOVE named its mailbox it is
\* among the contexts of the request exactly once, whatever is merged, moved,
\* reindexed or answered meanwhile.
THEOREM WaitersAlwaysKept == Spec => []WaitersKept
BY WaitersKeptOK, Invariance, PTL

LEMMA DoneStep ==
    ASSUME IInv, [Next]_vars, NEW t \in Tickets, Waiting(t), tk'[t].status = "completed"
    PROVE  tk[t].run \in tk[t].want
<1>1. tk \in [Tickets -> TicketSet] /\ tk[t].status = "waiting"
    BY TypeFacts DEF IInv, Waiting
<1>2. ASSUME NEW c \in Clients, NEW k \in Keys, NEW append \in BOOLEAN, NEW type \in Types,
             NEW new, Request(c, k, append, type, new)
      PROVE  FALSE
    <2>1. PICK a : a = [NoTicket EXCEPT !.status = "waiting", !.client = c, !.key = k,
                                        !.want = {type}]
        OBVIOUS
    <2>2. a.status = "waiting"
        BY <2>1 DEF NoTicket
    <2>3. PICK b : b = [tk[t] EXCEPT !.want = @ \cup {type}]
        OBVIOUS
    <2>4. b.status = tk[t].status
        BY <1>1, <2>3 DEF TicketSet
    <2>5. tk'[t] = a \/ tk'[t] = b \/ tk'[t] = tk[t]
        BY <1>2, <2>1, <2>3 DEF Request
    <2>. QED BY <1>1, <2>2, <2>4, <2>5
<1>3. ASSUME NEW told, NEW state, tk'[t] = Answered(told, state)[t] PROVE state = "completed" /\ t \in told
    <2>1. [NoTicket EXCEPT !.status = state].status = state
        BY DEF NoTicket
    <2>. QED BY <1>1, <1>3, <2>1 DEF Answered
<1>4. ASSUME NEW c \in Clients, NEW u, NEW mask, RemoveRequests(c, u, mask) PROVE FALSE
    <2>1. PICK b : b = [tk[t] EXCEPT !.hit = TRUE]
        OBVIOUS
    <2>2. b.status = tk[t].status
        BY <1>1, <2>1 DEF TicketSet
    <2>3. tk'[t] = tk[t] \/ tk'[t] = b \/ \E told : tk'[t] = Answered(told, "failed")[t]
        BY <1>4, <2>1 DEF RemoveRequests, Cancel
    <2>. QED BY <1>1, <1>3, <2>2, <2>3
<1>5. CASE SendHead
    <2>1. PICK b : b = [tk[t] EXCEPT !.run = req[queue[1]].type]
        OBVIOUS
    <2>2. b.status = tk[t].status
        BY <1>1, <2>1 DEF TicketSet
    <2>3. tk'[t] = tk[t] \/ tk'[t] = b
        BY <1>5, <2>1 DEF SendHead
    <2>. QED BY <1>1, <2>2, <2>3
<1>6. ASSUME NEW s \in Slots, NEW state \in {"completed", "failed"}, WorkerDone(s, state)
      PROVE  tk[t].run \in tk[t].want
    <2>1. PICK k, r : k = conn[s].key /\ r = req[k]
        OBVIOUS
    <2>2. k \in Keys /\ r.working /\ r \in Requests /\ Contexts(tk, k, r)
        BY <1>6, <2>1, WorkedOn DEF WorkerDone, IInv, ContextsOK
    <2>3. ~Overrun(r)
        BY <2>2, RequestFacts DEF Contexts, Overrun
    <2>4. t \in Told(r)
        BY <1>3, <1>6, <2>1 DEF WorkerDone, Finish, Answer
    <2>5. PICK i \in 1..Len(r.ctxs) : i <= r.idx /\ t = r.ctxs[i]
        <3>1. \E i \in 1..Len(req[k].ctxs) : i <= req[k].idx /\ t = req[k].ctxs[i]
            BY <2>1, <2>2, <2>3, <2>4, ToldTickets
        <3>. QED BY <2>1, <3>1
    <2>6. Context(tk, k, r, i) /\ Served(r, i)
        BY <2>2, <2>5 DEF Contexts, Served
    <2>. QED BY <2>5, <2>6 DEF Context
<1>7. CASE Shutdown
    <2>1. tk'[t] = tk[t] \/ \E told : tk'[t] = Answered(told, "failed")[t]
        BY <1>7 DEF Shutdown
    <2>. QED BY <1>1, <1>3, <2>1
<1>8. CASE tk' = tk
    BY <1>1, <1>8
<1>9. CASE Next
    <2>1. ASSUME NEW c \in Clients, Disconnect(c) PROVE tk' = tk
        BY <2>1 DEF Disconnect
    <2>2. ASSUME NEW s \in Slots, NEW n \in Limits, Handshake(s, n) PROVE tk' = tk
        BY <2>2 DEF Handshake
    <2>3. CASE MoveHead \/ ConnectFails \/ LoopEnd
        BY <1>8, <2>3 DEF MoveHead, ConnectFails, LoopEnd
    <2>. QED BY <1>2, <1>4, <1>5, <1>6, <1>7, <1>8, <1>9, <2>1, <2>2, <2>3 DEF Next
<1>10. CASE UNCHANGED vars
    BY <1>8, <1>10 DEF vars
<1>. QED BY <1>9, <1>10

\* Who is told that indexing is complete was served by a worker that was started
\* after its request and asked to do what was wanted: the first
\* working_context_idx contexts are those, and only those.
THEOREM OnlyDoneAsAsked == Spec => DoneAsAsked
<1>1. ASSUME IInv, [Next]_vars
      PROVE  [\A t \in Tickets :
                 Waiting(t) /\ tk'[t].status = "completed" => tk[t].run \in tk[t].want]_vars
    BY <1>1, DoneStep
<1>. QED BY <1>1, Invariance, PTL DEF Spec, DoneAsAsked
=============================================================================
