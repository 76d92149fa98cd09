-------------------------- MODULE CommitLog_proofs --------------------------
(***************************************************************************)
(* What follows from the promise of the log, for any processes and any     *)
(* transactions.                                                           *)
(***************************************************************************)
EXTENDS CommitLog, TLAPS

\* Types of the state.
TypeOK ==
    /\ log \in Seq(Txns)
    /\ view \in [Procs -> Seq(Txns)]

\* What a process has read is a beginning of the log.
Beginnings == \A p \in Procs : Extends(log, view[p])

IInv == TypeOK /\ Beginnings

(* The first k elements of a sequence are a beginning of it. *)
LEMMA FirstElements ==
    ASSUME NEW s \in Seq(Txns), NEW k \in 0 .. Len(s)
    PROVE  /\ SubSeq(s, 1, k) \in Seq(Txns)
           /\ Len(SubSeq(s, 1, k)) = k
           /\ Extends(s, SubSeq(s, 1, k))
<1>1. SubSeq(s, 1, k) \in Seq(Txns) /\ Len(SubSeq(s, 1, k)) = k
    OBVIOUS
<1>2. \A i \in 1 .. k : SubSeq(s, 1, k)[i] = s[i]
    OBVIOUS
<1>. QED BY <1>1, <1>2 DEF Extends

(* Appending keeps what was there. *)
LEMMA AppendedExtends ==
    ASSUME NEW s \in Seq(Txns), NEW t \in Txns
    PROVE  Append(s, t) \in Seq(Txns) /\ Extends(Append(s, t), s)
BY DEF Extends

(* A beginning of a beginning is one. *)
LEMMA ExtendsTransitive ==
    ASSUME NEW r \in Seq(Txns), NEW s \in Seq(Txns), NEW t \in Seq(Txns),
           Extends(s, r), Extends(t, s)
    PROVE  Extends(t, r)
BY DEF Extends

(* Of two beginnings of a sequence the longer one extends the other. *)
LEMMA BeginningsAgree ==
    ASSUME NEW r \in Seq(Txns), NEW s \in Seq(Txns), NEW t \in Seq(Txns),
           Extends(t, r), Extends(t, s)
    PROVE  Len(r) <= Len(s) => Extends(s, r)
BY DEF Extends

(* Initially the log and what everyone has read are empty. *)
LEMMA InitIInv == Init => IInv
BY DEF Init, IInv, TypeOK, Beginnings, Extends

(* Every step keeps what was read a beginning of the log. *)
LEMMA NextIInv == IInv /\ [Next]_vars => IInv'
<1>. SUFFICES ASSUME IInv, [Next]_vars PROVE IInv'
    OBVIOUS
<1>. USE DEF IInv, TypeOK, Beginnings
<1>1. ASSUME NEW p \in Procs, Commit(p) PROVE IInv'
    <2>1. PICK t \in Txns : log' = Append(log, t)
        BY <1>1 DEF Commit
    <2>2. log' \in Seq(Txns) /\ Extends(log', log)
        BY <2>1, AppendedExtends
    <2>3. \A q \in Procs : Extends(log', view[q])
        BY <2>2, ExtendsTransitive
    <2>. QED BY <1>1, <2>2, <2>3 DEF Commit
<1>2. ASSUME NEW p \in Procs, Read(p) PROVE IInv'
    <2>1. PICK k \in Len(view[p]) .. Len(log) :
              view' = [view EXCEPT ![p] = SubSeq(log, 1, k)]
        BY <1>2 DEF Read
    <2>2. k \in 0 .. Len(log)
        OBVIOUS
    <2>3. SubSeq(log, 1, k) \in Seq(Txns) /\ Extends(log, SubSeq(log, 1, k))
        BY <2>2, FirstElements
    <2>. QED BY <1>2, <2>1, <2>3 DEF Read
<1>3. ASSUME NEW p \in Procs, Close(p) PROVE IInv'
    <2>1. <<>> \in Seq(Txns) /\ Extends(log, <<>>)
        BY DEF Extends
    <2>. QED BY <1>3, <2>1 DEF Close
<1>4. ASSUME NEW p \in Procs, Open(p) PROVE IInv'
    BY <1>4 DEF Open
<1>5. CASE UNCHANGED vars
    BY <1>5 DEF vars
<1>. QED BY <1>1, <1>2, <1>3, <1>4, <1>5 DEF Next

(* Whatever commits, reads and closes happen, everyone has a beginning of  *)
(* the log: the inductive invariant.                                       *)
THEOREM Invariance == Spec => []IInv
BY InitIInv, NextIInv, PTL DEF Spec

(* However processes commit, read and close, the views of any two of them  *)
(* are states of the same past: whoever lags behind sees a state that the  *)
(* other one was in.                                                       *)
THEOREM ViewsAgree == Spec => []Agreement
<1>1. IInv => Agreement
    <2>. SUFFICES ASSUME IInv, NEW p \in Procs, NEW q \in Procs
                  PROVE  Extends(view[p], view[q]) \/ Extends(view[q], view[p])
        BY DEF Agreement
    <2>1. view[p] \in Seq(Txns) /\ view[q] \in Seq(Txns) /\ log \in Seq(Txns)
        BY DEF IInv, TypeOK
    <2>2. Extends(log, view[p]) /\ Extends(log, view[q])
        BY DEF IInv, Beginnings
    <2>3. Len(view[p]) <= Len(view[q]) \/ Len(view[q]) <= Len(view[p])
        BY <2>1
    <2>. QED BY <2>1, <2>2, <2>3, BeginningsAgree
<1>. QED BY <1>1, Invariance, PTL
=============================================================================
