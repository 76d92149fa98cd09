------------------------------ MODULE CommitLog ------------------------------
(***************************************************************************)
(* What the transaction log promises to those who use it, whatever files   *)
(* it is spread over: there is one sequence of transactions, it only       *)
(* grows, who adds to it has seen all of it, and what a process has read   *)
(* is a beginning of it that only grows, until the process closes the      *)
(* index.  TransactionLog implements it with files, locks and rotation.    *)
(***************************************************************************)
EXTENDS Integers, Sequences

CONSTANTS
    Procs,
    Txns        \* the transactions that may be committed

VARIABLES
    log,        \* the transactions committed
    open,       \* the processes that have the index open
    view        \* view[p]: what p has read

vars == <<log, open, view>>

Init ==
    /\ log = <<>>
    /\ open = {}
    /\ view = [p \in Procs |-> <<>>]

\* mail_index_open(); nothing is read yet.
Open(p) ==
    /\ p \notin open
    /\ open' = open \union {p}
    /\ UNCHANGED <<log, view>>

\* mail_transaction_log_append_commit(); p reads its own transaction later.
Commit(p) ==
    /\ p \in open
    /\ view[p] = log
    /\ \E t \in Txns : log' = Append(log, t)
    /\ UNCHANGED <<open, view>>

\* mail_index_map(): p gets to some later point, perhaps not the last.
Read(p) ==
    /\ p \in open
    /\ \E k \in Len(view[p]) .. Len(log) :
          view' = [view EXCEPT ![p] = SubSeq(log, 1, k)]
    /\ UNCHANGED <<log, open>>

\* mail_index_close(), or the death of p.
Close(p) ==
    /\ p \in open
    /\ open' = open \ {p}
    /\ view' = [view EXCEPT ![p] = <<>>]
    /\ UNCHANGED log

Next == \E p \in Procs : Open(p) \/ Commit(p) \/ Read(p) \/ Close(p)

Spec == Init /\ [][Next]_vars

-----------------------------------------------------------------------------
Extends(t, s) == Len(s) <= Len(t) /\ \A i \in 1 .. Len(s) : t[i] = s[i]

\* Any two processes agree on the past: one of them has read what the other
\* has, and perhaps more.
Agreement ==
    \A p, q \in Procs : Extends(view[p], view[q]) \/ Extends(view[q], view[p])
=============================================================================
