-------------------------- MODULE MCIndexerQueue ---------------------------
(* Instances of IndexerQueue: two mailboxes of one user, one of another.   *)
EXTENDS IndexerQueue, TLC

CONSTANTS u1, u2, m1, m2

MCKeys == {<<u1, m1>>, <<u1, m2>>, <<u2, m1>>}
=============================================================================
