---------------------------- MODULE IndexerQueue ----------------------------
(***************************************************************************)
(* The indexer process (src/src/indexer): clients ask it to index or to    *)
(* optimize mailboxes, it keeps one request per mailbox in a queue and     *)
(* hands them to indexer-worker processes, never two of one user at once.  *)
(* It is a single-threaded event loop, so every handler is one action,     *)
(* except that the loop of queue_try_send_more(), which ends most of them, *)
(* is taken step by step while no other handler can run (loop.on).         *)
(*                                                                         *)
(* A ticket is the "context" of a request with a nonzero tag, struct       *)
(* indexer_client_request: a client that waits for the final status.  Its  *)
(* key, want, run and hit are history: the mailbox, what has been asked    *)
(* for since, what the worker was told that serves it, and whether a       *)
(* REMOVE named it.                                                        *)
(*                                                                         *)
(* Left out: session ids, max_recent_msgs, the progress numbers of         *)
(* PROCESSING updates, LIST, malformed client input.                       *)
(***************************************************************************)
EXTENDS Integers, Sequences, FiniteSets, Functions

CONSTANTS
    Clients,        \* client connections
    Keys,           \* the mailboxes clients ask for: pairs <<user, mailbox>>
    NoKey,
    MaxWorkers,     \* connections to indexer-worker processes
    Limits,         \* process limits that a worker may report
    Tickets,        \* bound: clients that wait at the same time
    MaxRequests     \* bound: requests made by the clients

ASSUME NoKeyAssumption == NoKey \notin Keys
ASSUME LimitsAssumption ==
    MaxWorkers \in Nat \ {0} /\ Limits \subseteq 1..MaxWorkers
ASSUME ClientsAssumption == "none" \notin Clients
ASSUME BoundsAssumption == MaxRequests \in Nat /\ IsFiniteSet(Tickets)

VARIABLES
    queue,      \* queue->head ... queue->tail
    req,        \* queue->requests: the request of each mailbox
    conn,       \* worker_connections, the request each one works on
    limit,      \* worker_last_process_limit
    loop,       \* queue_try_send_more() in progress, first_moved_request
    tk,         \* the tickets
    made,       \* number of requests so far
    connected,  \* clients whose connection is open
    refs,       \* client->refcount
    up,         \* the process has not been told to stop
    panic       \* an assertion has failed

vars == <<queue, req, conn, limit, loop, tk, made, connected, refs, up, panic>>

User(k) == k[1]
Slots == 1..MaxWorkers
Types == {"index", "optimize"}
NoReq == [type |-> "none", working |-> FALSE, head |-> FALSE, tail |-> FALSE,
          idx |-> 0, ctxs |-> <<>>]
Exists(k) == req[k] # NoReq
NoConn == [key |-> NoKey, shaken |-> FALSE]
Busy == {s \in Slots : conn[s].key # NoKey}
NoTicket == [status |-> "free", client |-> "none", key |-> NoKey, want |-> {},
             run |-> "none", hit |-> FALSE]
Waiting(t) == tk[t].status = "waiting"
Idle == [on |-> FALSE, moved |-> NoKey]
TrySendMore == [on |-> TRUE, moved |-> NoKey]
Ready == up /\ ~panic /\ ~loop.on

Init ==
    /\ queue = <<>>
    /\ req = [k \in Keys |-> NoReq]
    /\ conn = [s \in Slots |-> NoConn]
    /\ limit = 0
    /\ loop = Idle
    /\ tk = [t \in Tickets |-> NoTicket]
    /\ made = 0
    /\ connected = Clients
    /\ refs = [c \in Clients |-> 1]
    /\ up = TRUE
    /\ panic = FALSE

-----------------------------------------------------------------------------
(* Answers.                                                                *)

\* The contexts that a status update of request r reaches, and whether it
\* reads past the end of the array (array_idx() then panics).
ToldAll(r) == Range(r.ctxs)
Told(r) == {r.ctxs[i] : i \in 1..r.idx}
Overrun(r) == r.idx > Len(r.ctxs)

\* indexer_client_status_callback() with a final state for each of a set of
\* tickets: the client is told if it is still there and loses a reference;
\* a ticket that was answered before has been freed.
Answered(told, state) ==
    [t \in Tickets |-> IF t \in told THEN [NoTicket EXCEPT !.status = state]
                       ELSE tk[t]]
UnrefOnceMore(told) ==
    [c \in Clients |-> refs[c] - 2 * Cardinality({t \in told : tk[t].client = c})]

Unref(told) ==
    [c \in Clients |-> refs[c] - Cardinality({t \in told : tk[t].client = c})]
Answer(told, state) ==
    /\ tk' = Answered(told, state)
    /\ refs' = Unref(told)
    /\ panic' = (panic \/ \E t \in told : ~Waiting(t))

-----------------------------------------------------------------------------
(* Requests of clients.                                                    *)

\* indexer_queue_append_request() for a mailbox that is being worked on, that
\* waits in the queue, and that is not known.
Merged(r, append, new) ==
    [r EXCEPT !.ctxs = @ \o new,
              !.head = @ \/ (r.working /\ ~append),
              !.tail = @ \/ (r.working /\ append)]

\* The queue after some requests are unlinked from it (DLLIST2_REMOVE()).
Without(q, gone) ==
    LET f[n \in 0..Len(q)] ==
            IF n = 0 THEN <<>>
            ELSE IF q[n] \in gone THEN f[n - 1] ELSE Append(f[n - 1], q[n])
    IN  f[Len(q)]

PlaceAgain(k, append) ==
    IF Exists(k) THEN
        IF append THEN queue ELSE <<k>> \o Without(queue, {k})
    ELSE IF append THEN Append(queue, k) ELSE <<k>> \o queue

Place(k, append) ==
    IF Exists(k) THEN
        IF append \/ req[k].working THEN queue
        ELSE <<k>> \o Without(queue, {k})
    ELSE IF append THEN Append(queue, k) ELSE <<k>> \o queue

\* indexer_client_request_queue(), indexer_client_request_optimize() (which
\* always appends).  With tag 0 there is no context.  The type of the request
\* becomes that of the last one asked for, even while it is worked on.
Request(c, k, append, type, new) ==
    /\ Ready
    /\ c \in connected
    /\ made < MaxRequests
    /\ type = "optimize" => append
    /\ Len(new) <= 1 /\ \A t \in Range(new) : ~Waiting(t)
    /\ tk' = [t \in Tickets |->
                IF t \in Range(new)
                THEN [NoTicket EXCEPT !.status = "waiting", !.client = c,
                                      !.key = k, !.want = {type}]
                ELSE IF tk[t].key = k /\ tk[t].run = "none"
                THEN [tk[t] EXCEPT !.want = @ \cup {type}] ELSE tk[t]]
    /\ refs' = [refs EXCEPT ![c] = @ + Len(new)]
    /\ req' = [req EXCEPT ![k] = [Merged(@, append, new) EXCEPT !.type = type]]
    /\ queue' = Place(k, append)
    /\ loop' = TrySendMore
    /\ made' = made + 1
    /\ UNCHANGED <<conn, limit, connected, up, panic>>

\* The requests of a user that a REMOVE names: all, or those whose mailbox
\* matches the mask.
Named(u, mask) == {k \in Keys : Exists(k) /\ User(k) = u /\ k[2] \in mask}

\* indexer_queue_cancel() and indexer_queue_request_cancel(): a request that is
\* worked on only loses its reindex flags, the others are finished as failed.
Cancel(named) ==
    LET gone == {k \in named : ~req[k].working}
        told == UNION {Told(req[k]) : k \in gone}
    IN IF \E k \in gone : Overrun(req[k])
       THEN panic' = TRUE /\ UNCHANGED <<queue, req, tk, refs>>
       ELSE /\ queue' = Without(queue, gone)
            /\ req' = [k \in Keys |->
                         CASE k \in gone -> NoReq
                           [] k \in named \ gone ->
                                [req[k] EXCEPT !.head = FALSE, !.tail = FALSE]
                           [] OTHER -> req[k]]
            /\ tk' = [t \in Tickets |->
                        IF t \in told \/ tk[t].key \notin named
                        THEN Answered(told, "failed")[t]
                        ELSE [tk[t] EXCEPT !.hit = TRUE]]
            /\ refs' = Unref(told)
            /\ panic' = (panic \/ \E t \in told : ~Waiting(t))

\* indexer_client_request_remove() for one user.  queue_try_send_more() is
\* not called.
RemoveRequests(c, u, mask) ==
    /\ Ready
    /\ c \in connected
    /\ Named(u, mask) # {}
    /\ Cancel(Named(u, mask))
    /\ UNCHANGED <<conn, limit, loop, made, connected, up>>

\* indexer_client_destroy()
Disconnect(c) ==
    /\ Ready
    /\ c \in connected
    /\ connected' = connected \ {c}
    /\ refs' = [refs EXCEPT ![c] = @ - 1]
    /\ UNCHANGED <<queue, req, conn, limit, loop, tk, made, up, panic>>

-----------------------------------------------------------------------------
(* queue_try_send_more(): the loop over the head of the queue.             *)

HeadWaits == \E s \in Busy : User(conn[s].key) = User(queue[1])
RoomForWorker == Cardinality(Busy) < (IF limit > 1 THEN limit ELSE 1)

MoveHeadAlways ==
    /\ loop.on /\ queue # <<>> /\ HeadWaits
    /\ queue' = Append(Tail(queue), queue[1])
    /\ UNCHANGED <<loop, req, conn, limit, tk, made, connected, refs, up, panic>>

MoveHead ==
    /\ loop.on /\ queue # <<>> /\ HeadWaits
    /\ loop.moved # queue[1]
    /\ queue' = Append(Tail(queue), queue[1])
    /\ loop' = [loop EXCEPT !.moved = IF @ = NoKey THEN queue[1] ELSE @]
    /\ UNCHANGED <<req, conn, limit, tk, made, connected, refs, up, panic>>

\* worker_send_request(): worker_connection_try_create() with a connection
\* that comes about, then indexer_queue_request_remove() and ..._work().
Work(r) == [r EXCEPT !.working = TRUE, !.idx = Len(r.ctxs)]

SendHead ==
    /\ loop.on /\ queue # <<>> /\ ~HeadWaits
    /\ RoomForWorker
    /\ LET k == queue[1]
           s == CHOOSE s \in Slots \ Busy : TRUE
       IN /\ queue' = Tail(queue)
          /\ req' = [req EXCEPT ![k] = Work(@)]
          /\ conn' = [conn EXCEPT ![s] = [key |-> k, shaken |-> FALSE]]
          /\ tk' = [t \in Tickets |->
                      IF tk[t].key = k THEN [tk[t] EXCEPT !.run = req[k].type]
                      ELSE tk[t]]
    /\ UNCHANGED <<limit, loop, made, connected, refs, up, panic>>

\* The same with a connect() that fails: worker_connection_destroy() calls
\* queue_try_send_more() again, and the outer loop ends after the inner one.
ConnectFails ==
    /\ loop.on /\ queue # <<>> /\ ~HeadWaits
    /\ RoomForWorker
    /\ loop.moved # NoKey
    /\ loop' = TrySendMore
    /\ UNCHANGED <<queue, req, conn, limit, tk, made, connected, refs, up, panic>>

\* The queue is empty, all users have been seen, or all workers are busy.
LoopEnd ==
    /\ loop.on
    /\ \/ queue = <<>>
       \/ queue # <<>> /\ HeadWaits /\ loop.moved = queue[1]
       \/ queue # <<>> /\ ~HeadWaits /\ ~RoomForWorker
    /\ loop' = Idle
    /\ UNCHANGED <<queue, req, conn, limit, tk, made, connected, refs, up, panic>>

-----------------------------------------------------------------------------
(* Workers.                                                                *)

\* worker_connection_handshake_args().  No handler looks at the queue here.
Handshake(s, n) ==
    /\ Ready
    /\ s \in Busy /\ ~conn[s].shaken
    /\ conn' = [conn EXCEPT ![s].shaken = TRUE]
    /\ limit' = n
    /\ UNCHANGED <<queue, req, loop, tk, made, connected, refs, up, panic>>

\* indexer_queue_request_finish() of a request that is worked on.
\* working_context_idx keeps its value when the request is queued again.
AgainAlone(r) ==
    [r EXCEPT !.working = FALSE, !.head = FALSE, !.tail = FALSE, !.ctxs = <<>>]

Again(r) ==
    [r EXCEPT !.working = FALSE, !.head = FALSE, !.tail = FALSE,
              !.ctxs = SubSeq(@, r.idx + 1, Len(@))]

Finish(k, state) ==
    LET r == req[k] IN
    /\ Answer(Told(r), state)
    /\ IF r.head \/ r.tail
       THEN /\ req' = [req EXCEPT ![k] = Again(r)]
            /\ queue' = IF r.head THEN <<k>> \o queue ELSE Append(queue, k)
       ELSE req' = [req EXCEPT ![k] = NoReq] /\ UNCHANGED queue

WorkerDoneQuietly(s, state) ==
    /\ Ready
    /\ s \in Busy
    /\ state = "completed" => conn[s].shaken
    /\ Finish(conn[s].key, state)
    /\ conn' = [conn EXCEPT ![s] = NoConn]
    /\ UNCHANGED <<limit, made, connected, up, loop>>

\* A worker reports the final state, or its connection is lost before that
\* (worker_connection_destroy(), INDEXER_STATE_FAILED).  Either way the
\* connection is closed and worker_avail_callback() goes through the queue.
WorkerDone(s, state) ==
    /\ Ready
    /\ s \in Busy
    /\ state = "completed" => conn[s].shaken
    /\ Finish(conn[s].key, state)
    /\ conn' = [conn EXCEPT ![s] = NoConn]
    /\ loop' = TrySendMore
    /\ UNCHANGED <<limit, made, connected, up>>

-----------------------------------------------------------------------------
\* The end of main(): indexer_queue_cancel_all(), indexer_clients_destroy_all(),
\* worker_connections_deinit(), whose connections fail their requests, and
\* the assertions of indexer_queue_deinit().
Shutdown ==
    /\ Ready
    /\ LET told == UNION {Told(req[k]) : k \in {k \in Keys : Exists(k)}}
       IN IF \E k \in Keys : ~req[k].working /\ Overrun(req[k])
          THEN panic' = TRUE /\ UNCHANGED <<queue, req, tk, refs, conn, connected>>
          ELSE /\ queue' = <<>>
               /\ req' = [k \in Keys |-> IF \/ k \in Range(queue)
                                            \/ \E s \in Busy : conn[s].key = k
                                         THEN NoReq ELSE req[k]]
               /\ tk' = Answered(told, "failed")
               /\ refs' = [c \in Clients |->
                             Unref(told)[c] - (IF c \in connected THEN 1 ELSE 0)]
               /\ conn' = [s \in Slots |-> NoConn]
               /\ connected' = {}
               /\ panic' = (panic \/ \E k \in Keys : req'[k] # NoReq)
    /\ up' = FALSE
    /\ UNCHANGED <<limit, loop, made>>

Next ==
    \/ \E c \in Clients, k \in Keys, append \in BOOLEAN, type \in Types,
          new \in {<<>>} \cup {<<t>> : t \in Tickets} :
             Request(c, k, append, type, new)
    \/ \E c \in Clients, u \in {User(k) : k \in Keys} :
          \E mask \in {{k[2]} : k \in Keys} \cup {{k[2] : k \in Keys}} :
             RemoveRequests(c, u, mask)
    \/ \E c \in Clients : Disconnect(c)
    \/ MoveHead
    \/ SendHead
    \/ ConnectFails
    \/ LoopEnd
    \/ \E s \in Slots, n \in Limits : Handshake(s, n)
    \/ \E s \in Slots, state \in {"completed", "failed"} : WorkerDone(s, state)
    \/ Shutdown

Spec == Init /\ [][Next]_vars

\* The event loop runs; a connect() that is tried again and again succeeds at
\* last; a worker answers or dies.
FairSpec ==
    /\ Spec
    /\ WF_vars(MoveHead) /\ WF_vars(SendHead) /\ WF_vars(LoopEnd)
    /\ \A s \in Slots : WF_vars(\E state \in {"completed", "failed"} :
                                   WorkerDone(s, state))

-----------------------------------------------------------------------------
(* Properties.                                                             *)

Requests == [type : Types \cup {"none"}, working : BOOLEAN, head : BOOLEAN,
             tail : BOOLEAN, idx : 0..MaxRequests, ctxs : Seq(Tickets)]

\* Types of the state; no reference count is negative, and working_context_idx
\* stays within the number of requests.
TypeOK ==
    /\ queue \in Seq(Keys)
    /\ req \in [Keys -> Requests]
    /\ conn \in [Slots -> [key : Keys \cup {NoKey}, shaken : BOOLEAN]]
    /\ limit \in {0} \cup Limits
    /\ loop \in [on : BOOLEAN, moved : Keys \cup {NoKey}]
    /\ tk \in [Tickets -> [status : {"free", "waiting", "completed", "failed"},
                            client : Clients \cup {"none"},
                            key : Keys \cup {NoKey}, want : SUBSET Types,
                            run : Types \cup {"none"}, hit : BOOLEAN]]
    /\ made \in 0..MaxRequests
    /\ connected \subseteq Clients
    /\ refs \in [Clients -> 0..MaxRequests + 1]
    /\ up \in BOOLEAN /\ panic \in BOOLEAN

\* Every request is either in the queue, once, or worked on by exactly one
\* connection, and no user has two connections: indexer_queue_cancel() and
\* ..._finish() link and unlink a request by what the working flag says.  Only
\* a request that is worked on may be marked for reindexing (asserted).
QueuedOrWorking ==
    /\ IsInjective(queue)
    /\ Range(queue) = {k \in Keys : Exists(k) /\ ~req[k].working}
    /\ \A k \in Keys : req[k].head \/ req[k].tail => req[k].working
    /\ \A k \in Keys : req[k].working <=> \E s \in Busy : conn[s].key = k
    /\ \A s, r \in Busy : s # r => User(conn[s].key) # User(conn[r].key)

\* A client that waits and was not hit by a REMOVE is in the contexts of the
\* request of its mailbox, once, and its client has not been freed:
\* reindexing keeps those who came while the mailbox was being indexed.
WaitersKept ==
    up => \A t \in Tickets :
        Waiting(t) =>
            /\ refs[tk[t].client] > 0
            /\ tk[t].hit \/ Cardinality({i \in DOMAIN req[tk[t].key].ctxs :
                                 req[tk[t].key].ctxs[i] = t}) = 1

\* Who is told that indexing is complete has been served by a worker that was
\* started after the request was made, and that was asked to do what this or
\* a later request for the mailbox wanted.
DoneAsAsked ==
    [][\A t \in Tickets :
          Waiting(t) /\ tk'[t].status = "completed" => tk[t].run \in tk[t].want]_vars

\* Between two events, requests wait only for workers: every way a worker can
\* end looks at the queue again.
NeverStalled == Ready /\ queue # <<>> => Busy # {}

\* No assertion fails: indexer_queue_request_status_int() stays within the
\* array of contexts (array_idx() asserts it), no context is answered twice
\* and nothing is left for indexer_queue_deinit().
NoPanic == ~panic

\* Once clients stop asking, everyone who waits gets a final status, unless a
\* REMOVE named the mailbox or the process stops.
EveryoneAnswered ==
    \A t \in Tickets : Waiting(t) ~> (~Waiting(t) \/ tk[t].hit \/ ~up \/ panic)

=============================================================================
