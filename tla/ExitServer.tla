----------------------------- MODULE ExitServer -----------------------------
(***************************************************************************)
(* The exit server (exit/server.py): the handlers of POST /tunnel and the  *)
(* upstream workers, which share the session pool.                         *)
(*                                                                         *)
(* A handler reads its batch and makes its first poll without suspending;  *)
(* then it sleeps between polls until some session has frames for a client *)
(* or its window is over.  An upstream worker is three tasks: one that     *)
(* dials and later supervises, a reader and a writer.  They interleave at  *)
(* the dial, at reader.read, at rx_event.wait and at writer.drain.         *)
(*                                                                         *)
(* No client sends RST or ACK frames, and a batch that does not decode     *)
(* changes nothing: both are left out.                                     *)
(***************************************************************************)
EXTENDS SessionPool

CONSTANTS
    Handler,          \* the requests that may be in progress at once
    MaxDrain,         \* frames a poll takes from a session (8)
    LongPollWindow,   \* fruitless polls before an empty reply (8 seconds)
    GcInterval,       \* polls before a handler collects idle sessions (30 s)
    MaxConcurrentUpstream,   \* 256
    DialOutcome,      \* what may become of a dial, a subset of DialOutcomes
    MaxWrites,   \* bound: data frames a client sends on a session
    MaxAccepted, \* bound: frames accepted for a session
    MaxConn,     \* bound: upstream workers of a session
    MaxReads     \* bound: chunks read from an upstream connection

(* "raised": an exception other than OSError and TimeoutError, such as the *)
(* TypeError of an argument create_connection does not know.               *)
DialOutcomes == {"connected", "refused", "raised"}

ASSUME ExitAssumption ==
    /\ MaxPayload > 0
    /\ MaxDrain \in Nat \ {0}
    /\ LongPollWindow \in Nat \ {0} /\ GcInterval \in Nat
    /\ MaxConcurrentUpstream \in Nat
    /\ DialOutcome \subseteq DialOutcomes
    /\ MaxWrites \in Nat /\ MaxAccepted \in Nat
    /\ MaxConn \in Nat /\ MaxReads \in Nat

VARIABLES
    pool,     \* the sessions in SessionPool._sessions
    sess,     \* the Session objects
    idle,     \* the sessions without activity for idleSessionTimeout
    polls,    \* per handler: its polls so far, or NoRequest
    conns,    \* how many upstream workers a session has been given
    task,     \* per upstream worker: its supervising task
    reader,   \* the reader's task, and writer, the writer's
    writer,
    rseq,     \* the reader's local variable seq
    accepted, \* history: frames the handlers have put into rx_q
    written,  \* history: frames a writer has taken from rx_q
    produced, \* history: frames put into tx_q for the client
    taken     \* history: frames the handlers have put into replies

poolVars == <<pool, sess, idle>>
connVars == <<conns, task, reader, writer, rseq>>
history  == <<accepted, written, produced, taken>>
vars     == <<poolVars, polls, connVars, history>>

NoRequest == -1

(* Upstream workers: a session has one for every SYN that was read for it. *)
Conn == Sid \X (1..MaxConn)
ConnsOf(s) == {u \in Conn : u[1] = s}
----------------------------------------------------------------------------
(* What a client sends on a session, with n data frames, and the parts of  *)
(* it a batch may hold: any segment, in any order, any number of times.    *)
ClientStream(s, n) ==
    [i \in 1..(n + 2) |-> IF i = 1 THEN Syn(s)
                          ELSE IF i = n + 2 THEN Fin(s)
                          ELSE Data(s, i - 2, 1)]
Parts(c) == {SubSeq(c, a, b) : a \in 1..Len(c), b \in 0..Len(c)}
Segments(s) == UNION {Parts(ClientStream(s, n)) : n \in 0..MaxWrites}
Batch == {b \in [Sid -> UNION {Segments(s) : s \in Sid}] :
             \A s \in Sid : b[s] \in Segments(s)}

HasSyn(g) == g # <<>> /\ g[1].flags = "SYN"
AfterSyn(g) == IF HasSyn(g) THEN Tail(g) ELSE g

(* A frame of a session that is not in the pool is dropped.                *)
Accepts(s, g) == s \in pool \/ HasSyn(g)
Accepted(s, g) == IF Accepts(s, g) THEN AfterSyn(g) ELSE <<>>

(* Mutation: a batch goes before the frames that wait.                     *)
EnqueuedFirst(s, g) ==
    [sess[s] EXCEPT !.rx_q = Accepted(s, g) \o @,
                    !.rx_event = @ \/ Accepted(s, g) # <<>>,
                    !.seq = IF HasSyn(g) THEN 1 ELSE @]

(* The session after the frame loop has read g.                            *)
Enqueued(s, g) ==
    [sess[s] EXCEPT !.rx_q = @ \o Accepted(s, g),
                    !.rx_event = @ \/ Accepted(s, g) # <<>>,
                    !.seq = IF HasSyn(g) THEN 1 ELSE @]

(* Setting rx_event wakes the writers that wait for it now.                *)
Woken(S) ==
    [u \in Conn |-> IF u[1] \in S /\ writer[u] = "wait" THEN "woken" ELSE writer[u]]

(* Nothing ever acquires _UpstreamSemaphore.                               *)
Locked == MaxConcurrentUpstream = 0

(* The sessions of a batch that get an upstream worker.                    *)
Dialled(b) == {s \in Sid : HasSyn(b[s]) /\ ~Locked}
Refused(b) == {s \in Sid : HasSyn(b[s]) /\ Locked}

(* Read a batch, poll once, and reply at once if there is something.       *)
Post(h, b) ==
    LET S  == {s \in Sid : Accepts(s, b[s])}
        tx == {s \in pool : sess[s].tx_q # <<>>}
    IN  /\ polls[h] = NoRequest
        /\ \E s \in Sid : b[s] # <<>>
        /\ \A s \in Sid : Len(accepted[s]) + Len(b[s]) <= MaxAccepted
        /\ \A s \in Dialled(b) : conns[s] < MaxConn
        \* the clients choose a new identifier for every session
        /\ \A s \in Dialled(b) : conns[s] = 0 \/ s \in pool
        /\ pool' = pool \cup S
        /\ idle' = idle \ {s \in S : Accepted(s, b[s]) # <<>>}
        /\ sess' = [s \in Sid |-> IF s \in tx THEN DrainTx(Enqueued(s, b[s]), MaxDrain)
                                              ELSE Enqueued(s, b[s])]
        /\ conns' = [s \in Sid |-> IF s \in Dialled(b) THEN conns[s] + 1 ELSE conns[s]]
        /\ task' = [u \in Conn |->
                      IF u[1] \in Dialled(b) /\ u[2] = conns[u[1]] + 1 THEN "dial"
                                                                       ELSE task[u]]
        /\ writer' = Woken({s \in S : Accepted(s, b[s]) # <<>>})
        /\ polls' = [polls EXCEPT ![h] = IF tx = {} /\ Refused(b) = {} THEN 0 ELSE @]
        /\ accepted' = [s \in Sid |-> accepted[s] \o Accepted(s, b[s])]
        /\ taken' = [s \in Sid |-> IF s \in tx THEN taken[s] \o Snapshot(sess[s], MaxDrain)
                                               ELSE taken[s]]
        /\ UNCHANGED <<reader, rseq, written, produced>>

(* The next poll finds frames for a client, any client, and replies.       *)
PollReply(h) ==
    LET tx == {s \in pool : sess[s].tx_q # <<>>}
    IN  /\ polls[h] # NoRequest
        /\ polls[h] < LongPollWindow
        /\ tx # {}
        /\ sess' = [s \in Sid |-> IF s \in tx THEN DrainTx(sess[s], MaxDrain) ELSE sess[s]]
        /\ taken' = [s \in Sid |-> IF s \in tx THEN taken[s] \o Snapshot(sess[s], MaxDrain)
                                               ELSE taken[s]]
        /\ polls' = [polls EXCEPT ![h] = NoRequest]
        /\ UNCHANGED <<pool, idle, connVars, accepted, written, produced>>

(* cleanup_expired.                                                        *)
Expired == {s \in pool : s \in idle /\ sess[s].tx_q = <<>>}
Purge(S) ==
    /\ pool' = pool \ S
    /\ sess' = [s \in Sid |-> IF s \in S
                              THEN [sess[s] EXCEPT !.tx_event = TRUE, !.rx_event = TRUE]
                              ELSE sess[s]]
    /\ writer' = Woken(S)

(* Mutation: one poll more than the window allows.                         *)
PollAgainLate(h) ==
    /\ polls[h] # NoRequest
    /\ polls[h] <= LongPollWindow
    /\ \A s \in pool : sess[s].tx_q = <<>>
    /\ polls' = [polls EXCEPT ![h] = @ + 1]
    /\ Purge(IF polls[h] >= GcInterval THEN Expired ELSE {})
    /\ UNCHANGED <<idle, conns, task, reader, rseq, history>>

(* It finds nothing, sleeps, and perhaps collects idle sessions.           *)
PollAgain(h) ==
    /\ polls[h] # NoRequest
    /\ polls[h] < LongPollWindow
    /\ \A s \in pool : sess[s].tx_q = <<>>
    /\ polls' = [polls EXCEPT ![h] = @ + 1]
    /\ Purge(IF polls[h] >= GcInterval THEN Expired ELSE {})
    /\ UNCHANGED <<idle, conns, task, reader, rseq, history>>

(* The window is over: an empty reply.                                     *)
PollTimeout(h) ==
    /\ polls[h] = LongPollWindow
    /\ polls' = [polls EXCEPT ![h] = NoRequest]
    /\ UNCHANGED <<poolVars, connVars, history>>

(* idleSessionTimeout seconds pass without a frame for s or from it.       *)
GoIdle(s) ==
    /\ s \in pool \ idle
    /\ idle' = idle \cup {s}
    /\ UNCHANGED <<pool, sess, polls, connVars, history>>
----------------------------------------------------------------------------
(* _upstream_worker.  Session.enqueue_tx on behalf of worker u.            *)
Produce(u, f) ==
    /\ sess' = [sess EXCEPT ![u[1]] = EnqueueTx(@, f)]
    /\ produced' = [produced EXCEPT ![u[1]] = Append(@, f)]
    /\ idle' = idle \ {u[1]}
    /\ UNCHANGED pool

DialConnected(u) ==
    /\ "connected" \in DialOutcome
    /\ task[u] = "dial"
    /\ task' = [task EXCEPT ![u] = "open"]
    /\ reader' = [reader EXCEPT ![u] = "read"]
    /\ writer' = [writer EXCEPT ![u] = "start"]
    /\ UNCHANGED <<poolVars, polls, conns, rseq, history>>

DialRefused(u) ==
    /\ "refused" \in DialOutcome
    /\ task[u] = "dial"
    /\ task' = [task EXCEPT ![u] = "refused"]
    /\ Produce(u, Rst(u[1], 1))
    /\ UNCHANGED <<polls, conns, reader, writer, rseq, accepted, written, taken>>

(* The task ends with an exception nobody looks at.                        *)
DialRaised(u) ==
    /\ "raised" \in DialOutcome
    /\ task[u] = "dial"
    /\ task' = [task EXCEPT ![u] = "raised"]
    /\ UNCHANGED <<poolVars, polls, conns, reader, writer, rseq, history>>

(* read_upstream gets a chunk; its end, at EOF or an OSError.              *)
ReadChunk(u) ==
    /\ reader[u] = "read"
    /\ rseq[u] < MaxReads
    /\ rseq' = [rseq EXCEPT ![u] = @ + 1]
    /\ Produce(u, Data(u[1], rseq[u], 1))
    /\ UNCHANGED <<polls, conns, task, reader, writer, accepted, written, taken>>

ReadEnd(u) ==
    /\ reader[u] = "read"
    /\ reader' = [reader EXCEPT ![u] = "done"]
    /\ Produce(u, Fin(u[1]))
    /\ UNCHANGED <<polls, conns, task, writer, rseq, accepted, written, taken>>

(* write_downstream.  The writer runs from one await to the next: it waits *)
(* for rx_event unless that is set, clears it and pops a frame; a FIN ends *)
(* it, and behind a data frame it awaits drain, then pops on.              *)

(* Mutation: it pops one frame each time the event is set.                 *)
PopOne(u) ==
    LET s == u[1]
        f == Head(sess[s].rx_q)
    IN  /\ written' = [written EXCEPT ![u] = Append(@, f)]
        /\ sess' = [sess EXCEPT ![s].rx_q = Tail(@), ![s].rx_event = FALSE]
        /\ writer' = [writer EXCEPT ![u] = IF f.flags = "FIN" THEN "done" ELSE "start"]

(* Mutation: a FIN does not end the writer.                                *)
PopIgnoringFin(u) ==
    LET s == u[1]
        f == Head(sess[s].rx_q)
    IN  /\ written' = [written EXCEPT ![u] = Append(@, f)]
        /\ sess' = [sess EXCEPT ![s].rx_q = Tail(@),
                                ![s].rx_event = IF writer[u] = "drain" THEN @ ELSE FALSE]
        /\ writer' = [writer EXCEPT ![u] = "drain"]

Pop(u) ==
    LET s == u[1]
        f == Head(sess[s].rx_q)
    IN  /\ written' = [written EXCEPT ![u] = Append(@, f)]
        /\ sess' = [sess EXCEPT ![s].rx_q = Tail(@),
                                ![s].rx_event = IF writer[u] = "drain" THEN @ ELSE FALSE]
        /\ writer' = [writer EXCEPT ![u] = IF f.flags = "FIN" THEN "done" ELSE "drain"]

(* The writer has frames to look for.                                      *)
Runnable(u) ==
    \/ writer[u] \in {"woken", "drain"}
    \/ writer[u] = "start" /\ sess[u[1]].rx_event

Write(u) ==
    /\ Runnable(u)
    /\ sess[u[1]].rx_q # <<>>
    /\ Pop(u)
    /\ UNCHANGED <<pool, idle, polls, conns, task, reader, rseq,
                   accepted, produced, taken>>

(* Nothing (more) to write: clear an event that is set and wait.           *)
Await(u) ==
    /\ \/ writer[u] = "start" /\ ~sess[u[1]].rx_event
       \/ Runnable(u) /\ sess[u[1]].rx_q = <<>>
    /\ writer' = [writer EXCEPT ![u] = "wait"]
    /\ sess' = [sess EXCEPT ![u[1]].rx_event = FALSE]
    /\ UNCHANGED <<pool, idle, polls, conns, task, reader, rseq, history>>

(* drain raises: the connection is broken.                                 *)
WriteError(u) ==
    /\ writer[u] = "drain"
    /\ writer' = [writer EXCEPT ![u] = "done"]
    /\ UNCHANGED <<poolVars, polls, conns, task, reader, rseq, history>>

(* Mutation: the supervisor sends a FIN of its own.                        *)
SuperviseWithFin(u) ==
    /\ task[u] = "open"
    /\ reader[u] = "done" \/ writer[u] = "done"
    /\ task' = [task EXCEPT ![u] = "closed"]
    /\ reader' = [reader EXCEPT ![u] = "done"]
    /\ writer' = [writer EXCEPT ![u] = "done"]
    /\ Produce(u, Fin(u[1]))
    /\ UNCHANGED <<polls, conns, rseq, accepted, written, taken>>

(* The reader or the writer is done: cancel the other, whose finally runs, *)
(* and close.  A cancelled reader still sends its FIN.                     *)
Supervise(u) ==
    /\ task[u] = "open"
    /\ reader[u] = "done" \/ writer[u] = "done"
    /\ task' = [task EXCEPT ![u] = "closed"]
    /\ reader' = [reader EXCEPT ![u] = "done"]
    /\ writer' = [writer EXCEPT ![u] = "done"]
    /\ IF reader[u] = "read" THEN Produce(u, Fin(u[1]))
                             ELSE UNCHANGED <<poolVars, produced>>
    /\ UNCHANGED <<polls, conns, rseq, accepted, written, taken>>
----------------------------------------------------------------------------
Init ==
    /\ pool = {} /\ idle = {}
    /\ sess = [s \in Sid |-> NewSession]
    /\ polls = [h \in Handler |-> NoRequest]
    /\ conns = [s \in Sid |-> 0]
    /\ task = [u \in Conn |-> "none"]
    /\ reader = [u \in Conn |-> "none"]
    /\ writer = [u \in Conn |-> "none"]
    /\ rseq = [u \in Conn |-> 0]
    /\ accepted = [s \in Sid |-> <<>>]
    /\ written = [u \in Conn |-> <<>>]
    /\ produced = [s \in Sid |-> <<>>]
    /\ taken = [s \in Sid |-> <<>>]

Poll(h) == PollReply(h) \/ PollAgain(h) \/ PollTimeout(h)
Dial(u) == DialConnected(u) \/ DialRefused(u) \/ DialRaised(u)
Read(u) == ReadChunk(u) \/ ReadEnd(u)
Writer(u) == Write(u) \/ Await(u) \/ WriteError(u)

Next ==
    \/ \E h \in Handler : Poll(h) \/ \E b \in Batch : Post(h, b)
    \/ \E u \in Conn : Dial(u) \/ Read(u) \/ Writer(u) \/ Supervise(u)
    \/ \E s \in Sid : GoIdle(s)

(* The event loop runs every ready task, sleeps end, and so do dials; an   *)
(* upstream host reads what it is sent or its connection breaks.  Clients  *)
(* need not post and upstream hosts need not answer.                       *)
Fairness ==
    /\ \A h \in Handler : WF_vars(Poll(h))
    /\ \A u \in Conn :
          WF_vars(Dial(u)) /\ WF_vars(Writer(u)) /\ WF_vars(Supervise(u))

Spec == Init /\ [][Next]_vars
FairSpec == Spec /\ Fairness
----------------------------------------------------------------------------
(***************************************************************************)
(* Properties.                                                             *)
(***************************************************************************)
TypeOK ==
    /\ pool \subseteq Sid /\ idle \subseteq Sid
    /\ sess \in [Sid -> Session]
    /\ polls \in [Handler -> {NoRequest} \cup 0..LongPollWindow]
    /\ conns \in [Sid -> 0..MaxConn]
    /\ task \in [Conn -> {"none", "dial", "open", "closed", "refused", "raised"}]
    /\ reader \in [Conn -> {"none", "read", "done"}]
    /\ writer \in [Conn -> {"none", "start", "wait", "woken", "drain", "done"}]
    /\ rseq \in [Conn -> 0..MaxReads]
    /\ accepted \in [Sid -> Seq(Frame)]
    /\ written \in [Conn -> Seq(Frame)]
    /\ produced \in [Sid -> Seq(Frame)]
    /\ taken \in [Sid -> Seq(Frame)]

(* Whatever polls run at once, every frame that an upstream worker has for *)
(* the client goes into exactly one reply, and the polls take the frames   *)
(* of a session in order (_handle_tunnel_post, drain_tx_limited_txn).      *)
Downstream == INSTANCE Stream WITH sent <- produced, recvd <- taken
ServesStream == Downstream!Spec

(* A session with one upstream connection writes to it what its client has *)
(* sent, frame by frame, and no frame is lost between the handlers that    *)
(* append and the writer that suspends in drain (write_downstream).        *)
WritesInOrder ==
    \A s \in Sid : conns[s] = 1 =>
        written[<<s, 1>>] \o sess[s].rx_q = accepted[s]

(* A writer never waits for rx_event while there is something to write:    *)
(* frames that arrive while it is in drain are not left behind.            *)
NoLostWakeup ==
    \A s \in Sid : conns[s] = 1 /\ writer[<<s, 1>>] = "wait" => sess[s].rx_q = <<>>

(* However reader, writer and supervisor end, the client is told once that *)
(* the connection is over, and nothing follows that (_upstream_worker).    *)
Ending(f) == f.flags \in {"FIN", "RST"}
EndsOnce ==
    \A s \in Sid : conns[s] = 1 =>
        \A i \in DOMAIN produced[s] :
            Ending(produced[s][i]) => i = Len(produced[s])

(* A FIN of the client reaches the writer behind the data, the connection  *)
(* closes and the client is told.                                          *)
ClosesPropagate ==
    \A s \in Sid :
        conns[s] = 1 /\ task[<<s, 1>>] = "open"
            /\ (\E i \in DOMAIN accepted[s] : accepted[s][i].flags = "FIN")
        ~> conns[s] > 1 \/ \E i \in DOMAIN produced[s] : Ending(produced[s][i])
=============================================================================
