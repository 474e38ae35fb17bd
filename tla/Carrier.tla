------------------------------ MODULE Carrier ------------------------------
(***************************************************************************)
(* The client's carrier (carrier/client.py) between the session pool that  *)
(* the SOCKS connections fill and the server that reads the batches.       *)
(*                                                                         *)
(* Every endpoint has WorkersPerEndpoint worker tasks.  A worker drains    *)
(* its share of the pool, POSTs what it got as one batch, dispatches the   *)
(* reply and starts again.  The tasks interleave at the awaits that really *)
(* suspend: the POST, the sleeps and the wait for activity.  _drain_all    *)
(* suspends nowhere, so it is one step.                                    *)
(*                                                                         *)
(* Time is abstract here: a sleep ends at any later step, the health loop  *)
(* and the watchdog tick at any step.  EndpointHealth models their clocks. *)
(***************************************************************************)
EXTENDS SessionPool

CONSTANTS
    Endpoint,              \* the configured Apps Script deployments
    WorkersPerEndpoint,    \* workersPerEndpoint (3)
    MaxFramePayload,       \* bytes of frames a batch may hold (262144)
    BatchSizeMin, BatchSizeMax, BatchSizeDefault,   \* 1, 64 and 8 frames
    MaxConsecutiveFailures,                         \* 5
    Outcome,     \* what may become of a POST, a subset of Outcomes
    Shutdown,    \* whether the tunnel may be stopped
    Payloads,    \* the payload sizes applications write
    MaxWrites,   \* bound: data frames an application writes per session
    MaxResponse, \* bound: frames in a reply
    MaxRx,       \* bound: undelivered response frames of a session
    MaxRecvd     \* bound: frames of a session the server reads

(* "ok": the server processed the batch and its reply decodes.             *)
(* "garbled": HTTP 200 whose body decode_batch rejects, which is what the  *)
(*   server's reply to an idle poll and an Apps Script error page are.     *)
(* "blank": HTTP 200 without a body.  "throttled": HTTP 302 or 429.        *)
(* "error": any other status, or no reply at all (status 0); the batch was *)
(*   processed or never will be.                                           *)
(* "late": as "error", and the request is still on its way to the server.  *)
Outcomes == {"ok", "garbled", "blank", "throttled", "error", "late"}

ASSUME CarrierAssumption ==
    /\ IsFiniteSet(Sid)
    /\ WorkersPerEndpoint \in Nat \ {0}
    /\ MaxFramePayload \in Nat
    /\ BatchSizeMin \in Nat \ {0}
    /\ BatchSizeMax \in Nat
    /\ BatchSizeDefault \in BatchSizeMin..BatchSizeMax
    /\ MaxConsecutiveFailures \in Nat \ {0}
    /\ Outcome \subseteq Outcomes
    /\ Shutdown \in BOOLEAN
    /\ Payloads \subseteq 0..MaxPayload
    /\ MaxWrites \in Nat /\ MaxResponse \in Nat
    /\ MaxRx \in Nat /\ MaxRecvd \in Nat

VARIABLES
    pool,      \* the sessions in SessionPool._sessions
    born,      \* the position of each session in the order of creation
    sess,      \* the Session objects
    closed,    \* the sessions whose VirtualConn has sent its FIN
    pc,        \* where each worker task is suspended
    frames,    \* the local variable frames of each worker, per session
    wire,      \* what the server has yet to read of each worker's POST
    orphan,    \* a POST its worker gave up on that may still arrive
    batch_size, consecutive_failures, is_dead,     \* per endpoint
    running,   \* Carrier._running
    sent,      \* history: the frames each VirtualConn has enqueued
    recvd,     \* history: the frames the server has read, per session
    faults,    \* history: the kinds of mishap that have occurred
    raced      \* history: the sessions with two requests on their way at once

poolVars == <<pool, born, sess, closed>>
taskVars == <<pc, frames, wire, orphan>>
epVars   == <<batch_size, consecutive_failures, is_dead>>
history  == <<sent, recvd, faults, raced>>
vars     == <<poolVars, taskVars, epVars, running, history>>

Worker == Endpoint \X (0..(WorkersPerEndpoint - 1))

(* A batch, by session: nothing depends on how the frames of different     *)
(* sessions interleave in it.                                              *)
Batch == [Sid -> Seq(Frame)]
NoFrames == [s \in Sid |-> <<>>]

(* "torn": a rollback put frames back that are in the batch as well.       *)
(* "lost": frames were dropped.  "moved": a session left the pool, and the *)
(* sessions behind it changed places.  "late": a request was given up      *)
(* while on its way.  "crashed": a worker task ended with an exception.    *)
Fault == {"torn", "lost", "moved", "late", "crashed"}
----------------------------------------------------------------------------
(* _drain_all.  sids = list(pool._sessions) is in the order of creation;   *)
(* worker i of every endpoint visits sids[i], sids[i + workersPerEndpoint] *)
(* and so on.                                                              *)
Index(s) == Cardinality({t \in pool : born[t] < born[s]})
SidAt(i) == CHOOSE s \in pool : Index(s) = i
(* Mutation: a slice without its step.                                     *)
VisitsWithoutStep(w, s) == s \in pool /\ Index(s) >= w[2]

Visits(w, s) == s \in pool /\ Index(s) % WorkersPerEndpoint = w[2]

(* Mutation: a frame that fills the batch to the last byte is left out.    *)
FittingStrictly(q, used) ==
    Cardinality({k \in 1..Len(q) : used + EncodedBytes(q, k) < MaxFramePayload})

(* The frames of the snapshot q that still fit in a batch of used bytes.   *)
Fitting(q, used) ==
    Cardinality({k \in 1..Len(q) : used + EncodedBytes(q, k) <= MaxFramePayload})

(* total_size when the session at index i is visited: the sessions at the  *)
(* indexes i - workersPerEndpoint, ... went before it.                     *)
TotalSize(i, max_frames) ==
    LET used[j \in Nat] ==
            IF j < WorkersPerEndpoint THEN 0
            ELSE LET p == j - WorkersPerEndpoint
                     q == Snapshot(sess[SidAt(p)], max_frames)
                 IN  used[p] + EncodedBytes(q, Fitting(q, used[p]))
    IN  used[i]

(* How many frames of s the drain appends to its batch.                    *)
Taken(s, max_frames) ==
    Fitting(Snapshot(sess[s], max_frames), TotalSize(Index(s), max_frames))

(* Mutation: the drain forgets the first frame of what fits.               *)
DrainedShort(w) ==
    [s \in Sid |-> IF Visits(w, s)
                   THEN SubSeq(sess[s].tx_q, 2, Taken(s, batch_size[w[1]]))
                   ELSE <<>>]

Drained(w) ==
    [s \in Sid |-> IF Visits(w, s)
                   THEN SubSeq(sess[s].tx_q, 1, Taken(s, batch_size[w[1]]))
                   ELSE <<>>]

(* A snapshot that does not fit is rolled back whole.                      *)
Overflows(w, s) ==
    /\ Visits(w, s)
    /\ Taken(s, batch_size[w[1]]) < SnapshotLen(sess[s], batch_size[w[1]])

AfterDrain(w, s) ==
    LET n == batch_size[w[1]]
        d == DrainTx(sess[s], n)
    IN  IF ~Visits(w, s) THEN sess[s]
        ELSE IF Overflows(w, s) THEN RollbackDrain(d, Snapshot(sess[s], n))
        ELSE d

Torn(w) == \E s \in Sid : Overflows(w, s) /\ Drained(w)[s] # <<>>

(* Frames of s are on their way, in a POST or in one that was given up.    *)
Underway(s) == \E v \in Worker : wire[v][s] # <<>> \/ orphan[v][s] # <<>>

(* Drain, encode and send.  An empty drain leaves the worker at idlePc.    *)
DrainAndPost(w, idlePc) ==
    /\ sess' = [s \in Sid |-> AfterDrain(w, s)]
    /\ frames' = [frames EXCEPT ![w] = Drained(w)]
    /\ wire' = [wire EXCEPT ![w] = Drained(w)]
    /\ pc' = [pc EXCEPT ![w] = IF Drained(w) = NoFrames THEN idlePc ELSE "post"]
    /\ faults' = IF Torn(w) THEN faults \cup {"torn"} ELSE faults
    /\ raced' = raced \cup {s \in Sid : Drained(w)[s] # <<>> /\ Underway(s)}
    /\ UNCHANGED <<pool, born, closed, orphan, epVars, running, sent, recvd>>
----------------------------------------------------------------------------
(* The VirtualConns: what they do to the pool.  A VirtualConn holds on to  *)
(* its Session object, also after the session has left the pool.           *)
Opened(s) == born[s] # 0

(* VirtualConn.open: get_or_create, which sets _global_event, and the SYN. *)
(* The event wakes the workers that wait for it now; the others clear it   *)
(* before they wait.                                                       *)
Open(s) ==
    /\ ~Opened(s)
    /\ born' = [born EXCEPT ![s] = 1 + Cardinality({t \in Sid : Opened(t)})]
    /\ pool' = pool \cup {s}
    /\ sess' = [sess EXCEPT ![s] = EnqueueTx(NewSession, Syn(s))]
    /\ sent' = [sent EXCEPT ![s] = Append(@, Syn(s))]
    /\ pc' = [w \in Worker |-> IF pc[w] = "wait" THEN "woken" ELSE pc[w]]
    /\ UNCHANGED <<closed, frames, wire, orphan, epVars, running, recvd, faults, raced>>

(* Mutation: the drain loop does not look whether the connection is closed. *)
WriteAfterClose(s, len) ==
    LET n == sess[s].seq
        f == Data(s, n, len)
    IN  /\ Opened(s)
        /\ n < MaxWrites
        /\ sess' = [sess EXCEPT ![s] = [EnqueueTx(@, f) EXCEPT !.seq = n + 1]]
        /\ sent' = [sent EXCEPT ![s] = Append(@, f)]
        /\ UNCHANGED <<pool, born, closed, taskVars, epVars, running, recvd, faults, raced>>

(* One turn of _tx_drain_loop.  Only tx_event is set, which no task waits  *)
(* for: no worker wakes up.                                                *)
Write(s, len) ==
    LET n == sess[s].seq
        f == Data(s, n, len)
    IN  /\ Opened(s) /\ s \notin closed
        /\ n < MaxWrites
        /\ sess' = [sess EXCEPT ![s] = [EnqueueTx(@, f) EXCEPT !.seq = n + 1]]
        /\ sent' = [sent EXCEPT ![s] = Append(@, f)]
        /\ UNCHANGED <<pool, born, closed, taskVars, epVars, running, recvd, faults, raced>>

(* The read loop meets a FIN or an RST, the k-th frame that waits for it,  *)
(* and closes: its own FIN goes out behind the data, and rx_event is set   *)
(* for a reader that is not there any more.  Nothing else closes: when the *)
(* application hangs up, connection_lost makes the coroutine close() and   *)
(* awaits it nowhere, so it never runs.                                    *)
Close(s) ==
    /\ Opened(s) /\ s \notin closed
    /\ closed' = closed \cup {s}
    /\ \E k \in DOMAIN sess[s].rx_q :
          sess' = [sess EXCEPT ![s] = [EnqueueTx(@, Fin(s)) EXCEPT
                     !.rx_q = SubSeq(sess[s].rx_q, k + 1, Len(sess[s].rx_q)),
                     !.rx_event = TRUE]]
    /\ sent' = [sent EXCEPT ![s] = Append(@, Fin(s))]
    /\ UNCHANGED <<pool, born, taskVars, epVars, running, recvd, faults, raced>>

(* _read_loop empties rx_q of data without suspending.                     *)
ReadLoop(s) ==
    /\ sess[s].rx_event /\ s \notin closed
    /\ sess' = [sess EXCEPT ![s].rx_q = <<>>, ![s].rx_event = FALSE]
    /\ UNCHANGED <<pool, born, closed, taskVars, epVars, running, history>>
----------------------------------------------------------------------------
(* The worker tasks.                                                       *)

(* Top of the loop, endpoint alive: drain, and POST or wait for activity.  *)
Poll(w) ==
    /\ running /\ pc[w] = "loop"
    /\ ~is_dead[w[1]]
    /\ DrainAndPost(w, "wait")

(* wait_for_activity returned True: drain again, without a look at is_dead. *)
Notified(w) ==
    /\ pc[w] = "woken"
    /\ DrainAndPost(w, "loop")

Goto(w, label) == pc' = [pc EXCEPT ![w] = label]

(* The wait for activity timed out after pollIdleSleep.                    *)
PollIdle(w) ==
    /\ pc[w] = "wait"
    /\ Goto(w, "loop")
    /\ UNCHANGED <<poolVars, frames, wire, orphan, epVars, running, history>>

(* The endpoint is dead: sleep for its backoff and look again.             *)
SleepDead(w) ==
    /\ running /\ pc[w] = "loop"
    /\ is_dead[w[1]]
    /\ Goto(w, "sleep")
    /\ UNCHANGED <<poolVars, frames, wire, orphan, epVars, running, history>>

WakeUp(w) ==
    /\ pc[w] = "sleep"
    /\ Goto(w, "loop")
    /\ UNCHANGED <<poolVars, frames, wire, orphan, epVars, running, history>>

(* _dispatch_response_frames: a frame for each session of R that is still  *)
(* in the pool; the others are dropped.  Whether it is data, a FIN or an   *)
(* RST is settled when it is read.                                         *)
Dispatched(R) ==
    [s \in Sid |-> IF s \in R \cap pool THEN EnqueueRx(sess[s], Data(s, 0, 0))
                                        ELSE sess[s]]

(* Mutation: an empty reply takes one off, whatever is left.               *)
AdaptedWithoutMin(n, resp) ==
    IF resp > 0 /\ 10 * resp >= 8 * n
    THEN IF n + 2 < BatchSizeMax THEN n + 2 ELSE BatchSizeMax
    ELSE IF resp = 0 THEN n - 1 ELSE n

(* Adaptive batch sizing: 2 up when the reply holds at least 0.8 of a      *)
(* batch, 1 down when it is empty.                                         *)
AdaptedBatchSize(n, resp) ==
    IF resp > 0 /\ 10 * resp >= 8 * n
    THEN IF n + 2 < BatchSizeMax THEN n + 2 ELSE BatchSizeMax
    ELSE IF resp = 0 /\ n > BatchSizeMin THEN n - 1 ELSE n

(* HTTP 200 with a batch that holds one frame for every session in R.  The *)
(* server knows a session only once it has read a frame of it.             *)
ReplyOk(w, R) ==
    /\ "ok" \in Outcome
    /\ pc[w] = "post" /\ wire[w] = NoFrames
    /\ Cardinality(R) <= MaxResponse
    /\ \A s \in R : recvd[s] # <<>> /\ Len(sess[s].rx_q) < MaxRx
    /\ sess' = Dispatched(R)
    /\ consecutive_failures' = [consecutive_failures EXCEPT ![w[1]] = 0]
    /\ batch_size' = [batch_size EXCEPT
                        ![w[1]] = AdaptedBatchSize(@, Cardinality(R))]
    /\ frames' = [frames EXCEPT ![w] = NoFrames]
    /\ Goto(w, "loop")
    /\ UNCHANGED <<pool, born, closed, wire, orphan, is_dead, running, history>>

(* What a POST that failed did not deliver is lost.                        *)
Forget(w) ==
    /\ frames' = [frames EXCEPT ![w] = NoFrames]
    /\ wire' = [wire EXCEPT ![w] = NoFrames]

LossOf(w) == IF wire[w] = NoFrames THEN {} ELSE {"lost"}

(* HTTP 200 and decode_batch raises: the loop catches CancelledError only, *)
(* so the task ends.                                                       *)
ReplyGarbled(w) ==
    /\ "garbled" \in Outcome
    /\ pc[w] = "post"
    /\ Goto(w, "crashed")
    /\ Forget(w)
    /\ consecutive_failures' = [consecutive_failures EXCEPT ![w[1]] = 0]
    /\ faults' = faults \cup {"crashed"} \cup LossOf(w)
    /\ UNCHANGED <<poolVars, orphan, batch_size, is_dead, running, sent, recvd, raced>>

(* HTTP 200 and nothing to decode: on with the next frames.                *)
ReplyBlank(w) ==
    /\ "blank" \in Outcome
    /\ pc[w] = "post"
    /\ Goto(w, "loop")
    /\ Forget(w)
    /\ consecutive_failures' = [consecutive_failures EXCEPT ![w[1]] = 0]
    /\ faults' = faults \cup LossOf(w)
    /\ UNCHANGED <<poolVars, orphan, batch_size, is_dead, running, sent, recvd, raced>>

(* The count stops at MaxConsecutiveFailures: the code only compares it.   *)
OneMoreFailure(ep) ==
    consecutive_failures' = [consecutive_failures EXCEPT
        ![ep] = IF @ < MaxConsecutiveFailures THEN @ + 1 ELSE @]

(* Mutation: a POST that was throttled is retried from the queue.          *)
ReplyThrottledRetried(w) ==
    /\ "throttled" \in Outcome
    /\ pc[w] = "post"
    /\ Goto(w, "sleep")
    /\ sess' = [s \in Sid |-> IF frames[w][s] = <<>> THEN sess[s]
                              ELSE RollbackDrain(sess[s], frames[w][s])]
    /\ Forget(w)
    /\ OneMoreFailure(w[1])
    /\ UNCHANGED <<pool, born, closed, orphan, batch_size, is_dead, running, history>>

(* HTTP 302 or 429: sleep a second, then go on with the next frames.       *)
ReplyThrottled(w) ==
    /\ "throttled" \in Outcome
    /\ pc[w] = "post"
    /\ Goto(w, "sleep")
    /\ Forget(w)
    /\ OneMoreFailure(w[1])
    /\ faults' = faults \cup LossOf(w)
    /\ UNCHANGED <<poolVars, orphan, batch_size, is_dead, running, sent, recvd, raced>>

(* The sessions whose SYN was in the batch.                                *)
FailedSids(w) ==
    {s \in Sid : \E i \in DOMAIN frames[w][s] : frames[w][s][i].flags = "SYN"}

(* Any other status: those sessions leave the pool.  With "late", the      *)
(* request itself is not lost.                                             *)
ReplyError(w) ==
    /\ pc[w] = "post"
    /\ \/ /\ "error" \in Outcome
          /\ faults' = faults \cup LossOf(w) \cup
                       (IF FailedSids(w) \cap pool = {} THEN {} ELSE {"moved"})
          /\ UNCHANGED orphan
       \/ /\ "late" \in Outcome
          /\ wire[w] # NoFrames /\ orphan[w] = NoFrames
          /\ orphan' = [orphan EXCEPT ![w] = wire[w]]
          /\ faults' = faults \cup {"late"} \cup
                       (IF FailedSids(w) \cap pool = {} THEN {} ELSE {"moved"})
    /\ Goto(w, "loop")
    /\ Forget(w)
    /\ OneMoreFailure(w[1])
    /\ pool' = pool \ FailedSids(w)
    /\ UNCHANGED <<born, sess, closed, batch_size, is_dead, running, sent, recvd, raced>>
----------------------------------------------------------------------------
(* The way to the server: Google's edge, the Apps Script and the relay.    *)
(* The server processes the frames of a batch without suspending.          *)
Deliver(w) ==
    /\ wire[w] # NoFrames
    /\ \A s \in Sid : Len(recvd[s] \o wire[w][s]) <= MaxRecvd
    /\ recvd' = [s \in Sid |-> recvd[s] \o wire[w][s]]
    /\ wire' = [wire EXCEPT ![w] = NoFrames]
    /\ UNCHANGED <<poolVars, pc, frames, orphan, epVars, running, sent, faults, raced>>

DeliverLate(w) ==
    /\ orphan[w] # NoFrames
    /\ \A s \in Sid : Len(recvd[s] \o orphan[w][s]) <= MaxRecvd
    /\ recvd' = [s \in Sid |-> recvd[s] \o orphan[w][s]]
    /\ orphan' = [orphan EXCEPT ![w] = NoFrames]
    /\ UNCHANGED <<poolVars, pc, frames, wire, epVars, running, sent, faults, raced>>
----------------------------------------------------------------------------
(* The tasks that watch the endpoints.                                     *)

(* A turn of _health_loop that finds an endpoint to mark dead.             *)
HealthTick ==
    LET failing == {ep \in Endpoint :
                      consecutive_failures[ep] >= MaxConsecutiveFailures}
    IN  /\ running
        /\ \E ep \in failing : ~is_dead[ep]
        /\ is_dead' = [ep \in Endpoint |-> is_dead[ep] \/ ep \in failing]
        /\ UNCHANGED <<poolVars, taskVars, batch_size, consecutive_failures,
                       running, history>>

(* _revive_endpoint, when its sleep is over.  A revive task that was left  *)
(* over from an earlier death finds a live endpoint.                       *)
Revive(ep) ==
    /\ running
    /\ is_dead' = [is_dead EXCEPT ![ep] = FALSE]
    /\ consecutive_failures' = [consecutive_failures EXCEPT ![ep] = 0]
    /\ UNCHANGED <<poolVars, taskVars, batch_size, running, history>>

(* _watchdog_loop after _WatchdogMaxIdle seconds without a drain.          *)
Watchdog ==
    /\ running
    /\ pool # {}
    /\ \A w \in Worker : pc[w] # "post"   \* POSTs end within 120 seconds
    /\ consecutive_failures' = [ep \in Endpoint |->
          IF is_dead[ep] THEN consecutive_failures[ep]
                         ELSE MaxConsecutiveFailures]
    /\ UNCHANGED <<poolVars, taskVars, batch_size, is_dead, running, history>>

(* stop(): every worker is cancelled at the await it is suspended in.      *)
Stop ==
    /\ Shutdown /\ running
    /\ running' = FALSE
    /\ UNCHANGED <<poolVars, taskVars, epVars, history>>

Cancel(w) ==
    /\ ~running
    /\ pc[w] \notin {"crashed", "stopped"}
    /\ Goto(w, "stopped")
    /\ Forget(w)
    /\ faults' = faults \cup LossOf(w)
    /\ UNCHANGED <<poolVars, orphan, epVars, running, sent, recvd, raced>>
----------------------------------------------------------------------------
Init ==
    /\ pool = {} /\ closed = {}
    /\ born = [s \in Sid |-> 0]
    /\ sess = [s \in Sid |-> NewSession]
    /\ pc = [w \in Worker |-> "loop"]
    /\ frames = [w \in Worker |-> NoFrames]
    /\ wire = [w \in Worker |-> NoFrames]
    /\ orphan = [w \in Worker |-> NoFrames]
    /\ batch_size = [ep \in Endpoint |-> BatchSizeDefault]
    /\ consecutive_failures = [ep \in Endpoint |-> 0]
    /\ is_dead = [ep \in Endpoint |-> FALSE]
    /\ running = TRUE
    /\ sent = [s \in Sid |-> <<>>]
    /\ recvd = [s \in Sid |-> <<>>]
    /\ faults = {} /\ raced = {}

Conn(s) == Open(s) \/ Close(s) \/ ReadLoop(s) \/ \E len \in Payloads : Write(s, len)

Reply(w) ==
    \/ \E R \in SUBSET Sid : ReplyOk(w, R)
    \/ ReplyGarbled(w) \/ ReplyBlank(w) \/ ReplyThrottled(w) \/ ReplyError(w)

Work(w) ==
    \/ Poll(w) \/ Notified(w) \/ PollIdle(w)
    \/ SleepDead(w) \/ WakeUp(w)
    \/ Reply(w) \/ Cancel(w)

Next ==
    \/ \E s \in Sid : Conn(s)
    \/ \E w \in Worker : Work(w) \/ Deliver(w) \/ DeliverLate(w)
    \/ \E ep \in Endpoint : Revive(ep)
    \/ HealthTick \/ Watchdog \/ Stop

(* The event loop runs every ready task, a sleep ends, aiohttp's total     *)
(* timeout ends every POST, and a revive that was scheduled runs.  Nothing *)
(* is assumed of the applications, nor of the server beyond an answer.     *)
Fairness ==
    /\ \A w \in Worker :
          /\ WF_vars(Poll(w) \/ Notified(w) \/ PollIdle(w) \/ SleepDead(w) \/ WakeUp(w))
          /\ WF_vars(Deliver(w))
          /\ WF_vars(Reply(w))
          /\ WF_vars(Cancel(w))
    /\ \A ep \in Endpoint : WF_vars(Revive(ep))

Spec == Init /\ [][Next]_vars
FairSpec == Spec /\ Fairness
----------------------------------------------------------------------------
(***************************************************************************)
(* Properties.                                                             *)
(***************************************************************************)
TypeOK ==
    /\ pool \subseteq Sid /\ closed \subseteq Sid
    /\ born \in [Sid -> Nat]
    /\ sess \in [Sid -> Session]
    /\ pc \in [Worker -> {"loop", "wait", "woken", "sleep", "post",
                         "crashed", "stopped"}]
    /\ frames \in [Worker -> Batch]
    /\ wire \in [Worker -> Batch]
    /\ orphan \in [Worker -> Batch]
    /\ batch_size \in [Endpoint -> BatchSizeMin..BatchSizeMax]
    /\ consecutive_failures \in [Endpoint -> 0..MaxConsecutiveFailures]
    /\ is_dead \in [Endpoint -> BOOLEAN]
    /\ running \in BOOLEAN
    /\ sent \in [Sid -> Seq(Frame)]
    /\ recvd \in [Sid -> Seq(Frame)]
    /\ faults \subseteq Fault
    /\ raced \subseteq Sid

(* Whatever drains, rollbacks and failures came before, the byte count and *)
(* the event of a session agree with its queue, and unread frames always   *)
(* leave rx_event set, so that the read loop cannot sleep on them          *)
(* (session.py enqueue, drain_tx_limited_txn and rollback_drain).          *)
QueuesAccounted == \A s \in Sid : Accounted(sess[s])

(* Also after rollbacks and failures, what waits in a session's queue is   *)
(* the unbroken tail of what its VirtualConn has enqueued: a drain never   *)
(* leaves a gap behind it and a rollback never reorders (_drain_all).      *)
QueueIsTail ==
    \A s \in Sid : \E n \in 0..Len(sent[s]) :
        sess[s].tx_q = SubSeq(sent[s], n + 1, Len(sent[s]))

OneEndpoint == \A e1, e2 \in Endpoint : e1 = e2

(* The workers of an endpoint share out the sessions by their position in  *)
(* the pool.  While no session leaves it, no two of them carry frames of   *)
(* the same session at once.                                               *)
OneCarrierPerSession ==
    OneEndpoint /\ "moved" \notin faults =>
        \A s \in Sid : \A v, w \in Worker :
            frames[v][s] # <<>> /\ frames[w][s] # <<>> => v = w

(* Frames of a session on their way from its queue to the server.          *)
InFlight(s) == {w \in Worker : wire[w][s] # <<>>}

(* With one endpoint and no mishap, each session is a FIFO channel: what   *)
(* the server has read, then the one batch in flight, then the queue, is   *)
(* exactly what was enqueued.                                              *)
Fifo ==
    OneEndpoint /\ faults = {} =>
        \A s \in Sid :
            \/ InFlight(s) = {} /\ recvd[s] \o sess[s].tx_q = sent[s]
            \/ \E w \in InFlight(s) :
                   (recvd[s] \o wire[w][s]) \o sess[s].tx_q = sent[s]

(* The place of a frame in the stream of its session.                      *)
Rank(f) == CASE f.flags = "SYN" -> 0
             [] f.flags = "FIN" -> MaxWrites + 1
             [] OTHER -> f.seq + 1

Ascending(q) == \A i, j \in DOMAIN q : i < j => Rank(q[i]) < Rank(q[j])

(* Whatever POSTs are lost or given up, and whatever sessions leave the    *)
(* pool, the server reads a session in order and no frame twice, unless a  *)
(* rollback was torn or two requests with frames of the session were on    *)
(* their way at once.  A request given up that still arrives counts, but   *)
(* one that arrives before the next drain does no harm.  One endpoint does *)
(* not race with itself, until a session changes worker or a request is    *)
(* given up on its way (_drain_all, _worker_loop).                         *)
InOrder ==
    /\ "torn" \notin faults => \A s \in Sid \ raced : Ascending(recvd[s])
    /\ OneEndpoint /\ faults \cap {"moved", "late"} = {} => raced = {}

(* A frame that was rolled back is not in a batch as well: no frame        *)
(* reaches the server twice (drain_tx_limited_txn and rollback_drain).     *)
NoDuplicates ==
    \A s \in Sid : \A i, j \in DOMAIN recvd[s] :
        recvd[s][i] = recvd[s][j] => i = j

(* The worker loops run until the carrier stops (_worker_loop).            *)
WorkersSurvive == \A w \in Worker : pc[w] # "crashed"

(* As long as nothing goes wrong, the carrier is the FIFO channel above.   *)
Channel == INSTANCE Stream
ImplementsStream == Channel!Spec

(* What a drain would take of a session does not fit into one batch, even  *)
(* an otherwise empty one: it is rolled back whole, drain after drain, and *)
(* may leave no room for the sessions behind it.                           *)
Oversized ==
    \E s \in pool : \E ep \in Endpoint :
        LET q == Snapshot(sess[s], batch_size[ep])
        IN  EncodedBytes(q, Len(q)) > MaxFramePayload

(* As long as the endpoints stay alive, a session's queue does not fill up *)
(* for ever: some worker visits it until it is empty, or the session goes, *)
(* or frames that cannot go into one batch stand in the way, and nothing   *)
(* else does (_drain_all).                                                 *)
EndpointsStayAlive == \A ep \in Endpoint : <>[](~is_dead[ep])
QueuesDrain ==
    EndpointsStayAlive =>
        \A s \in Sid : s \in pool /\ sess[s].tx_q # <<>>
                       ~> s \notin pool \/ sess[s].tx_q = <<>> \/ Oversized

(* and then the server reads all of it, if nothing goes wrong.             *)
AllDelivered ==
    EndpointsStayAlive /\ [](faults = {} /\ ~Oversized) =>
        \A s \in Sid : sent[s] # <<>> ~> recvd[s] = sent[s]
=============================================================================
