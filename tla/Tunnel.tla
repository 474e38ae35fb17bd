------------------------------- MODULE Tunnel -------------------------------
(***************************************************************************)
(* The client's carrier and the exit server put together: the batches that *)
(* one of them sends are those the other reads, and a worker gets the      *)
(* reply its handler makes, or none.                                       *)
(*                                                                         *)
(* Endpoints stay alive and the tunnel is not stopped here, and no session *)
(* is collected: GcInterval lies beyond LongPollWindow.  A poll takes one  *)
(* frame of a session (MaxDrain = 1), since Carrier!ReplyOk dispatches one *)
(* frame of each session in a reply.                                       *)
(***************************************************************************)
EXTENDS Integers, Sequences, SequencesExt, FiniteSets

CONSTANTS
    Sid, MaxPayload, HeaderLen, TargetLen,
    Endpoint, WorkersPerEndpoint, MaxFramePayload,
    BatchSizeMin, BatchSizeMax, BatchSizeDefault, MaxConsecutiveFailures,
    Outcome, Payloads, MaxWrites, MaxResponse, MaxRx, MaxRecvd,
    Handler, LongPollWindow, GcInterval, DialOutcome,
    MaxAccepted, MaxConn, MaxReads

VARIABLES
    pool, born, sess, closed, pc, frames, wire, orphan,
    batch_size, consecutive_failures, is_dead, running, sent, recvd, faults, raced,
    x_pool, x_sess, x_idle, x_polls, x_conns, x_task, x_reader, x_writer,
    x_rseq, x_accepted, x_written, x_produced, x_taken,
    client,      \* the worker each handler is to answer, or none
    reply,       \* the reply on its way to each worker
    got,         \* history: what was dispatched to each session
    dropped,     \* history: the sessions of which a reply was lost
    overlapped   \* history: those of which two replies were on their way

clientVars == <<pool, born, sess, closed, pc, frames, wire, orphan, batch_size,
                consecutive_failures, is_dead, running, sent, recvd, faults,
                raced>>
serverVars == <<x_pool, x_sess, x_idle, x_polls, x_conns, x_task, x_reader,
                x_writer, x_rseq, x_accepted, x_written, x_produced, x_taken>>
linkVars   == <<client, reply>>
history    == <<got, dropped, overlapped>>
vars       == <<clientVars, serverVars, linkVars, history>>

C == INSTANCE Carrier WITH Shutdown <- FALSE
X == INSTANCE ExitServer WITH
        MaxDrain <- 1, MaxConcurrentUpstream <- 256,
        pool <- x_pool, sess <- x_sess, idle <- x_idle, polls <- x_polls,
        conns <- x_conns, task <- x_task, reader <- x_reader, writer <- x_writer,
        rseq <- x_rseq, accepted <- x_accepted, written <- x_written,
        produced <- x_produced, taken <- x_taken

(* What the two modules assume, and what they must agree on: ExitServer's  *)
(* clients send chunks of one byte, and a session gets an upstream worker. *)
ASSUME TunnelAssumption ==
    /\ IsFiniteSet(Sid)
    /\ HeaderLen \in Nat /\ TargetLen \in Nat /\ MaxFramePayload \in Nat
    /\ MaxPayload \in Nat \ {0} /\ Payloads \subseteq {1}
    /\ WorkersPerEndpoint \in Nat \ {0} /\ MaxConsecutiveFailures \in Nat \ {0}
    /\ BatchSizeMin \in Nat \ {0} /\ BatchSizeMax \in Nat
    /\ BatchSizeDefault \in BatchSizeMin..BatchSizeMax
    /\ Outcome \subseteq C!Outcomes /\ DialOutcome \subseteq X!DialOutcomes
    /\ MaxWrites \in Nat /\ MaxResponse \in Nat /\ MaxRx \in Nat /\ MaxRecvd \in Nat
    /\ MaxAccepted \in Nat /\ MaxReads \in Nat /\ MaxConn \in Nat \ {0}
    /\ LongPollWindow \in Nat \ {0} /\ GcInterval \in Nat
    /\ GcInterval > LongPollWindow

NoWorker == <<>>
NoReply  == [kind |-> "none", frames |-> C!NoFrames]
Empty    == [kind |-> "empty", frames |-> C!NoFrames]

(* What a step of a handler has taken for its reply.                       *)
JustTaken == [s \in Sid |-> SubSeq(x_taken'[s], Len(x_taken[s]) + 1, Len(x_taken'[s]))]
Carries(body) == {s \in Sid : body[s] # <<>>}
OnTheWay(s) == \E w \in C!Worker : reply[w].frames[s] # <<>>
----------------------------------------------------------------------------
(* Handler h answers worker w, or nobody any more.                         *)
Answer(h, w) ==
    /\ client' = [client EXCEPT ![h] = NoWorker]
    /\ IF w = NoWorker
       THEN /\ dropped' = dropped \cup Carries(JustTaken)
            /\ UNCHANGED <<reply, overlapped>>
       ELSE /\ reply' = [reply EXCEPT ![w] =
                   IF JustTaken = C!NoFrames THEN Empty
                   ELSE [kind |-> "frames", frames |-> JustTaken]]
            /\ overlapped' = overlapped \cup {s \in Carries(JustTaken) : OnTheWay(s)}
            /\ UNCHANGED dropped
    /\ UNCHANGED got

(* A free handler has taken a batch: it answers at once or starts to poll. *)
Serve(h, w) ==
    /\ x_polls[h] = X!NoRequest /\ client[h] = NoWorker
    /\ IF x_polls'[h] = X!NoRequest
       THEN Answer(h, w)
       ELSE /\ client' = [client EXCEPT ![h] = w]
            /\ UNCHANGED <<reply, history>>

Arrive(w, h) == C!Deliver(w) /\ X!Post(h, wire[w]) /\ Serve(h, w)

(* A request its worker has given up arrives: nobody waits for the answer. *)
ArriveLate(w, h) == C!DeliverLate(w) /\ X!Post(h, orphan[w]) /\ Serve(h, NoWorker)

Respond(h) ==
    /\ X!PollReply(h) \/ X!PollTimeout(h)
    /\ Answer(h, client[h])
    /\ UNCHANGED clientVars

Receive(w) ==
    /\ reply[w].kind = "frames"
    /\ C!ReplyOk(w, Carries(reply[w].frames))
    /\ got' = [s \in Sid |-> IF s \in pool THEN got[s] \o reply[w].frames[s] ELSE got[s]]
    /\ dropped' = dropped \cup (Carries(reply[w].frames) \ pool)
    /\ reply' = [reply EXCEPT ![w] = NoReply]
    /\ UNCHANGED <<serverVars, client, overlapped>>

(* The reply to an idle poll does not decode.                              *)
ReceiveEmpty(w) ==
    /\ reply[w].kind = "empty"
    /\ C!ReplyGarbled(w)
    /\ reply' = [reply EXCEPT ![w] = NoReply]
    /\ UNCHANGED <<serverVars, client, history>>

(* The POST fails on its way, at the server or on its way back, or its     *)
(* worker gives it up and it arrives all the same.                         *)
Fail(w) ==
    /\ C!ReplyError(w) \/ C!ReplyThrottled(w) \/ C!ReplyBlank(w) \/ C!ReplyGarbled(w)
    /\ dropped' = dropped \cup Carries(reply[w].frames)
    /\ reply' = [reply EXCEPT ![w] = NoReply]
    /\ client' = [h \in Handler |-> IF client[h] = w THEN NoWorker ELSE client[h]]
    /\ UNCHANGED <<serverVars, got, overlapped>>
----------------------------------------------------------------------------
(* The read loop of a VirtualConn takes what was dispatched up to the FIN  *)
(* or RST, and closes there.                                               *)
Unread(s) == SubSeq(got[s], Len(got[s]) - Len(sess[s].rx_q) + 1, Len(got[s]))
Endings(s) == {k \in DOMAIN Unread(s) : X!Ending(Unread(s)[k])}

ReadConn(s) ==
    \/ Endings(s) = {} /\ C!ReadLoop(s)
    \/ /\ C!Close(s)
       /\ \E k \in Endings(s) : /\ \A j \in Endings(s) : k <= j
                                /\ Len(sess'[s].rx_q) = Len(sess[s].rx_q) - k

Application(s) == C!Open(s) \/ (\E len \in Payloads : C!Write(s, len)) \/ ReadConn(s)
Loop(w) == C!Poll(w) \/ C!Notified(w) \/ C!PollIdle(w) \/ C!WakeUp(w)

ClientStep ==
    /\ \/ \E s \in Sid : Application(s)
       \/ \E w \in C!Worker : Loop(w)
    /\ UNCHANGED <<serverVars, linkVars, history>>
ServerStep ==
    /\ \/ \E h \in Handler : X!PollAgain(h)
       \/ \E u \in X!Conn : X!Dial(u) \/ X!Read(u) \/ X!Writer(u) \/ X!Supervise(u)
    /\ UNCHANGED <<clientVars, linkVars, history>>
----------------------------------------------------------------------------
Init ==
    /\ C!Init /\ X!Init
    /\ client = [h \in Handler |-> NoWorker]
    /\ reply = [w \in C!Worker |-> NoReply]
    /\ got = [s \in Sid |-> <<>>]
    /\ dropped = {} /\ overlapped = {}

Next ==
    \/ ClientStep \/ ServerStep
    \/ \E h \in Handler : Respond(h)
    \/ \E h \in Handler, w \in C!Worker : Arrive(w, h) \/ ArriveLate(w, h)
    \/ \E w \in C!Worker : Receive(w) \/ ReceiveEmpty(w) \/ Fail(w)

(* Tasks go on, requests and replies arrive, dials end.                    *)
Fairness ==
    /\ \A w \in C!Worker :
          /\ WF_vars(Loop(w) /\ UNCHANGED <<serverVars, linkVars, history>>)
          /\ WF_vars(Receive(w) \/ ReceiveEmpty(w) \/ \E h \in Handler : Arrive(w, h))
    /\ \A h \in Handler :
          /\ WF_vars(Respond(h))
          /\ WF_vars(X!PollAgain(h) /\ UNCHANGED <<clientVars, linkVars, history>>)
    /\ \A u \in X!Conn :
          WF_vars((X!Dial(u) \/ X!Writer(u) \/ X!Supervise(u))
                  /\ UNCHANGED <<clientVars, linkVars, history>>)

Spec == Init /\ [][Next]_vars
FairSpec == Spec /\ Fairness
----------------------------------------------------------------------------
(***************************************************************************)
(* Properties.                                                             *)
(***************************************************************************)
(* ExitServer lets its clients send any segments of their streams: that is *)
(* what the carrier's drains and failures leave of them, and so the two    *)
(* modules fit together (_drain_all to _handle_tunnel_post).               *)
SendsSegments == \A w \in C!Worker : wire[w] \in X!Batch /\ orphan[w] \in X!Batch

(* What an upstream connection is written is what the application wrote,   *)
(* in order, whatever POSTs fail, arrive late or never, and whatever polls *)
(* go on, and without a gap from the first byte while no request is lost   *)
(* (VirtualConn to write_downstream).  Only a torn rollback and two        *)
(* requests with frames of the session on their way at once spoil that:    *)
(* of two endpoints, or one that was given up and arrives after the next.  *)
UploadsInOrder ==
    \A s \in Sid : s \notin raced /\ "torn" \notin faults /\ x_conns[s] <= 1 =>
        LET q == x_written[<<s, 1>>]
        IN  /\ "lost" \notin faults => IsPrefix(q, X!AfterSyn(sent[s]))
            /\ C!Ascending(q)

(* What is dispatched to a session is what its upstream connection has     *)
(* produced, if no reply was lost, and in order even then (read_upstream   *)
(* to _dispatch_response_frames): unless two replies with frames of it     *)
(* were on their way at once.  Any poll takes frames of every session, so  *)
(* with two workers that happens, and nothing puts them in order again.    *)
DownloadsInOrder ==
    \A s \in Sid : s \notin overlapped /\ x_conns[s] <= 1 =>
        /\ s \notin dropped => IsPrefix(got[s], x_produced[s])
        /\ \A i, j \in DOMAIN got[s] : i < j =>
              \E a, b \in DOMAIN x_produced[s] :
                  a < b /\ x_produced[s][a] = got[s][i] /\ x_produced[s][b] = got[s][j]

(* What the server has for a client gets taken by one of its polls, as     *)
(* long as nothing goes wrong (_worker_loop, _handle_tunnel_post).         *)
DownloadsArrive ==
    [](faults = {}) =>
        \A s \in Sid : x_sess[s].tx_q # <<>> ~> x_sess[s].tx_q = <<>>
=============================================================================
