----------------------------- MODULE SocksConn -----------------------------
(***************************************************************************)
(* One connection of an application to the client: the SOCKS5 handshake    *)
(* (socks/server.py) and the VirtualConn between the connection and its    *)
(* session (socks/conn.py).                                                *)
(*                                                                         *)
(* TCP hands the bytes over in pieces of any length.  What the protocol    *)
(* does not do at once it gives to asyncio's queue of ready tasks, which   *)
(* run in the order in which they were scheduled, each up to the next      *)
(* await that suspends it: ready is that queue.                            *)
(***************************************************************************)
EXTENDS Integers, Sequences, SequencesExt, FiniteSets

CONSTANTS
    Apps,          \* what applications say: records, see Greeting, Request
    Users,         \* the pairs of a user name and its password
    Responses,     \* what the server may answer: sequences of frames
    Clocks         \* "int", "float": whether loop.time() has to_bytes

VARIABLES
    app, auth_required, clock, response,   \* chosen once
    stage, to_send, inflight,       \* the application; bytes under way
    transport, state, buffer, replies,           \* SOCKS5Protocol
    target, closed, session, tx_queue,           \* VirtualConn
    reader, drain,                  \* its two tasks
    tx_q, rx_q, rx_event,           \* its session's queues
    dispatched,                     \* how much of the response has come
    delivered,                      \* payloads written to the application
    ready,                          \* the tasks that are ready to run
    received                        \* history: data received in state 3

config  == <<app, auth_required, clock, response>>
peer    == <<stage, to_send>>
socks   == <<state, buffer, replies, target>>
vconn   == <<closed, session, tx_queue, reader, drain>>
queues  == <<tx_q, rx_q, rx_event, dispatched>>
vars    == <<config, peer, inflight, transport, socks, vconn, queues,
             delivered, ready, received>>

None == "none"

Byte == 0..255
MaxPort == 65535
Port == 0..MaxPort

SOCKS_VERSION == 5
NO_AUTH   == 0
USER_PASS == 2
CONNECT   == 1
IPV4 == 1   DOMAINNAME == 3   IPV6 == 4

Concat(seqs) == FlattenSeq(seqs)

Frame(flags, seq, payload) == [flags |-> flags, seq |-> seq, payload |-> payload]
Frames == [flags : {"SYN", "DATA", "FIN", "RST"}, seq : Nat, payload : Seq(Byte)]

(* What an application means to say, and when that fits into the messages: *)
(* lengths are bytes, an address has the length that its type asks for.    *)
Application ==
    [ver : Byte, methods : Seq(Byte), user : Seq(Byte), pass : Seq(Byte),
     cmd : Byte, atyp : Byte, addr : Seq(Byte), port : Port,
     data : Seq(Seq(Byte)), eager : BOOLEAN]

WellFormed(a) ==
    /\ Len(a.methods) \in Byte /\ Len(a.user) \in Byte /\ Len(a.pass) \in Byte
    /\ Len(a.addr) \in CASE a.atyp = IPV4 -> {4}
                         [] a.atyp = IPV6 -> {16}
                         [] a.atyp = DOMAINNAME -> Byte
                         [] OTHER -> {0}

ASSUME SocksAssumption ==
    /\ \A a \in Apps : a \in Application /\ WellFormed(a)
    /\ Responses \subseteq Seq(Frames)
----------------------------------------------------------------------------
(* The application, as RFC 1928 and RFC 1929 have it.                      *)
Greeting(a)    == <<a.ver, Len(a.methods)>> \o a.methods
Credentials(a) == <<1, Len(a.user)>> \o a.user \o <<Len(a.pass)>> \o a.pass
Request(a) ==
    <<a.ver, a.cmd, 0, a.atyp>>
        \o (IF a.atyp = DOMAINNAME THEN <<Len(a.addr)>> ELSE <<>>) \o a.addr
        \o <<a.port \div 256, a.port % 256>>

Replied(r) == replies # <<>> /\ Last(replies) = r

Says(bytes, next) ==
    /\ transport = "open"
    /\ inflight' = inflight \o bytes
    /\ stage' = next
    /\ UNCHANGED <<config, transport, socks, vconn, queues, delivered, ready, received>>

Greet ==
    stage = "new" /\ Says(Greeting(app), "greeted") /\ UNCHANGED to_send
Authenticate ==
    /\ stage = "greeted" /\ Replied("user_pass")
    /\ Says(Credentials(app), "authenticated")
    /\ UNCHANGED to_send
Ask ==
    /\ \/ stage = "greeted" /\ Replied("no_auth")
       \/ stage = "authenticated" /\ Replied("auth_ok")
    /\ Says(Request(app), "asked")
    /\ UNCHANGED to_send

(* An eager application does not wait for the answer to its request.       *)
SendData ==
    /\ stage = "asked" /\ (app.eager \/ Replied("success"))
    /\ to_send # <<>>
    /\ to_send' = Tail(to_send)
    /\ Says(Head(to_send), "asked")
----------------------------------------------------------------------------
(* SOCKS5Protocol.  Every handler sees the whole buffer, and keeps it      *)
(* until it holds a whole message.                                         *)
NeedMore(buf) ==
    /\ buffer' = buf
    /\ UNCHANGED <<transport, state, replies, target, ready, received>>

Refuse(buf, reply) ==
    /\ buffer' = buf
    /\ replies' = Append(replies, reply)
    /\ transport' = "closing"
    /\ UNCHANGED <<state, target, ready, received>>

(* The buffer is cleared whole, what came behind the message with it.      *)
Accept(reply, next) ==
    /\ buffer' = <<>>
    /\ replies' = Append(replies, reply)
    /\ state' = next
    /\ UNCHANGED <<transport, target, ready, received>>

(* Mutation: one byte more than the greeting is waited for.                *)
GreetingWholeLate(buf) == Len(buf) >= 3 /\ Len(buf) > 2 + buf[2]

GreetingWhole(buf) == Len(buf) >= 3 /\ Len(buf) >= 2 + buf[2]

HandleHandshake(buf) ==
    LET wrong    == Len(buf) >= 3 /\ buf[1] # SOCKS_VERSION
        methods  == ToSet(SubSeq(buf, 3, 2 + buf[2]))
    IN  \/ wrong /\ Refuse(buf, "bad_version")
        \/ ~wrong /\ ~GreetingWhole(buf) /\ NeedMore(buf)
        \/ /\ ~wrong /\ GreetingWhole(buf)
           /\ \/ auth_required /\ USER_PASS \in methods /\ Accept("user_pass", 1)
              \/ ~auth_required /\ NO_AUTH \in methods /\ Accept("no_auth", 2)
              \/ /\ (IF auth_required THEN USER_PASS ELSE NO_AUTH) \notin methods
                 /\ Refuse(buf, "no_acceptable")

CredentialsWhole(buf) ==
    /\ Len(buf) >= 5
    /\ Len(buf) >= 3 + buf[2]
    /\ Len(buf) >= 3 + buf[2] + buf[3 + buf[2]]

HandleAuth(buf) ==
    LET wrong == Len(buf) >= 5 /\ buf[1] # 1
        uname == SubSeq(buf, 3, 2 + buf[2])
        plen  == buf[3 + buf[2]]
        passwd == SubSeq(buf, 4 + buf[2], 3 + buf[2] + plen)
    IN  \/ wrong /\ Refuse(buf, "auth_failed")
        \/ ~wrong /\ ~CredentialsWhole(buf) /\ NeedMore(buf)
        \/ /\ ~wrong /\ CredentialsWhole(buf)
           /\ IF <<uname, passwd>> \in Users
              THEN Accept("auth_ok", 2)
              ELSE Refuse(buf, "auth_failed")

(* _parse_addr: where the address is and where it ends.  An address of an  *)
(* unknown type is empty.                                                  *)
AddrFrom(buf) == IF buf[4] = DOMAINNAME THEN 6 ELSE 5
AddrLen(buf) ==
    CASE buf[4] = IPV4 -> 4
      [] buf[4] = IPV6 -> 16
      [] buf[4] = DOMAINNAME -> IF Len(buf) < 5 THEN 1 ELSE buf[5]
      [] OTHER -> 0

(* Mutation: the byte with the length of a name is not counted.            *)
HeaderLenUncounted(buf) == 4 + AddrLen(buf)

HeaderLen(buf) == AddrFrom(buf) + AddrLen(buf) - 1

RequestWhole(buf) == Len(buf) >= 4 /\ Len(buf) >= HeaderLen(buf) + 2

(* The success is written before anything has been opened.                 *)
HandleCommand(buf) ==
    LET wrong == Len(buf) >= 4 /\ (buf[1] # SOCKS_VERSION \/ buf[2] # CONNECT)
        h     == HeaderLen(buf)
    IN  \/ wrong /\ Refuse(buf, "unsupported")
        \/ ~wrong /\ ~RequestWhole(buf) /\ NeedMore(buf)
        \/ /\ ~wrong /\ RequestWhole(buf)
           /\ buffer' = <<>>
           /\ target' = [host |-> SubSeq(buf, AddrFrom(buf), h),
                         port |-> 256 * buf[h + 1] + buf[h + 2]]
           /\ replies' = Append(replies, "success")
           /\ state' = 3
           /\ ready' = Append(ready, <<"open">>)
           /\ UNCHANGED <<transport, received>>

(* A task for every piece of data.  The buffer keeps growing.              *)
HandleTunnelData(buf, data) ==
    /\ buffer' = buf
    /\ IF closed
       THEN UNCHANGED <<ready, received>>
       ELSE /\ ready' = Append(ready, <<"write", data>>)
            /\ received' = received \o data
    /\ UNCHANGED <<transport, state, replies, target>>

DataReceived ==
    /\ transport = "open" /\ inflight # <<>>
    /\ \E n \in 1..Len(inflight) :
          LET data == SubSeq(inflight, 1, n)
              buf  == buffer \o data
          IN  /\ inflight' = SubSeq(inflight, n + 1, Len(inflight))
              /\ \/ state = 0 /\ HandleHandshake(buf)
                 \/ state = 1 /\ HandleAuth(buf)
                 \/ state = 2 /\ HandleCommand(buf)
                 \/ state = 3 /\ HandleTunnelData(buf, data)
    /\ UNCHANGED <<config, peer, vconn, queues, delivered>>

(* The application has hung up, or the transport has closed.  The          *)
(* coroutine virtual.close() is made and never run.                        *)
ConnectionLost ==
    /\ transport # "lost"
    /\ transport' = "lost"
    /\ inflight' = <<>>
    /\ UNCHANGED <<config, peer, socks, vconn, queues, delivered, ready, received>>
----------------------------------------------------------------------------
(* The tasks of the VirtualConn.                                           *)
Turn(task) == ready # <<>> /\ Head(ready)[1] = task

(* handle_new_conn: open() runs to its end, get_or_create does not suspend *)
(* it.  Without to_bytes it raises, which is logged: there is no session,  *)
(* and the connection stays.                                               *)
Open ==
    /\ Turn("open")
    /\ IF clock = "float"
       THEN /\ ready' = Tail(ready)
            /\ UNCHANGED <<session, reader, drain, tx_q>>
       ELSE /\ session' = "open"
            /\ tx_q' = <<Frame("SYN", 0, <<>>)>>
            /\ reader' = "new" /\ drain' = "new"
            /\ ready' = Tail(ready) \o <<<<"read">>, <<"drain">>>>
    /\ UNCHANGED <<config, peer, inflight, transport, socks, closed, tx_queue,
                   rx_q, rx_event, dispatched, delivered, received>>

(* Mutations: the task that waits for the queue is not woken; it is woken *)
(* for every chunk.                                                        *)
WriteSilently ==
    /\ Turn("write")
    /\ IF closed \/ session = None
       THEN UNCHANGED tx_queue
       ELSE tx_queue' = Append(tx_queue, Head(ready)[2])
    /\ ready' = Tail(ready)
    /\ UNCHANGED <<config, peer, inflight, transport, socks, closed, session,
                   reader, drain, queues, delivered, received>>
WriteWakesAgain ==
    /\ Turn("write")
    /\ IF closed \/ session = None
       THEN ready' = Tail(ready) /\ UNCHANGED <<tx_queue, drain>>
       ELSE /\ tx_queue' = Append(tx_queue, Head(ready)[2])
            /\ drain' = "woken"
            /\ ready' = Append(Tail(ready), <<"drain">>)
    /\ UNCHANGED <<config, peer, inflight, transport, socks, closed, session,
                   reader, queues, delivered, received>>

(* write(): put wakes the task that waits in get.                          *)
Write ==
    /\ Turn("write")
    /\ IF closed \/ session = None
       THEN ready' = Tail(ready) /\ UNCHANGED <<tx_queue, drain>>
       ELSE /\ tx_queue' = Append(tx_queue, Head(ready)[2])
            /\ IF drain = "waiting"
               THEN /\ drain' = "woken"
                    /\ ready' = Append(Tail(ready), <<"drain">>)
               ELSE UNCHANGED drain /\ ready' = Tail(ready)
    /\ UNCHANGED <<config, peer, inflight, transport, socks, closed, session,
                   reader, queues, delivered, received>>

(* _tx_drain_loop runs until the queue is empty, get suspends it only      *)
(* then.  One that was woken before the close takes one chunk after it.    *)
Drain ==
    LET taken == IF ~closed THEN tx_queue
                 ELSE IF drain = "woken" THEN <<Head(tx_queue)>> ELSE <<>>
        n     == Cardinality({i \in DOMAIN tx_q : tx_q[i].flags = "DATA"})
    IN  /\ Turn("drain")
        /\ ready' = Tail(ready)
        /\ tx_q' = tx_q \o [i \in DOMAIN taken |-> Frame("DATA", n + i - 1, taken[i])]
        /\ tx_queue' = SubSeq(tx_queue, Len(taken) + 1, Len(tx_queue))
        /\ drain' = IF closed THEN "ended" ELSE "waiting"
        /\ UNCHANGED <<config, peer, inflight, transport, socks, closed, session,
                       reader, rx_q, rx_event, dispatched, delivered, received>>

IsEnd(f) == f.flags \in {"FIN", "RST"}
Payloads(frames) == Concat([i \in DOMAIN frames |-> frames[i].payload])

BeforeEnd(frames) ==
    LET k == SelectInSeq(frames, IsEnd)
    IN  SubSeq(frames, 1, IF k = 0 THEN Len(frames) ELSE k - 1)

(* The data up to the first FIN or RST, or all of it, goes to the          *)
(* application, unless its connection is closing.                          *)
Deliver(frames) ==
    delivered' = IF transport = "open" THEN delivered \o Payloads(frames) ELSE delivered

(* Mutations: a frame per wakeup; the FIN goes out before close() has      *)
(* waited for the read loop.                                               *)
ReadOne ==
    /\ Turn("read")
    /\ rx_event' = FALSE
    /\ IF rx_q = <<>> \/ IsEnd(Head(rx_q))
       THEN /\ reader' = IF rx_q = <<>> THEN "waiting" ELSE "closing"
            /\ closed' = (rx_q # <<>>)
            /\ ready' = IF rx_q = <<>> THEN Tail(ready) ELSE Append(Tail(ready), <<"close">>)
            /\ UNCHANGED <<rx_q, delivered>>
       ELSE /\ Deliver(<<Head(rx_q)>>)
            /\ rx_q' = Tail(rx_q)
            /\ reader' = "waiting"
            /\ ready' = Tail(ready)
            /\ UNCHANGED closed
    /\ UNCHANGED <<config, peer, inflight, transport, socks, session, tx_queue,
                   drain, tx_q, dispatched, received>>
ReadFinFirst ==
    LET k == SelectInSeq(rx_q, IsEnd)
    IN  /\ Turn("read")
        /\ ready' = IF k = 0 THEN Tail(ready) ELSE Append(Tail(ready), <<"close">>)
        /\ rx_event' = FALSE
        /\ Deliver(BeforeEnd(rx_q))
        /\ rx_q' = SubSeq(rx_q, IF k = 0 THEN Len(rx_q) + 1 ELSE k + 1, Len(rx_q))
        /\ reader' = IF k = 0 THEN "waiting" ELSE "closing"
        /\ closed' = (k # 0)
        /\ tx_q' = IF k = 0 THEN tx_q ELSE Append(tx_q, Frame("FIN", 0, <<>>))
        /\ UNCHANGED <<config, peer, inflight, transport, socks, session, tx_queue,
                       drain, dispatched, received>>

(* _read_loop empties rx_q; at a FIN or an RST it calls close(), which     *)
(* cancels and awaits the very task it runs in: that fails at its next     *)
(* turn, and close() goes on.                                              *)
Read ==
    LET k == SelectInSeq(rx_q, IsEnd)
    IN  /\ Turn("read")
        /\ ready' = IF k = 0 THEN Tail(ready) ELSE Append(Tail(ready), <<"close">>)
        /\ rx_event' = FALSE
        /\ Deliver(BeforeEnd(rx_q))
        /\ rx_q' = SubSeq(rx_q, IF k = 0 THEN Len(rx_q) + 1 ELSE k + 1, Len(rx_q))
        /\ reader' = IF k = 0 THEN "waiting" ELSE "closing"
        /\ closed' = (k # 0)
        /\ UNCHANGED <<config, peer, inflight, transport, socks, session, tx_queue,
                       drain, tx_q, dispatched, received>>

(* Mutation: the connection to the application stays open.                 *)
CloseHalf ==
    /\ Turn("close")
    /\ ready' = Tail(ready)
    /\ tx_q' = Append(tx_q, Frame("FIN", 0, <<>>))
    /\ rx_event' = TRUE
    /\ reader' = "ended"
    /\ UNCHANGED <<config, peer, inflight, transport, socks, closed, session,
                   tx_queue, drain, rx_q, dispatched, delivered, received>>

(* The rest of close().                                                    *)
Close ==
    /\ Turn("close")
    /\ ready' = Tail(ready)
    /\ tx_q' = Append(tx_q, Frame("FIN", 0, <<>>))
    /\ rx_event' = TRUE
    /\ reader' = "ended"
    /\ transport' = IF transport = "open" THEN "closing" ELSE transport
    /\ UNCHANGED <<config, peer, inflight, socks, closed, session, tx_queue,
                   drain, rx_q, dispatched, delivered, received>>

(* The carrier dispatches what the server sent: a POST with the SYN and    *)
(* its reply take longer than the first turns of the two tasks.            *)
EnqueueRx ==
    /\ dispatched < Len(response)
    /\ session = "open" /\ reader # "new" /\ drain # "new"
    /\ dispatched' = dispatched + 1
    /\ rx_q' = Append(rx_q, response[dispatched + 1])
    /\ rx_event' = TRUE
    /\ IF reader = "waiting"
       THEN reader' = "woken" /\ ready' = Append(ready, <<"read">>)
       ELSE UNCHANGED <<reader, ready>>
    /\ UNCHANGED <<config, peer, inflight, transport, socks, closed, session,
                   tx_queue, drain, tx_q, delivered, received>>
----------------------------------------------------------------------------
Init ==
    /\ app \in Apps /\ auth_required \in BOOLEAN /\ clock \in Clocks
    /\ stage = "new" /\ to_send = app.data /\ inflight = <<>>
    /\ transport = "open" /\ state = 0 /\ buffer = <<>> /\ replies = <<>>
    /\ target = [host |-> <<>>, port |-> 0]
    /\ closed = FALSE /\ session = None /\ tx_queue = <<>>
    /\ reader = None /\ drain = None
    /\ tx_q = <<>> /\ rx_q = <<>> /\ rx_event = FALSE
    /\ response \in Responses /\ dispatched = 0
    /\ delivered = <<>> /\ ready = <<>> /\ received = <<>>

AppSends == Greet \/ Authenticate \/ Ask \/ SendData
RunTask  == Open \/ Write \/ Drain \/ Read \/ Close

Next == AppSends \/ DataReceived \/ ConnectionLost \/ RunTask \/ EnqueueRx

(* The event loop runs what is ready and reads what has arrived; the       *)
(* application goes on as long as it is answered.                          *)
Fairness == WF_vars(RunTask) /\ WF_vars(DataReceived) /\ WF_vars(AppSends)

Spec == Init /\ [][Next]_vars
FairSpec == Spec /\ Fairness
----------------------------------------------------------------------------
(***************************************************************************)
(* Properties.                                                             *)
(***************************************************************************)
Scheduled(task) == Cardinality({i \in DOMAIN ready : ready[i][1] = task})

(* Types, and each task of the VirtualConn is in the ready queue once when *)
(* it can run and not at all when it waits.                                *)
TypeOK ==
    /\ stage \in {"new", "greeted", "authenticated", "asked"}
    /\ transport \in {"open", "closing", "lost"}
    /\ state \in 0..3
    /\ target.port \in Port
    /\ closed \in BOOLEAN /\ rx_event \in BOOLEAN
    /\ session \in {None, "open"}
    /\ reader \in {None, "new", "waiting", "woken", "closing", "ended"}
    /\ drain \in {None, "new", "waiting", "woken", "ended"}
    /\ Scheduled("read") = IF reader \in {"new", "woken"} THEN 1 ELSE 0
    /\ Scheduled("drain") = IF drain \in {"new", "woken"} THEN 1 ELSE 0
    /\ Scheduled("close") = IF reader = "closing" THEN 1 ELSE 0

(* What a proxy that sees whole messages would answer to the application.  *)
Permitted(a) == <<a.user, a.pass>> \in Users
Expected(a) ==
    LET offer  == IF auth_required THEN USER_PASS ELSE NO_AUTH
        answer == IF a.cmd = CONNECT THEN "success" ELSE "unsupported"
    IN  IF a.ver # SOCKS_VERSION THEN <<"bad_version">>
        ELSE IF offer \notin ToSet(a.methods) THEN <<"no_acceptable">>
        ELSE IF ~auth_required THEN <<"no_auth", answer>>
        ELSE IF Permitted(a) THEN <<"user_pass", "auth_ok", answer>>
        ELSE <<"user_pass", "auth_failed">>

(* However the bytes of a handshake are cut into pieces, the answers and   *)
(* the target are those of whole messages; nobody passes who may not       *)
(* (_handle_handshake, _handle_auth, _handle_command and _parse_addr).     *)
HandshakeWhole ==
    /\ IsPrefix(replies, Expected(app))
    /\ state = 3 =>
         /\ replies = Expected(app)
         /\ target = [host |-> app.addr, port |-> app.port]

(* and every handshake gets its last answer: no piece leaves the handlers  *)
(* waiting for bytes that will not come.                                   *)
Answered == <>(replies = Expected(app) \/ transport = "lost")

(* A task per piece of data, a queue and a loop that drains it: what the   *)
(* session's queue holds is the SYN, the data in the order in which the    *)
(* application sent it, without a gap, and the FIN, with nothing behind    *)
(* it.  When the loop is idle all of the data is there, also what came     *)
(* right behind the success, unless the connection was closed meanwhile    *)
(* (_handle_tunnel_data, write, _tx_drain_loop, close).                    *)
UploadWhole ==
    /\ IsPrefix(Payloads(tx_q), received)
    /\ ~app.eager => IsPrefix(received, Concat(app.data))
    /\ \A i \in DOMAIN tx_q : /\ tx_q[i].flags = "SYN" <=> i = 1
                              /\ IsEnd(tx_q[i]) => i = Len(tx_q)
                              /\ tx_q[i].flags = "DATA" => tx_q[i].seq = i - 2
    /\ ready = <<>> /\ session = "open" /\ ~closed =>
         Payloads(tx_q) = received /\ tx_queue = <<>>

(* What the server sent before its FIN or RST reaches the application in   *)
(* order, and all of it as soon as the loop is idle (_read_loop).          *)
DownloadWhole ==
    /\ IsPrefix(delivered, Payloads(BeforeEnd(response)))
    /\ ready = <<>> /\ session = "open" /\ transport = "open" =>
         delivered = Payloads(BeforeEnd(SubSeq(response, 1, dispatched)))

(* The two directions share one loop and one close.                        *)
DataInOrder == UploadWhole /\ DownloadWhole

(* A FIN or RST of the server is answered by a FIN behind all data, and    *)
(* the application is hung up.                                             *)
FinAnswered ==
    (\E i \in DOMAIN rx_q : IsEnd(rx_q[i])) ~>
        (transport # "open" /\ tx_q # <<>> /\ IsEnd(Last(tx_q)))
=============================================================================
