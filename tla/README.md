# Verification of the Astrix tunnel

TLA+ models of both programs of the tunnel, the TLC runs that check them and
TLAPS proofs about them. Paths are relative to the repository; `client.py` is
`astrix-client/astrix_client/carrier/client.py`, `conn.py` is
`astrix-client/astrix_client/socks/conn.py`, `exit/server.py` is
`astrix-server/astrix_server/exit/server.py`, `socks/server.py` and
`shell.py` are the client's unless said otherwise, and `session.py`, `frame.py` and
`crypto.py` are files that both packages hold a copy of.

    tlc -workers 2 -config MCCarrier_fifo.cfg MCCarrier     # a run
    tlapm CarrierProofs.tla                                 # proofs

## 1. Inventory

Two asyncio programs, each on one event loop in one thread, and a relay between
them that keeps nothing. An application opens a SOCKS connection; the client
makes it a *session*, a stream of frames (SYN, data, FIN) in the session's tx
queue; worker tasks drain these queues into batches and POST them through
Google's edge and an Apps Script to the exit server; the server puts the frames
into the rx queue of its own copy of the session, from which a task writes
them to a TCP connection to the target. What the target sends goes into the tx
queue of the server's session and travels back in the replies to the POSTs.

| Component | State | Operations | Calls, shares |
|---|---|---|---|
| `Session`, `SessionPool` (session.py) | a dict of sessions in order of creation; per session seq, tx and rx queue, a byte count, two events; a global event | get_or_create, get, remove, enqueue_tx/rx, drain_tx_limited_txn, rollback_drain, cleanup_expired, wait_for_activity | shared by all tasks of a program |
| Carrier (client.py) | per endpoint: batch size, failure count, dead or alive, backoff, scores; per worker task its local frames | start, stop, worker loop, drain, dispatch, health loop, revive, watchdog | drains the pool, POSTs through FrontedClient |
| FrontedClient (carrier/fronting.py) | connectors and sessions per SNI host, a rotation index | post, get, close | called by workers |
| VirtualConn (conn.py) | closed flag, chunk queue, two tasks | open, write, drain loop, read loop, close | between a SOCKS transport and a session |
| SOCKS5 server (socks/server.py) | per connection: a state 0 to 3, a buffer | greeting, authentication, command, data, connection_lost | creates VirtualConns |
| Exit handlers (exit/server.py) | per request: its frames, its deadline; a semaphore | POST /tunnel: read a batch, long-poll, collect idle sessions, reply | pool, upstream workers |
| Upstream workers (exit/server.py) | per connection a supervisor, a reader and a writer task | dial, read, write, cancel, close | pool |
| Frame codec (frame/frame.py), batches (crypto/crypto.py) | buffer pools; the counters of adaptive compression | marshal, unmarshal, encode_batch, decode_batch | carrier, handlers |
| DNSCache, Stats | entries with a time to live; counters | get, set | DNSCache is made and never used; Stats is for /healthz |
| Apps Script (apps-script/Code.gs) | none (an optional counter) | doPost tries the relays in turn | one hop of every POST |
| Configuration, daemons, shells, entry points | files, a PID file, signals | load, start, stop | start and stop the rest |

What makes each correct:

* **SessionPool**: counts and events agree with the queues; a rollback undoes
  its drain; what waits is an unbroken tail of what was enqueued.
* **Carrier**: no session in the hands of two workers; each session a FIFO
  channel when nothing fails, and still in order and without duplicates when
  frames are lost; queues drain; workers survive.
* **Exit server**: concurrent long-polls share out the frames of a session
  exactly once and in order; an upstream connection is written what its client
  sent; the client hears of a connection's end once, and does hear of it; idle
  sessions go away.
* **VirtualConn, SOCKS**: no data lost or overtaken by the close; a handshake
  that arrives in pieces is one handshake; a FIN of the server ends both sides.
* **Endpoint health**: dead endpoints come back, backoffs do not run away, the
  watchdog does not kill what works.
* **Codec**: decoding inverts encoding; sizes announced are sizes written;
  compression is tried again after it has been given up.
* **Configuration, daemons, shells**: a loaded config is one the tunnel can run
  with; what is saved loads again; the pidfile is honest; a program that is told
  to stop stops.
* **All together**: both directions of a session arrive in order end to end.

Hard behaviours: tasks interleave at every await that suspends (the POST,
sleeps, the waits for events, drain); batches overtake each other; a POST may be
lost before or after the server read it, or be given up and still arrive;
sessions change their place in the dict that assigns them to workers; several
handlers drain the same queues; the reader and the writer of a connection end
in either order; nothing acknowledges or numbers what the server reads. Nothing
of the tunnel is persisted, so a restart is a new start; only config files and
the pidfile outlive a process, and both may be left half done. `PROJECT.json`
lists each hazard at its line with the properties that would catch it.

## 2. Modules

| Module | Models | |
|---|---|---|
| `SessionPool` | `Session` and the operations of its pool, as operators on session records | no variables |
| `Carrier` | client.py with what VirtualConn does to the pool and what becomes of a POST | extends SessionPool |
| `Stream` | abstract: per session a FIFO channel that is read in batches | implemented by Carrier and ExitServer |
| `ExitServer` | the handlers of POST /tunnel and the upstream workers | extends SessionPool |
| `Tunnel` | client and server put together | instances of Carrier and ExitServer |
| `EndpointHealth` | the clocks of client.py: health loop, revive tasks, watchdog, the sleeps of workers | |
| `Failover` | abstract: when an endpoint is given up and used again, without clocks | implemented by EndpointHealth |
| `SocksConn` | one SOCKS connection: socks/server.py and conn.py | |
| `FrameCodec` | frame.py and crypto.py: batches to bytes and back, adaptive compression | |
| `Program` | both programs from the command line to their end: config, environment, shells, daemons, units | |
| `MC...` | model values, symmetry and the inputs of the runs | |
| `SessionPoolProofs`, `CarrierProofs`, `ExitProofs`, `HealthProofs`, `TunnelProofs`, `SocksProofs`, `CodecProofs`, `ProgramProofs` | the theorems | |

Definitions keep the source's names (`tx_q`, `batch_size`, `is_dead`,
`DrainTx` for `drain_tx_limited_txn`). Those marked *Mutation* in a comment are
defects the properties are tested against; no specification uses them.

**SessionPool.** The pool's coroutines take striped locks but never await
anything while they hold one, so on one event loop no lock is contended, no
operation suspends, and each is one atomic step. A frame is its session, kind,
number and payload length; `EncodedLen` is `encoded_len`. Sums of lengths are
cardinalities of sets of byte positions rather than recursive sums, which the
provers can reason about.

**Carrier.** `pc[w]` is the await at which worker `w` is suspended: `loop`, `wait`
(for activity), `woken`, `sleep`, `post`, `crashed`, `stopped`. `DrainAndPost` is
the code from the top of the loop to the POST: `_drain_all` with its slice
`sids[i::workersPerEndpoint]` (`Visits`), the size limit shared by the sessions
a worker visits (`TotalSize`, `Taken`), and the rollback of a snapshot that does
not fit (`Overflows`, `AfterDrain`). `wire[w]` is what the server has yet to read
of a POST, `orphan[w]` a POST given up by its worker that may still arrive
(`DeliverLate`). The reply actions follow the branches on the status; `ReplyGarbled`
is a 200 that `decode_batch` rejects, `ReplyBlank` one without a body. `HealthTick`, `Revive` and `Watchdog` have no clocks: they may
happen at any time, which allows every timing the code has and more. `sent`,
`recvd`, `faults` and `raced` are history variables: `faults` records which kinds of
mishap have happened, so that a property can say under which it holds, and `raced`
the sessions of which a worker took frames while others were on their way, in
another worker's POST or in one that was given up.

**ExitServer.** One `Post` is everything up to the handler's first suspension:
decoding, the loop over the frames, and the first poll, whose reply goes out
at once when it finds frames. Its batches hold, for each session, any segment of
the client's stream, in any order and any number of times, because the carrier
promises no more than that. `task`, `reader` and `writer` are the three tasks of
an upstream worker. A poll takes from all sessions of the pool, not only from
those of the posting client, because the code does.

**Tunnel.** `C` and `X` are the two specifications, with variables of their own;
the module adds only what lies between them: `client` (the worker a handler is to
answer) and `reply` (what is on its way back). Every action is a conjunction of
steps of `C` and `X`: `Arrive` is `C!Deliver` and `X!Post` of the same batch,
`ArriveLate` is `C!DeliverLate` and `X!Post`, with nobody to answer, and
`Receive` is `C!ReplyOk` with the frames that handler took. `Fail` is any of the ways in
which a POST ends for its worker without the handler's reply, before or after the
server has read the batch. So nothing of either
program is modelled twice, and what each takes for granted about the other is
checked: `SendsSegments` is the assumption `ExitServer` makes about its clients.
A poll takes one frame of each session (`MaxDrain` = 1; the code takes up to 8),
since `Carrier!ReplyOk` dispatches one: a longer reply is several short ones here.

**EndpointHealth.** Time passes in ticks, by one action that waits for everything
that is due; timers due at the same tick go off in any order. The relative order
of the code's intervals is what the constants keep. `revivals` is a *set* of
remaining sleeps; no two tasks have the same one, by the invariant `Gaps` below.
`Carrier` lets the same steps happen at any time, so its safety properties hold
under every timing; `Failover` is the abstraction of these steps.

**SocksConn.** `ready` is asyncio's queue of tasks that can run, `RunTask` the first
of them up to its next await that suspends. `DataReceived` takes any prefix of the
bytes under way, so that every handshake is cut at every place. Handlers are
guarded alternatives on the buffer; replies are named, addresses and names are
byte sequences. `clock` chooses whether `loop.time().to_bytes` (conn.py:48) works:
as the code is, it raises, no session is opened, and the connection stays open.

**FrameCodec.** Bytes are numbers below `Base` and the widths of the fields are
constants: with a base of 4 and fields of one byte the limits of the format come
within reach. What the code does in a loop is a function of the number of rounds
(`writer` in `Plaintext`, `read` in `Decoded`, `total` in `Total`). A bytearray that is written beyond its end grows and a `pack_into`
beyond its end raises, which is what makes miscounted targets matter. Encryption
is an envelope that opens or does not.

**Program.** One module for both programs, since they are copies of each other with
different fields: `how` chooses role and mode. A file is absent, torn, or a config.
`stage` is where the program is; the shells' prompts block the event loop, so a
menu entry is one step, except for saving, which truncates the file first and may
be interrupted. `_daemonize` to `_remove_pidfile` are the steps of `Daemon.start`;
signals, kills, another daemon of the same kind and systemd come in between.

What the models take as "used", where the code calls a library:

* `VirtualConn.open` computes `loop.time().to_bytes(...)` (conn.py:48), and
  `loop.time()` is a float, which has no `to_bytes`: as written, the call raises,
  `handle_new_conn` logs it and no session is ever opened. `SocksConn` has both
  outcomes; `Carrier!Open` models the lines behind it, with a fresh identifier,
  since everything else would be unreachable.
* `AESGCM.generate_nonce()` (crypto.py:85) does not exist in `cryptography` either;
  `seal` is taken to seal.
* `asyncio.open_connection(..., connector=...)` (exit/server.py:223) raises
  `TypeError`. This is the outcome `raised` of a dial: the upstream worker ends, the
  session stays and the client hears nothing. The other outcomes are what the code
  is written for.
* A cancelled POST, and one that times out after `pollTimeout`, end in one of
  `Carrier`'s outcomes; aiohttp raises nothing `FrontedClient.post` does not catch.
* Names of targets, users and passwords are taken to be valid UTF-8 in `SocksConn`.

Consequences worth knowing when reading the models:

* `tx_event` is set and cleared but no task waits for it; workers wait for
  `_global_event`, which only `get_or_create` sets. Data on an open session waits
  for the 10 ms timeout of the idle wait.
* `batch_size` bounds the frames *per session* in one drain (client.py:282), not
  those of a request: a worker with n sessions posts up to n times as many,
  although the repository's README.md:30 and :153 say "1–64 frames per HTTP request"
  and "per request". It follows from `DrainAndPost`; no run restates it.
* An empty reply that decodes, which shrinks the batch size in `ReplyOk`, is a
  thing the server never sends: its idle reply is the unsealed one of
  `carrier_idle_reply`.
* Nothing acquires the semaphore of exit/server.py:40, so `Locked` is false unless
  the limit is 0; the branch is modelled all the same.
* A frame longer than `MaxFramePayload` never fits into a batch: it is drained and
  rolled back for ever, with everything behind it (client.py:287). asyncio hands a
  protocol up to 256 KiB at a time, exactly the limit, to which the header is added.
  Frames that fit one by one but not all together do the same. Such sessions are
  `Oversized`: `QueuesDrain` says that nothing else stops a queue from draining.
* Workers of two endpoints carry consecutive batches of one session at the same
  time (client.py:280) and the server ignores `seq`. With one endpoint the same happens
  to a session that changes worker because one in front of it was removed
  (client.py:256), and to one whose request is given up after 120 s and arrives behind
  the next (client.py:218). `InOrder` and `UploadsInOrder` except exactly the sessions to
  which that happened (`raced`), and `InOrder` says that with one endpoint there is no
  other way; `OneCarrierPerSession` and `Fifo` speak of one endpoint.
* Idle sessions are collected 30 s into a poll loop that ends after 8
  (exit/server.py:180), so never.
* `marshal()` (frame.py:98–144) writes the header into a copy (`buf[offset:]` of a
  bytearray) and is used only when `encode_batch` raises for a reply
  (exit/server.py:189); server frames have no target and a reply has fewer than 65536
  of them while the pool holds fewer than 8192 sessions, so by `EncodesUnless` that
  does not happen. `unmarshal` and `marshal_batch` have no caller.
* While compression is skipped, batches too small to be compressed count as well,
  and a recheck that falls to one of them is used up: between two tries there may be
  more than the 10 batches of README.md:152. `SkippingBounded` bounds the big batches
  that follow one another without a small one in between.
* connection_lost (socks/server.py:88) makes the coroutine `close()` and drops it:
  when an application hangs up no FIN is sent and the session stays in both pools.
  The handshake buffer goes on growing with the data of the connection (:92), bytes
  that come in one piece behind a handshake message are dropped with it, and the
  success is written before anything has been opened (:201).
* The client's `run_all` (shell.py:326) waits for two coroutines that only create
  tasks, so the tunnel stops as soon as it has started, behind the message "Press
  Ctrl+C to stop" (:323), and `--start` and `--daemon` do the same. The systemd units
  are of `Type=simple` with a program that forks away (astrix-server.service:8),
  although README.md:101 calls `--daemon` the "Daemon (systemd mode)": for systemd the
  service ends with the first process, the daemon gets a SIGTERM, and the unit is
  started again, over and over. `TunnelDone`, `UnitEnds` and `UnitRestarts` are these
  steps; no property restates them.
* `relay_urls` are lost when a config is saved, and the carrier ignores them. The
  server saves its proxy as host and port, which its loader rejects, and not
  `initial_response_bytes_pre_encode`. What the environment sets is not validated;
  an empty list of SNI hosts makes fronting.py:98 divide by zero. A key of 64
  characters with blanks passes the loaders and not `Crypto`.
* The wizard replaces the config before it has asked everything; a number that
  is none ends the program at any prompt; a Ctrl+C at a prompt of the server's shell
  is kept and ends the next start of the server.
* The daemon does not look at what its main task raised and exits with status 0, unless
  a shutdown has begun by the time the task fails: then it is raised again and the
  daemon ends with a traceback. `Program` has status "ok" in both cases.

## 3. Runs

All bounds are in the `.cfg` files. Deadlock checking is off, except in `codec`: a tunnel
without work may rest, a stopped carrier or program stops, and the bounds on
writes, reads, edits and accepted frames end behaviours that the program would
continue.

| Run | Question | Instance | Distinct states |
|---|---|---|---|
| `carrier_fifo` | `TypeOK`, `OneCarrierPerSession`, `Fifo`, `ImplementsStream`: are sessions shared out and delivered as FIFO channels? | 3 sessions, 2 workers, 1 endpoint, replies that fill or empty a batch | 866,000 |
| `carrier_faults` | `InOrder`, `QueuesAccounted`, `QueueIsTail`: what survives failed, throttled, garbled, blank and late POSTs, torn rollbacks, dead endpoints, the watchdog and a stop? | 2 sessions that share 1 worker, batches too small for a full drain | 2,458,000 |
| `carrier_live` | `InOrder`, `QueuesDrain`, `AllDelivered`: when does one endpoint race with itself, what may block a queue, and does everything get there? | 2 sessions over 2 workers, POSTs that fail, data frames of 3 and 4 bytes for batches of 3, fairness | 150,000 |
| `exit_streams` | `TypeOK`, `ServesStream`, `WritesInOrder`, `NoLostWakeup`, `EndsOnce`, `ClosesPropagate`: both directions of a session | 2 handlers at once, batches in any order, every outcome of a dial | 257,000 |
| `tunnel_order` | `SendsSegments`, `UploadsInOrder`, `DownloadsInOrder`: client and server together, both directions end to end | 1 session, 2 endpoints, 2 handlers, POSTs that fail or come late, replies that are lost | 863,000 |
| `health` | `TypeOK`, `RevivalsScheduled`, `DeadForBackoff`, `OversleepsBackoff`, `ImplementsFailover`, `Recovers`: the clocks of failover | 1 endpoint, 2 workers, backoffs 1, 2, 4, 7, health ticks every 3 | 361,000 |
| `socks` | `TypeOK`, `HandshakeWhole`, `Answered`, `DataInOrder`, `FinAnswered`: one SOCKS connection | 8 applications, with and without authentication, every cut of the bytes, 2 responses | 42,000 |
| `codec` | `TypeOK`, `RoundTrip`, `EncodesUnless`, `SkippingBounded`: bytes and frames | base 4, batches of 1 to 4 frames at the limits of each field | 60,000 |
| `program` | `TypeOK`, `LoadedIsValid`, `SavedReloads`, `PathFollowsConfig`, `PidfileHonest`, `StopsWhenTold` | 2 roles, 3 modes, with and without systemd, 4 files, up to 5 environments, 2 edits | 74,000 |
| `carrier_duplicates` | violation of `NoDuplicates` | batches of 3 bytes, 2-frame drains | |
| `carrier_idle_reply` | violation of `WorkersSurvive` | replies that do not decode | |
| `tunnel_stalls` | violation of `DownloadsArrive` | 1 session, 1 worker, fairness | |

Why the bounds are enough. The properties are about one session, or about two
that compete for workers and for room in a batch: 3 sessions over 2 workers
give one worker two sessions and make positions wrap around. SYN, data and FIN
are three frames, enough for a batch to be cut before, between and behind them,
at drains of one to three frames. Sizes are scaled (a header of 1 byte, limits of
3 or 8 bytes) so that a batch overflows in the middle of a snapshot in some runs
and never in others. `carrier_faults` has two sessions share a worker,
`carrier_live` two workers, so that a session that moves meets another worker.
`MaxConsecutiveFailures` is 1, so that endpoints die within the bound. On the server two handlers are enough for two polls to race for a
queue; `LongPollWindow` 1 and `GcInterval` 3 keep the order of 8 s and 30 s.
`exit_streams` has one upstream worker per session (`MaxConn` = 1);
`ExitServesStream` is proved for any number, and `WritesInOrder`, `NoLostWakeup` and
`EndsOnce` speak of sessions with one. `tunnel_order` has one session, two endpoints and
two handlers, so that requests and replies of a session do race, and `MaxConn` 1. It
leaves the outcomes `throttled` and `blank` out: they differ from `error` in the
failure count, in where the worker goes on, and in removing no session, and
`carrier_faults` has them; the theorems about `Tunnel` cover all outcomes.

In `health` the backoff starts below the health interval and ends above twice
that, so that a dead endpoint meets no tick, one tick or several; the watchdog's
idle time is two of its intervals. The theorems hold for all
values. In `socks` the data of an application is three bytes in two pieces, one
for the loop while it drains and one while it waits; the responses put data
before and behind the FIN. In `codec` `CompressMinSize` is scaled, so that
small and big batches mix between two tries; the 3 and the 10 are the code's. In
`program` two edits are an edit and the save of it.

Fairness. `Carrier`: each worker's own steps, the arrival of a POST, the reply
to a POST (aiohttp's total timeout ends every one), the cancellation of
a stopped worker, and a revive that was scheduled. `ExitServer`: the polls of a
handler, dials, which end, the writer, and the supervisor. `Tunnel`: the same, and
that requests and replies get through or fail. `EndpointHealth`: time passes, what
is due happens, and a POST ends, since each has a timeout. `SocksConn`: the loop
runs what is ready and reads what has arrived; in addition an application that
is answered goes on. `Program`: its own steps once it has been started; not
what a user types, nor signals, nor systemd. It is weak fairness throughout: the event loop
runs every task that is ready, sleeps end. A writer in `drain` goes on because the
target reads or its connection breaks. Nothing is assumed of what clients or
targets send, and in `Carrier` nothing of the health loop and the watchdog.

`QueuesDrain` and `AllDelivered` assume that endpoints stay alive eventually
(`Recovers` shows that every death ends, not that none follows). In `carrier_live`
a data frame of 4 bytes never fits, and one of 3 not beside another: `QueuesDrain`
excepts such states (`Oversized`). Replies are empty there, so that nothing closes; the
FIN is in the other runs. `AllDelivered` assumes in addition that no mishap occurs,
since the carrier never sends again, and that nothing is `Oversized`.

### Findings

1. **Frames sent twice** (`carrier_duplicates`, client.py:287). When a snapshot
   does not fit, `_drain_all` rolls all of it back, although its first frames are
   in the batch already. The server reads them twice; a second SYN starts a
   second connection.
2. **Workers that die** (`carrier_idle_reply`, client.py:231). A reply that does not
   decode raises out of the loop: the server's reply to an idle poll, or an error
   text that Apps Script returns with status 200.
3. **Downloads that stall** (`tunnel_stalls`, client.py:202). A client without
   anything to send does not POST, so it never fetches what the server has for it.
   `idle_slots_per_bucket`, which README.md:178 calls "Concurrent idle polls", is read,
   validated, edited and saved, and used nowhere.

## 4. Proofs

| Theorem | Module | States, for every value of the constants |
|---|---|---|
| `RollbackUndoesDrain` | SessionPoolProofs | a rollback restores the session its drain took from, exactly |
| `TypeCorrect` | CarrierProofs | `TypeOK`; batch sizes keep their limits |
| `Accounting` | CarrierProofs | `QueuesAccounted` |
| `TailKept` | CarrierProofs | `QueueIsTail` |
| `SharesDisjoint` | CarrierProofs | `OneCarrierPerSession` |
| `FifoChannel` | CarrierProofs | `Fifo` |
| `CarrierImplementsStream` | CarrierProofs | `ImplementsStream` |
| `ReadsInOrder` | CarrierProofs | `InOrder` |
| `ExitTypeCorrect` | ExitProofs | `TypeOK` of ExitServer |
| `ExitServesStream` | ExitProofs | `ServesStream` |
| `UpstreamInOrder`, `WakeupsKept`, `EndedOnce` | ExitProofs | `WritesInOrder`, `NoLostWakeup`, `EndsOnce` |
| `HealthTypeCorrect` | HealthProofs | `TypeOK` of EndpointHealth |
| `DeadInTime` | HealthProofs | `DeadForBackoff` |
| `SleepsAtMostBackoff` | HealthProofs | `OversleepsBackoff` |
| `RevivalsBounded` | HealthProofs | `RevivalsScheduled` |
| `FailoverRefined` | HealthProofs | `ImplementsFailover` |
| `SegmentsOnly` | TunnelProofs | `SendsSegments` |
| `UploadsKept`, `DownloadsKept` | TunnelProofs | `UploadsInOrder`, `DownloadsInOrder` |
| `SocksTypeCorrect` | SocksProofs | `TypeOK` of SocksConn |
| `HandshakesWhole` | SocksProofs | `HandshakeWhole` |
| `DataKept` | SocksProofs | `DataInOrder` |
| `RoundTripKept` | CodecProofs | `RoundTrip`: decoding inverts encoding |
| `EncodesExactly` | CodecProofs | `EncodesUnless`: what raises, and the length of what does not |
| `SkippingKept` | CodecProofs | `SkippingBounded` |
| `CodecTypeCorrect` | CodecProofs | `TypeOK` of FrameCodec |
| `ProgramTypeCorrect` | ProgramProofs | `TypeOK` of Program |
| `LoadedKept`, `SavedKept` | ProgramProofs | `LoadedIsValid`, `SavedReloads` |
| `PidfileKept` | ProgramProofs | `PidfileHonest` |
| `PathKept` | ProgramProofs | `PathFollowsConfig`, of every step |

Assumptions: `SizesAssumption`, `CarrierAssumption`, `ExitAssumption` and
`HealthAssumption`, which type the constants, and nothing else; `MaxWrites`, `MaxRecvd`,
`MaxAccepted` and the other bounds are arbitrary natural numbers in the proofs.
`TunnelAssumption` gives both programs of a tunnel the same sessions, finitely many,
and payloads of one length: `Tunnel` compares frames by number and kind.
`SocksAssumption` says of the applications that each is a well-formed conversation of
RFC 1928 and 1929, made of bytes, with addresses as long as their type says, and of the responses that they are
sequences of frames. `CodecAssumption` gives the base, the widths and the limits their
types, and says of the alphabet that no character's bytes begin another's, which UTF-8 has by
design; the batches are any sets of any frames. `ProgramAssumption` gives the fields of configs, variables and
answers their Python types (`ClientConfig`, `ServerConfig`, `EnvFields`), says that the
empty string is no deployment id and that units run daemons. What files hold within
those types, and how long their lists are, is arbitrary.

The arguments:

* *Queues.* `SessionPoolProofs` shows that the prefix a drain takes and the rest
  it leaves make up the queue, and how byte counts add up. `Accounting` and
  `TailKept` are inductive with `TypeOK` given those lemmas: after a rollback the
  queue is the old one, after a drain a shorter tail.
* *Sharing.* `OneCarrierPerSession` is not inductive. `OrderInv` adds that a session
  never opened has left no trace (`Unborn`), that creation numbers only grow
  (`BornBound`), that a worker holds frames only while it posts (`AtPost`), only of
  sessions that are its own while none has left the pool (`Owned`), and that
  nothing is overdue unless a POST was late (`Timely`). A new session comes behind
  all others, so no worker's share changes; two workers of one endpoint have
  different remainders.
* *Order.* `Line(s)` is what the server has read of `s`, then the one batch on
  its way, in a POST or in one that was given up, then the queue. `Lines` says of a
  session that never raced that this batch is unique (`Alone`). Each step extends the
  line at its end in step with `sent`, leaves it alone, or, when a POST is lost, cuts
  the batch out of it; giving a request up and its late arrival leave it alone, since
  the next drain would have raced. So while nothing is lost the line is `sent`, and
  with losses it stays strictly increasing in rank (`Ranked`, with `SeqBound` to place the
  FIN last), unless a rollback was torn. `NoRace` is where sharing comes in: two workers
  of one endpoint carry the same session only if one has moved, and nothing is overdue
  unless a request was given up. Together they give `InOrder`, and without a mishap
  `LineIsStream`, whence `Fifo` and the refinement of `Stream`.
* *Exit server, towards the client.* `DownLine`: frames taken, then the queue, are
  the frames produced. Every step drains queues into replies or appends a frame,
  or neither, so the replies are a prefix of what was produced, and `Stream` is
  implemented whatever the number of handlers and workers.
* *Exit server, towards the target.* `UpInv` has the states of the three tasks fit
  together (`WorkerInv`), a session without a worker be untouched (`Fresh`), and for
  the only worker of a session (`Single`): written frames and queue are what was
  accepted, a waiting writer has an empty queue, and before its first turn frames
  in the queue have the event set. The last conjunct is why clearing the event
  before the pops loses no wakeup. An end of stream is the last frame produced and
  its reader is done, which is why a second one cannot follow.

* *Endpoint health.* `DeadForBackoff` is not inductive: it says nothing of the
  revive task that will end the death. `Timely` adds it: a dead endpoint has a task,
  yet to start when the death is new, whose remaining sleep and the age of the
  death together are at most the backoff. Ticks keep the sum, since what is left
  shrinks as the age grows; a second task never makes it worse, and a revive task
  that doubles the backoff only widens the bound. `Rested` is the same for the sleep of
  a worker. `Gaps` says that the remaining sleeps of two tasks of an endpoint differ
  by at least a health interval, as backoffs never shrink and starts are an
  interval apart; an injection of tasks times interval into the ticks up to the
  longest backoff and one interval more (`SpacedAreFew`) turns that into the bound
  on their number. `FailoverStep` maps every action to a step of `Failover` or a stutter.

* *Tunnel.* Every step of `Tunnel` is a step of the carrier and one of the exit
  server, or leaves one of them alone, so the invariants of `CarrierProofs` and
  `ExitProofs` hold of the two parts (`CP` and `XP` are instances of those modules).
  `SegmentsOnly` is needed for that: what is on a wire is made of segments, because
  a drain takes a stretch of a queue that is a tail of what was sent.
  `UploadInv` says of a session that never raced, without a torn rollback, that the
  server has accepted what the carrier counts as read, once that began with a SYN:
  `Arrive` and `ArriveLate` are both at once, and what arrives is the batch of `Line(s)`,
  which is in order by `Lines`. With what `UpInv` says of the frames behind, the carrier's order
  becomes that of the written frames. `LinkInv` makes sure that a reply has a worker
  that waits for it and no other handler; `DownloadInv` has what was got, the one
  reply on its way and the server's queue make up what was produced.
* *SOCKS, tasks.* `Typed`, `Tasks` and `Fits` say which tasks can be ready and how often:
  the one that opens, at most once; drain and read loop once; and one write for each
  piece of data that came in before. `HandshakeInv` compares with `Conversation`, the
  stages of one handshake: what is in the buffer and what is under way are together
  the message of that stage, so a handler sees a beginning of it, and reads all of it or
  waits, however the bytes were cut.
* *SOCKS, data.* Upwards, what has been sent is one line: payloads of frames that left,
  of frames in `tx_q`, chunks in `tx_queue`, then the data that ready tasks hold, in
  their order. Each task moves a piece across one border of that line. Downwards,
  `Served`, `Taken` and `Download` do the same for frames up to the FIN. The lemmas about
  putting sequences behind one another (`ConcatAppended`, `ConcatJoined`, `Held...`)
  are by induction on their number.
* *Codec.* `Holds(p, off, b)` says that `p` has the bytes `b` at `off`. `PutFacts` and `PackFacts`
  show that a write leaves what is in front of it alone, and `AddFrameFacts` that a
  frame is added exactly when its numbers fit (`NumbersFit`) and its header ends within the
  bytearray, and lies then at its offset field by field (`FrameHeld`). By induction on the number
  of frames (`Written`) the offset is the sum of the encoded lengths so far; each header
  ends behind the one before, so the last decides, and the sums differ by `Surplus`
  (`RoomIsEncodable`). That gives `EncodesUnless`. On the way back `ReadFrameFacts` reads
  each field where it lies: big-endian numbers that fit come back
  (`BigEndianFacts`), and so do texts, because a character that is part read is none yet (`CharRead`,
  `Utf8Inverse`). Induction on the frames read (`IsRead`) gives `DecodedFacts`, which with
  `BatchInv` is `RoundTrip`. A recursive function of the model is one that is
  chosen; that there is one to choose (`TraceExists`, `FunctionExists`) is proved as well.
* *Adaptive compression.* `SkippingBounded` is not inductive: `SkipInv` adds that until
  skipping starts the counter is the number of failures, and that afterwards the big batches
  not tried are fewer than its place modulo `RecheckAfter`, or than `RecheckAfter` at
  place 0, where the next big one is tried. Small batches move the place on too, and
  reset the count. `PlaceMoves` shows that setting the counter of the model back keeps its place.
* *Programs.* `LoadedIsValid` is inductive with types. Its weight is in what
  `_parse_script_keys` does to a list of any length: by induction on the ids read so
  far, those noted are in normal form and differ (`Parsed`), and a list that is so
  already is left as it is (`ParsedAgain`, for which `NormalForm` says that the
  normal form of an id that is one word is itself). `SavedReloads` needs `Kept`, that a
  saved file holds the dump of its config until it is opened again, and then is a fact about
  dumping and loading (`ClientReloads`, `ServerReloads`), in both directions.
  `PidfileHonest` needs `Owned`: from the step that writes the pidfile to the one that
  removes it the daemon owns it, and a daemon that has ended with its pid still in it
  was killed or never had handlers. `Modes` says which stages belong to which mode, and
  `Saving` that a file is torn exactly while it is open, which `TypeOK` rests on.

Every invariant and every action property that a passing run checks is the
statement of a theorem. Model-checked only are the liveness properties (`QueuesDrain`,
`AllDelivered`, `ClosesPropagate`, `Recovers`, `Answered`, `FinAnswered`, `StopsWhenTold`), as liveness
and `ENABLED` are out of the prover's reach. Induction over data is not: `Least` and `Induct` follow from the well-foundedness of the natural numbers, and
the sums of `SocksConn`, the list of ids of `Program` and the folds of `FrameCodec` are
treated that way. `BatchInv` and `SkipInv` hold in all states of the run `codec`.

## 5. Not modelled, and the plan

| Left out | Why |
|---|---|
| ACK and RST frames from a client | the client has no code that sends them |
| quality scores, diagnostics, logging, `Stats` | nothing is decided by them (`_best_endpoint` is only logged) |
| AES-GCM, base64, Zstd themselves | payloads are opaque; whether an envelope opens and a batch shrinks are outcomes |
| DNSCache | instantiated and never used |
| FrontedClient's rotation of SNI hosts, connection reuse | changes which edge carries a POST, not what becomes of it |
| Apps Script | stateless; its effect on a POST is among the outcomes of one |
| status, statistics, diagnostics and about pages of the shells | they print |
| `debug_timing`, account labels, hosts | copied, never looked at |
| the limit of 4096 chunks of a VirtualConn's queue | `write` waits there; no bound in reach fills it |
| cancelled SOCKS connections at the end of a program | the process ends with them |

Possible next steps, in order of worth:

1. `Answered` and `FinAnswered` split into a safety part (what is ready stays ready until
   it runs) and a liveness part that TLC checks.
2. A VirtualConn with a full queue, and two SOCKS connections over one `Carrier`.
