---------------------------- MODULE SessionPool ----------------------------
(***************************************************************************)
(* The Session object and the queue operations of its pool, as operators   *)
(* on session records (session/session.py, the same file on both sides).   *)
(*                                                                         *)
(* Every pool coroutine takes the session's striped asyncio.Lock, but none *)
(* of them awaits anything while it holds one, and the program runs on one *)
(* event loop: a lock is never contended, no pool operation suspends its   *)
(* caller, and each is one atomic state change.                            *)
(***************************************************************************)
EXTENDS Integers, Sequences, FiniteSets

CONSTANTS
    Sid,           \* session identifiers
    MaxPayload,    \* the longest payload a frame carries, in bytes
    HeaderLen,     \* bytes of a frame around its target and payload (30)
    TargetLen      \* bytes of the target a SYN frame names

ASSUME SizesAssumption ==
    /\ MaxPayload \in Nat
    /\ HeaderLen \in Nat
    /\ TargetLen \in Nat

(* A frame.  Only a SYN carries a target; RST comes from the exit server.  *)
Frame == [session_id : Sid,
          flags      : {"SYN", "DATA", "FIN", "RST"},
          seq        : Nat,
          payload    : 0..MaxPayload]

Syn(s)          == [session_id |-> s, flags |-> "SYN",  seq |-> 0, payload |-> 0]
Data(s, n, len) == [session_id |-> s, flags |-> "DATA", seq |-> n, payload |-> len]
Fin(s)          == [session_id |-> s, flags |-> "FIN",  seq |-> 0, payload |-> 0]
Rst(s, len)     == [session_id |-> s, flags |-> "RST",  seq |-> 0, payload |-> len]

(* Frame.encoded_len: the bytes a frame takes in a batch.                  *)
EncodedLen(f) ==
    HeaderLen + (IF f.flags = "SYN" THEN TargetLen ELSE 0) + f.payload

(* Sums over the frames of a queue, as the number of its bytes: byte b of  *)
(* the i-th frame is the pair <<i, b>>.  Counting needs no recursion, so   *)
(* what these sums are can be proved for every queue.                      *)
PayloadBytes(q) ==
    Cardinality({x \in (1..Len(q)) \X (1..MaxPayload) : x[2] <= q[x[1]].payload})

(* The bytes the first k frames of q take in a batch.                      *)
EncodedBytes(q, k) ==
    Cardinality({x \in (1..k) \X (1..(HeaderLen + TargetLen + MaxPayload)) :
                    x[2] <= EncodedLen(q[x[1]])})

(***************************************************************************)
(* The part of a Session the pool's operations touch.                      *)
(***************************************************************************)
Session == [seq      : Nat,
            tx_q     : Seq(Frame),
            rx_q     : Seq(Frame),
            tx_bytes : Nat,
            tx_event : BOOLEAN,
            rx_event : BOOLEAN]

(* The byte count and the events of a session agree with its queues.       *)
Accounted(s) ==
    /\ s.tx_bytes = PayloadBytes(s.tx_q)
    /\ s.tx_event <=> s.tx_q # <<>>
    /\ s.rx_q # <<>> => s.rx_event

NewSession == [seq |-> 0, tx_q |-> <<>>, rx_q |-> <<>>, tx_bytes |-> 0,
               tx_event |-> FALSE, rx_event |-> FALSE]

EnqueueTx(s, f) ==
    [s EXCEPT !.tx_q = Append(@, f),
              !.tx_bytes = @ + f.payload,
              !.tx_event = TRUE]

EnqueueRx(s, f) ==
    [s EXCEPT !.rx_q = Append(@, f),
              !.rx_event = TRUE]

(* The frames drain_tx_limited_txn takes, and the queue it leaves.         *)
SnapshotLen(s, max_frames) ==
    IF max_frames < Len(s.tx_q) THEN max_frames ELSE Len(s.tx_q)

Snapshot(s, max_frames) == SubSeq(s.tx_q, 1, SnapshotLen(s, max_frames))

(* Mutations: the last frame taken stays behind; the queue is cleared.     *)
UndrainedOffByOne(s, max_frames) ==
    SubSeq(s.tx_q, IF s.tx_q = <<>> THEN 1 ELSE SnapshotLen(s, max_frames), Len(s.tx_q))
UndrainedCleared(s, max_frames) == <<>>

Undrained(s, max_frames) ==
    SubSeq(s.tx_q, SnapshotLen(s, max_frames) + 1, Len(s.tx_q))

DrainTx(s, max_frames) ==
    LET left == s.tx_bytes - PayloadBytes(Snapshot(s, max_frames))
    IN  IF s.tx_q = <<>>
        THEN s
        ELSE [s EXCEPT !.tx_q = Undrained(s, max_frames),
                       !.tx_bytes = IF left > 0 THEN left ELSE 0,
                       !.tx_event = Undrained(s, max_frames) # <<>>]

(* Mutations: a rollback to the tail; one that forgets the byte count.     *)
RollbackToTail(s, frames) ==
    [s EXCEPT !.tx_q = @ \o frames,
              !.tx_bytes = @ + PayloadBytes(frames),
              !.tx_event = @ \/ frames # <<>>]
RollbackUncounted(s, frames) ==
    [s EXCEPT !.tx_q = frames \o @,
              !.tx_event = @ \/ frames # <<>>]

(* rollback_drain: the whole snapshot goes back to the head of the queue.  *)
RollbackDrain(s, frames) ==
    [s EXCEPT !.tx_q = frames \o @,
              !.tx_bytes = @ + PayloadBytes(frames),
              !.tx_event = @ \/ frames # <<>>]
=============================================================================
