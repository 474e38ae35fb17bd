----------------------------- MODULE FrameCodec -----------------------------
(***************************************************************************)
(* How batches of frames become bytes and frames again (frame/frame.py and *)
(* crypto/crypto.py, of which both packages hold a copy): one side encodes *)
(* a batch, the other decodes it.  Encryption and base64 are external: an  *)
(* envelope opens to what was sealed, or it does not open.                 *)
(*                                                                         *)
(* Bytes are numbers below Base, and the widths of the fields are          *)
(* parameters, so that small instances reach every limit of the format.    *)
(* A character is the tuple of its UTF-8 bytes.                            *)
(***************************************************************************)
EXTENDS Integers, Sequences, SequencesExt, FiniteSets

CONSTANTS
    Base,                                \* 256
    SessionIDLen, ClientIDLen,           \* 16, 16
    SeqWidth, CountWidth, SizeWidth,     \* 8, 2, 4 bytes
    Chars,                               \* characters: tuples of bytes
    Batches,                             \* what encode_batch is called with
    ClientId,
    CompressMinSize,                     \* 512
    SkipCompressionAfter,                \* 3
    RecheckAfter                         \* 10

ASSUME CodecAssumption ==
    /\ Base \in Nat \ {0, 1}
    /\ {SessionIDLen, ClientIDLen, SeqWidth, CountWidth, SizeWidth} \subseteq Nat \ {0}
    /\ SkipCompressionAfter \in Nat \ {0} /\ RecheckAfter \in Nat \ {0}
    /\ CompressMinSize \in Nat
    /\ ClientId \in [1..ClientIDLen -> 0..(Base - 1)]
    /\ Chars \subseteq Seq(0..(Base - 1))
    /\ \A c, d \in Chars : ~IsStrictPrefix(c, d) /\ c # <<>>
    /\ Batches \subseteq Seq([session_id : [1..SessionIDLen -> 0..(Base - 1)], seq : Nat,
                             flags : 0..(Base - 1), target : Seq(Chars),
                             payload : Seq(0..(Base - 1))])

VARIABLES
    skip_counter, skip_active,    \* the encoder's _adaptive_skip_*
    batch,                        \* what was encoded last
    wire,                         \* its envelope, or None
    got,                          \* what was decoded from it
    status,                       \* "idle", "raised", "sealed", "decoded", "rejected"
    failures, untried             \* history: failed tries of Zstd in a row;
                                  \* big batches in a row it was not tried on
adaptive == <<skip_counter, skip_active, failures, untried>>
vars == <<adaptive, batch, wire, got, status>>

Byte == 0..(Base - 1)
Smaller(a, b) == IF a < b THEN a ELSE b
----------------------------------------------------------------------------
(* Python's bytearrays and struct.                                         *)
Power[n \in Nat] == IF n = 0 THEN 1 ELSE Base * Power[n - 1]

BigEndian[width \in Nat] ==
    [n \in Nat |-> IF width = 0 THEN <<>>
                   ELSE Append(BigEndian[width - 1][n \div Base], n % Base)]

Unpacked(bytes) ==
    LET value[n \in 0..Len(bytes)] == IF n = 0 THEN 0 ELSE value[n - 1] * Base + bytes[n]
    IN  value[Len(bytes)]

Slice(bytes, off, n) ==
    SubSeq(bytes, off + 1, Smaller(off + n, Len(bytes)))

(* A bytearray under construction.  Assigning to a slice beyond its end    *)
(* makes it longer; pack_into and an index beyond its end raise.           *)
Writer(size) == [buf |-> [i \in 1..size |-> 0], off |-> 0, ok |-> TRUE]

Put(w, bytes) ==
    LET end == Smaller(w.off + Len(bytes), Len(w.buf))
    IN  [w EXCEPT !.buf = Slice(@, 0, w.off) \o bytes \o SubSeq(@, end + 1, Len(@)),
                  !.off = @ + Len(bytes)]
Pack(w, n, width) ==
    IF n < Power[width] /\ w.off + width <= Len(w.buf)
    THEN Put(w, BigEndian[width][n])
    ELSE [w EXCEPT !.ok = FALSE]
----------------------------------------------------------------------------
(* frame.py.                                                               *)
Frame == [session_id : [1..SessionIDLen -> Byte], seq : Nat, flags : Byte,
          target : Seq(Chars), payload : Seq(Byte)]

Utf8(target) == FlattenSeq(target)

FieldsLen == SessionIDLen + SeqWidth + 1 + 1 + SizeWidth

EncodedLen(f)  == FieldsLen + Len(Utf8(f.target)) + Len(f.payload)

(* Mutation: the size leaves the target out.                               *)
MarshalSizeBare(f) == FieldsLen + Len(f.payload)

(* The size counts characters, marshal_into writes bytes.                  *)
MarshalSize(f) == FieldsLen + Len(f.target) + Len(f.payload)

(* Mutation: the flags are written behind the length of the target.        *)
MarshalIntoSwapped(w, f) ==
    LET tb  == Utf8(f.target)
        id  == Pack(Put(w, f.session_id), f.seq, SeqWidth)
        tgt == Put(Pack(Pack(id, Len(tb), 1), f.flags, 1), tb)
    IN  Pack(tgt, Len(f.payload), SizeWidth)

MarshalInto(w, f) ==
    LET tb  == Utf8(f.target)
        id  == Pack(Put(w, f.session_id), f.seq, SeqWidth)
        tgt == Put(Pack(Pack(id, f.flags, 1), Len(tb), 1), tb)
    IN  Pack(tgt, Len(f.payload), SizeWidth)
----------------------------------------------------------------------------
(* encode_batch, up to the plaintext: one bytearray of the size announced. *)
Total(numbers) ==
    LET total[n \in 0..Len(numbers)] == IF n = 0 THEN 0 ELSE total[n - 1] + numbers[n]
    IN  total[Len(numbers)]

PlainSize(frames) ==
    1 + ClientIDLen + CountWidth
        + Total([i \in DOMAIN frames |-> SizeWidth + MarshalSize(frames[i])])

AddFrame(w, f) == Put(MarshalInto(Pack(w, MarshalSize(f), SizeWidth), f), f.payload)

Plaintext(frames) ==
    LET header == Pack(Put(Put(Writer(PlainSize(frames)), <<0>>), ClientId),
                       Len(frames), CountWidth)
        writer[n \in 0..Len(frames)] ==
            IF n = 0 THEN header ELSE AddFrame(writer[n - 1], frames[n])
    IN  writer[Len(frames)]

TooMany(frames) == Len(frames) > Power[CountWidth] - 1

(* The counter goes on counting for ever; only whether it has reached      *)
(* _skipCompressionAfter and its place modulo _recheckAfter matter.        *)
Counted(n) ==
    IF n + 1 < SkipCompressionAfter + RecheckAfter THEN n + 1 ELSE n + 1 - RecheckAfter

(* Mutation: compression is not tried again.                               *)
ShouldCompressOnce(size) == size - 1 >= CompressMinSize /\ ~skip_active

ShouldCompress(size) ==
    /\ size - 1 >= CompressMinSize
    /\ ~skip_active \/ skip_counter % RecheckAfter = 0

(* Mutation: a success clears the counter only.                            *)
CompressHalfReset(shrinks) ==
    /\ untried' = 0
    /\ skip_counter' = IF shrinks THEN 0 ELSE Counted(skip_counter)
    /\ skip_active' = (skip_active \/ Counted(skip_counter) >= SkipCompressionAfter)
    /\ failures' = IF shrinks THEN 0 ELSE Smaller(failures + 1, SkipCompressionAfter)

(* Zstd is tried, and makes the batch shorter or not.                      *)
Compress(shrinks) ==
    /\ untried' = 0
    /\ IF shrinks
       THEN skip_counter' = 0 /\ skip_active' = FALSE /\ failures' = 0
       ELSE /\ skip_counter' = Counted(skip_counter)
            /\ skip_active' = (skip_active \/ Counted(skip_counter) >= SkipCompressionAfter)
            /\ failures' = Smaller(failures + 1, SkipCompressionAfter)

(* It is not tried: small batches count as well while it is skipped.       *)
Skip(size) ==
    /\ skip_counter' = IF skip_active THEN Counted(skip_counter) ELSE skip_counter
    /\ untried' = IF size - 1 >= CompressMinSize THEN untried + 1 ELSE 0
    /\ UNCHANGED <<skip_active, failures>>

Encode(frames) ==
    LET plain == Plaintext(frames)
        size  == Len(plain.buf)
    IN  /\ status = "idle"
        /\ batch' = frames
        /\ \/ /\ TooMany(frames) \/ ~plain.ok
              /\ status' = "raised"
              /\ UNCHANGED <<adaptive, wire>>
           \/ /\ ~TooMany(frames) /\ plain.ok
              /\ status' = "sealed"
              /\ \/ \E shrinks \in BOOLEAN :
                       /\ ShouldCompress(size) /\ Compress(shrinks)
                       /\ wire' = [flag |-> IF shrinks THEN "zstd" ELSE "raw",
                                   body |-> Tail(plain.buf)]
                 \/ /\ ~ShouldCompress(size) /\ Skip(size)
                    /\ wire' = [flag |-> "raw", body |-> Tail(plain.buf)]
        /\ UNCHANGED got
----------------------------------------------------------------------------
(* What may become of an envelope, and whose envelopes may arrive instead: *)
(* a body that does not open, an empty one, and those of peers that use    *)
(* deflate, or a compression of their own.                                 *)
Replace ==
    /\ status = "sealed" /\ wire.flag \in {"raw", "zstd"}
    /\ \E flag \in {"flate", "other", "forged", "empty"} : wire' = [wire EXCEPT !.flag = flag]
    /\ UNCHANGED <<adaptive, batch, got, status>>

(* decode_batch: a frame is read at its offset; the length that was        *)
(* announced for it is only compared with what is there.                   *)
Utf8Step(s, b) ==
    IF Append(s.rest, b) \in Chars
    THEN [chars |-> Append(s.chars, Append(s.rest, b)), rest |-> <<>>]
    ELSE [s EXCEPT !.rest = Append(@, b)]

Utf8Decoded(bytes) ==
    LET seen[n \in 0..Len(bytes)] ==
            IF n = 0 THEN [chars |-> <<>>, rest |-> <<>>] ELSE Utf8Step(seen[n - 1], bytes[n])
        end == seen[Len(bytes)]
    IN  IF end.rest = <<>> THEN end.chars ELSE Append(end.chars, end.rest)

(* Where the fields of the frame are whose length is at off.               *)
FlagsOff(off)   == off + SizeWidth + SessionIDLen + SeqWidth
PlenOff(p, off) == FlagsOff(off) + 2 + p[FlagsOff(off) + 2]
NextOff(p, off) ==
    PlenOff(p, off) + SizeWidth + Unpacked(Slice(p, PlenOff(p, off), SizeWidth))

AnnouncedOff(p, off) == off + SizeWidth + Unpacked(Slice(p, off, SizeWidth))

FrameFits(p, off) ==
    /\ Len(p) >= off + SizeWidth
    /\ Len(p) >= AnnouncedOff(p, off)
    /\ Len(p) >= FlagsOff(off) + 2
    /\ Len(p) >= PlenOff(p, off) + SizeWidth

FrameAt(p, off) ==
    [session_id |-> Slice(p, off + SizeWidth, SessionIDLen),
     seq        |-> Unpacked(Slice(p, FlagsOff(off) - SeqWidth, SeqWidth)),
     flags      |-> p[FlagsOff(off) + 1],
     target     |-> Utf8Decoded(Slice(p, FlagsOff(off) + 2, p[FlagsOff(off) + 2])),
     payload    |-> Slice(p, PlenOff(p, off) + SizeWidth,
                          Unpacked(Slice(p, PlenOff(p, off), SizeWidth)))]

(* Mutations: the next frame is looked for behind the length announced;    *)
(* the session id is cut one byte short.                                   *)
ReadFrameAnnounced(r, p) ==
    IF r.ok /\ FrameFits(p, r.off)
    THEN [ok |-> TRUE, off |-> AnnouncedOff(p, r.off),
          frames |-> Append(r.frames, FrameAt(p, r.off))]
    ELSE [r EXCEPT !.ok = FALSE]
ReadFrameShort(r, p) ==
    IF r.ok /\ FrameFits(p, r.off)
    THEN [ok |-> TRUE, off |-> NextOff(p, r.off),
          frames |-> Append(r.frames, [FrameAt(p, r.off) EXCEPT !.session_id = Tail(@)])]
    ELSE [r EXCEPT !.ok = FALSE]

ReadFrame(r, p) ==
    IF r.ok /\ FrameFits(p, r.off)
    THEN [ok |-> TRUE, off |-> NextOff(p, r.off),
          frames |-> Append(r.frames, FrameAt(p, r.off))]
    ELSE [r EXCEPT !.ok = FALSE]

Decoded(p) ==
    LET off   == ClientIDLen + CountWidth
        count == Unpacked(Slice(p, ClientIDLen, CountWidth))
        read[n \in 0..count] ==
            IF n = 0 THEN [ok |-> Len(p) >= off, off |-> off, frames |-> <<>>]
            ELSE ReadFrame(read[n - 1], p)
    IN  [client_id |-> Slice(p, 0, ClientIDLen), ok |-> read[count].ok,
         frames |-> read[count].frames]

ZeroId == [i \in 1..ClientIDLen |-> 0]
Nothing == [client_id |-> ZeroId, frames |-> <<>>]

(* An empty body is a batch without frames; one that does not open, or has *)
(* a flag nobody knows, raises.                                            *)
Decode ==
    LET d == Decoded(wire.body)
    IN  /\ status = "sealed"
        /\ \/ wire.flag = "empty" /\ got' = Nothing /\ status' = "decoded"
           \/ /\ wire.flag \in {"raw", "zstd", "flate"} /\ d.ok
              /\ got' = [client_id |-> d.client_id, frames |-> d.frames]
              /\ status' = "decoded"
           \/ /\ wire.flag \in {"forged", "other"} \/ (wire.flag # "empty" /\ ~d.ok)
              /\ status' = "rejected"
              /\ UNCHANGED got
        /\ UNCHANGED <<adaptive, batch, wire>>

Done ==
    /\ status \in {"raised", "decoded", "rejected"}
    /\ status' = "idle" /\ batch' = <<>> /\ got' = Nothing
    /\ wire' = [flag |-> "empty", body |-> <<>>]
    /\ UNCHANGED adaptive
----------------------------------------------------------------------------
Init ==
    /\ skip_counter = 0 /\ skip_active = FALSE /\ failures = 0 /\ untried = 0
    /\ status = "idle" /\ batch = <<>> /\ got = Nothing
    /\ wire = [flag |-> "empty", body |-> <<>>]

Next == (\E frames \in Batches : Encode(frames)) \/ Replace \/ Decode \/ Done

Spec == Init /\ [][Next]_vars
----------------------------------------------------------------------------
(***************************************************************************)
(* Properties.                                                             *)
(***************************************************************************)
(* What was decoded consists of frames, whatever was on the wire.          *)
TypeOK ==
    /\ skip_counter \in 0..(SkipCompressionAfter + RecheckAfter - 1)
    /\ skip_active \in BOOLEAN
    /\ status \in {"idle", "raised", "sealed", "decoded", "rejected"}
    /\ Len(got.client_id) = ClientIDLen
    /\ \A i \in DOMAIN got.frames :
          /\ Len(got.frames[i].session_id) = SessionIDLen
          /\ got.frames[i].flags \in Byte
          /\ got.frames[i].seq \in Nat

(* Whatever could be encoded is decoded to the frames it was made of, also *)
(* when characters were counted for bytes and the bytearray grew under     *)
(* marshal_into (encode_batch, decode_batch).                              *)
RoundTrip ==
    /\ status = "decoded" /\ wire.flag # "empty" =>
         got = [client_id |-> ClientId, frames |-> batch]
    /\ status = "rejected" => wire.flag \in {"forged", "other"}

(* What cannot be encoded: too many frames, a target of more bytes than    *)
(* fit its length byte, numbers too large for their fields, and a batch    *)
(* whose targets have more bytes than characters, unless the last payload  *)
(* makes up for the difference.  A batch of small frames without targets,  *)
(* like every one of the server's, always can. What can takes the bytes    *)
(* that encoded_len, which the carrier fills its batches by, says of each  *)
(* frame, next to its length prefix.                                       *)
Surplus(frames) ==
    Total([i \in DOMAIN frames |-> Len(Utf8(frames[i].target)) - Len(frames[i].target)])
Encodable(frames) ==
    /\ Len(frames) < Power[CountWidth]
    /\ \A i \in DOMAIN frames : /\ Len(Utf8(frames[i].target)) < Base
                               /\ frames[i].seq < Power[SeqWidth]
                               /\ MarshalSize(frames[i]) < Power[SizeWidth]
    /\ frames # <<>> => Surplus(frames) <= Len(Last(frames).payload)
EncodesUnless ==
    /\ status = "raised" => ~Encodable(batch)
    /\ status = "sealed" =>
         /\ Encodable(batch)
         /\ Len(wire.body) = ClientIDLen + CountWidth
                + Total([i \in DOMAIN batch |-> SizeWidth + EncodedLen(batch[i])])

(* Compression is skipped from the third failed try in a row until a try   *)
(* succeeds: small batches, which are counted by the same counter, neither *)
(* start the skipping nor end it.  Big batches that follow one another are *)
(* tried again in time (encode_batch).                                     *)
SkippingBounded ==
    /\ skip_active <=> failures >= SkipCompressionAfter
    /\ untried < RecheckAfter
=============================================================================
