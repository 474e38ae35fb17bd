---------------------------- MODULE MCFrameCodec ----------------------------
(* The alphabet and the batches of the run of FrameCodec.                  *)
EXTENDS FrameCodec

MCChars == {<<0>>, <<1>>, <<3, 2>>}
MCClientId == <<1, 2>>

A(target, payload) ==
    [session_id |-> <<2>>, seq |-> 3, flags |-> 1, target |-> target, payload |-> payload]

(* ASCII and other targets up to and beyond the longest, payloads of 0..2. *)
Targets  == {<<>>, <<<<1>>, <<0>>>>, <<<<3, 2>>>>, <<<<1>>, <<3, 2>>>>, <<<<3, 2>>, <<3, 2>>>>}
Payloads == {<<>>, <<3>>, <<1, 2>>}
Frames   == {A(t, p) : t \in Targets, p \in Payloads}
Plain(n) == SubSeq(<<A(<<>>, <<1>>), A(<<>>, <<1, 0>>), A(<<>>, <<>>), A(<<>>, <<2>>)>>, 1, n)

MCBatches ==
    {<<f>> : f \in Frames} \cup {<<f, g>> : f, g \in Frames}
        \cup {Plain(2), Plain(3), Plain(4)}
=============================================================================
