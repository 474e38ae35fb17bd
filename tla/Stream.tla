------------------------------- MODULE Stream -------------------------------
(***************************************************************************)
(* What the carrier promises its users as long as nothing goes wrong: each *)
(* session is a FIFO channel of frames, and the server reads, batch after  *)
(* batch, exactly what the application's side has sent, in that order.     *)
(***************************************************************************)
EXTENDS Integers, Sequences

CONSTANTS Sid, Frame

VARIABLES sent, recvd

Init ==
    /\ sent = [s \in Sid |-> <<>>]
    /\ recvd = [s \in Sid |-> <<>>]

(* One more frame, f, is sent on s.                                        *)
Send(s) ==
    /\ Len(sent'[s]) = Len(sent[s]) + 1
    /\ LET f == sent'[s][Len(sent'[s])]
       IN  f \in Frame /\ sent' = [sent EXCEPT ![s] = Append(@, f)]
    /\ UNCHANGED recvd

(* A batch brings some sessions further along in what they have sent.      *)
Receive ==
    /\ \A s \in Sid : \E n \in Len(recvd[s])..Len(sent[s]) :
          recvd'[s] = SubSeq(sent[s], 1, n)
    /\ DOMAIN recvd' = Sid
    /\ UNCHANGED sent

Next ==
    \/ \E s \in Sid : Send(s)
    \/ Receive

Spec == Init /\ [][Next]_<<sent, recvd>>
=============================================================================
