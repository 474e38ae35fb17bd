---------------------------- MODULE MCSocksConn ----------------------------
(* The applications and answers of the run of SocksConn.                   *)
EXTENDS SocksConn

MCUsers == {<<<<7>>, <<8, 9>>>>}

Browser ==
    [ver |-> 5, methods |-> <<0, 2>>, user |-> <<7>>, pass |-> <<8, 9>>,
     cmd |-> 1, atyp |-> 3, addr |-> <<97, 98>>, port |-> 443,
     data |-> <<<<31, 32>>, <<33>>>>, eager |-> FALSE]

(* Variants: addresses, credentials, and requests that are refused.        *)
MCApps ==
    {Browser,
     [Browser EXCEPT !.eager = TRUE],
     [Browser EXCEPT !.methods = <<0>>, !.atyp = 1, !.addr = <<1, 2, 3, 4>>],
     [Browser EXCEPT !.methods = <<2>>, !.pass = <<8>>, !.data = <<>>],
     [Browser EXCEPT !.atyp = 4, !.addr = [i \in 1..16 |-> i], !.data = <<>>],
     [Browser EXCEPT !.atyp = 9, !.addr = <<>>, !.data = <<>>],
     [Browser EXCEPT !.cmd = 2],
     [Browser EXCEPT !.ver = 4, !.methods = <<0, 80>>]}

MCResponses ==
    {<<Frame("DATA", 0, <<41>>), Frame("DATA", 1, <<42, 43>>), Frame("FIN", 0, <<>>),
       Frame("DATA", 2, <<44>>)>>,
     <<Frame("RST", 0, <<45>>)>>}
=============================================================================
