----------------------------- MODULE MCProgram -----------------------------
(* The files, variables and answers of the run of Program.                 *)
EXTENDS Program

Client == [port |-> 1080, user |-> "", pass |-> "", sni |-> <<"h">>, keys |-> <<<<"A">>>>,
           tunnel_key |-> "hex", relay |-> <<>>, coalesce |-> 25, slots |-> 2]
Server == [port |-> 8443, tunnel_key |-> "hex", proxy |-> [scheme |-> "", host |-> ""],
           initial |-> 0]

MCSetups ==
    {[role |-> r, mode |-> m, supervised |-> FALSE, pidfile_ok |-> TRUE] :
        r \in {"client", "server"}, m \in {"shell", "headless", "daemon"}}
    \cup {[role |-> r, mode |-> "daemon", supervised |-> TRUE, pidfile_ok |-> FALSE] :
        r \in {"client", "server"}}

Url  == <<"https:", "", "script.google.com", "macros", "s", "A", "exec">>
MCIds == {<<"B">>, Url, <<"d", "edit">>}
MCContents(r) ==
    IF r = "client"
    THEN {[Client EXCEPT !.keys = <<Url, <<"A">>, <<"B", "">>>>, !.sni = <<>>, !.slots = 0],
          [Client EXCEPT !.relay = <<"r">>, !.keys = <<>>],
          [Client EXCEPT !.user = "u", !.pass = " "],
          [Client EXCEPT !.tunnel_key = "spaced"]}
    ELSE {Server, [Server EXCEPT !.initial = 9],
          [Server EXCEPT !.proxy = [scheme |-> "socks5", host |-> "p"]],
          [Server EXCEPT !.port = 0]}
MCEnvironments(r) ==
    {<<>>, [unparsable |-> TRUE], [port |-> 70000], [tunnel_key |-> "short"]}
        \cup IF r = "client" THEN {[sni |-> <<>>, slots |-> 4, keys |-> <<Url>>]}
             ELSE {[proxy |-> [scheme |-> "http", host |-> "p"]]}
MCAnswers(r) ==
    IF r = "client"
    THEN {[Client EXCEPT !.keys = <<>>], [Client EXCEPT !.sni = <<>>, !.coalesce = -1],
          [Client EXCEPT !.tunnel_key = "short", !.slots = 7],
          [Client EXCEPT !.user = "u", !.pass = "u", !.keys = <<<<"A">>, <<"A">>>>]}
    ELSE {Server, [Server EXCEPT !.tunnel_key = "short"],
          [Server EXCEPT !.proxy = [scheme |-> "socks5", host |-> "p"]]}
MCPorts == {1080, 0}
MCWords == {"", " ", "u"}
MCSni   == {<<>>, <<"h", "i">>}
MCProxies == {[scheme |-> "socks5", host |-> "p"], [scheme |-> "http", host |-> "p"]}
MCTypedKeys == {"short", "spaced"}
MCText == STRING
=============================================================================
