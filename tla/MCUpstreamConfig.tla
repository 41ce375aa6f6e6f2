------------------------- MODULE MCUpstreamConfig -------------------------
(***************************************************************************)
(* Instance of UpstreamConfig for TLC: a DNS service with a TCP and a UDP  *)
(* port of the same number and an admin port, and a web service whose      *)
(* template leaves the protocol out of one port.                           *)
(***************************************************************************)
EXTENDS UpstreamConfig

TwoServices == {"dns", "web"}

SvcPort(name, protocol, port, targetPort) ==
    [name |-> name, protocol |-> protocol, port |-> port, targetPort |-> targetPort]

TwoRendered ==
    [s \in TwoServices |->
        IF s = "dns" THEN {SvcPort("t", "TCP", 53, 1053), SvcPort("u", "UDP", 53, 1053),
                           SvcPort("admin", "TCP", 8, 8)}
        ELSE {SvcPort("http", "TCP", 80, 3000), SvcPort("raw", Unset, 81, 3001)}]

Entry(port, protocol, weight) ==
    [port |-> port, protocol |-> protocol, weight |-> weight]
Listed(service, ports) == [service |-> service, ports |-> ports]

Dns(weight) == Listed("dns", <<Entry(53, "TCP", weight), Entry(53, "UDP", weight),
                               Entry(8, "HTTP", 30)>>)
Web(weight) == Listed("web", <<Entry(80, "HTTP", weight)>>)
Bare == Listed("web", <<>>)

Mixed == Listed("dns", <<Entry(53, "UDP", 120), Entry(53, "TCP", 50)>>)
Raw == Listed("web", <<Entry(81, "TCP", 20), Entry(80, "HTTPS", Nil)>>)

\* Reordered, reweighted and shortened lists, and a service without ports.
AllSpecs ==
    {<<Raw, Mixed>>, <<Dns(30)>>, <<Dns(30), Bare>>, <<Dns(99), Bare>>,
     <<Listed("gone", <<Entry(80, "HTTP", 10)>>), Web(10)>>}
HeavySpecs == {<<Web(100), Dns(30)>>}
DroppedSpecs == {<<Web(10), Dns(10)>>, <<Dns(10)>>}
=============================================================================
