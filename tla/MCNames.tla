------------------------------ MODULE MCNames -------------------------------
(***************************************************************************)
(* Addresses and Names for TLC: networks around the boundaries of bytes and *)
(* of the special kinds, and the entries of a resolver.                    *)
(***************************************************************************)
EXTENDS Names

Zeros(n) == [i \in 1..n |-> 0]
Full(n) == [i \in 1..n |-> 255]

MCNetworks ==
  [address : {<<0, 0, 0, 0>>, <<10, 0, 0, 0>>, <<10, 255, 255, 255>>, <<11, 0, 0, 0>>, <<10, 0, 0, 5>>,
              <<127, 0, 0, 1>>, <<128, 0, 0, 0>>, <<239, 1, 1, 200>>, <<255, 255, 0, 0>>,
              <<255, 255, 255, 254>>, <<255, 255, 255, 255>>},
   prefix : {0, 1, 8, 15, 28, 30, 31, 32}]

MCSixBytes ==
  {Zeros(16), Zeros(15) \o <<1>>, Full(16), Zeros(14) \o <<1, 0>>, Zeros(14) \o <<0, 255>>,
   Zeros(10) \o <<255, 255, 10, 0, 0, 1>>, Zeros(9) \o <<7, 255, 255, 10, 0, 0, 1>>,
   <<254, 128>> \o Zeros(14), <<254, 191>> \o Full(14), <<254, 192>> \o Zeros(14),
   <<252>> \o Zeros(15), <<253>> \o Full(15)}
  \cup {<<255, s>> \o Zeros(14) : s \in {1, 2, 5, 8, 11, 14, 30}}

\* Two hosts share an address; one has the name of a service.
In(host, service, family, bytes, port) ==
  [host |-> host, service |-> service, family |-> family, bytes |-> bytes, port |-> port]
MCDirectory ==
  <<In("here", "web", "unix", <<>>, 0), In("here", "web", "inet6", Zeros(15) \o <<1>>, 80),
    In("here", "web", "inet", <<127, 0, 0, 1>>, 80), In("here", NoName, "inet", <<127, 0, 0, 2>>, 256),
    In("web", "web", "inet", <<10, 0, 0, 5>>, 80), In("alias", "rpc", "inet", <<10, 0, 0, 5>>, 10086)>>
=============================================================================
