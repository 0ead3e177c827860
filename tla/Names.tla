-------------------------------- MODULE Names --------------------------------
(***************************************************************************)
(* Addresses as texts (to_string and make_address of net/address_v4.hpp,   *)
(* address_v6.hpp and address.hpp, to_string of the networks and of        *)
(* endpoint.hpp), network_v6.hpp, and net/resolver.hpp, which looks hosts  *)
(* and services up by name.                                                *)
(*                                                                         *)
(* A text is what inet_pton would read of it, and what stands behind that: *)
(* pairs of a mark and a number.                                           *)
(***************************************************************************)
EXTENDS Addresses, SequencesExt

CONSTANTS
  MaxScope,   \* bound: the largest scope_id_type
  Directory   \* the entries the resolver of the system knows, in its order

NoName == "no name"
NotANumber == -1

ASSUME NamesAssumption ==
  /\ MaxScope \in Nat
  /\ \A k \in DOMAIN Directory :
       LET entry == Directory[k]
       IN /\ entry.family \in {"inet", "inet6", "unix"}
          /\ entry.bytes \in Seq(Byte) /\ entry.port \in 0..65535
          /\ (entry.family = "inet" => Len(entry.bytes) = 4) /\ (entry.family = "inet6" => Len(entry.bytes) = 16)

-----------------------------------------------------------------------------
(* From addresses to texts *)

Dotted(a) == [form |-> "dotted", bytes |-> a, after |-> <<>>]
Thrown == [form |-> "throws", bytes |-> <<>>, after |-> <<>>]
Behind(text, mark, number) ==
  IF text = Thrown THEN Thrown ELSE [text EXCEPT !.after = Append(@, <<mark, number>>)]

SixText(b, scope) ==
  LET body == [form |-> "colons", bytes |-> b, after |-> <<>>]
  IN IF scope = 0 THEN body ELSE Behind(body, "%", scope)

\* address::to_string asks for the address_v4 in both cases.
AddressText(x) == IF IsV4(x) THEN Dotted(x.bytes) ELSE Thrown
EndpointText(e) == Behind(AddressText(e.address), ":", Port(e))

\* The digits that __to_chars_10_impl writes, in a text of __preflen more places.
PrefixDigits(p) == IF p >= 10 THEN <<p \div 10, p % 10>> ELSE <<p>>
NetworkText(n) == Behind(Dotted(n.address), "/", PrefixDigits(n.prefix))
SixNetworkText(n) == Behind(SixText(n.address, 0), "/", n.prefix)

-----------------------------------------------------------------------------
(* From texts to addresses: the address, and whether there was an error *)

Parsed(x) == [address |-> x, failed |-> FALSE]
Refused(x) == [address |-> x, failed |-> TRUE]

FourOf(text) ==
  IF text.form = "dotted" /\ text.after = <<>> THEN Parsed(Four(text.bytes)) ELSE Refused(Four(<<0, 0, 0, 0>>))

\* A scope is a number below the largest one.
SixOf(text) ==
  IF /\ text.form = "colons"
     /\ \/ text.after = <<>>
        \/ Len(text.after) = 1 /\ text.after[1][1] = "%" /\ text.after[1][2] \in 0..(MaxScope - 1)
  THEN Parsed(Six(text.bytes, IF text.after = <<>> THEN 0 ELSE text.after[1][2]))
  ELSE Refused(Six([i \in 1..16 |-> 0], 0))

\* make_address tries the one and then the other.
AddressOf(text) ==
  IF ~FourOf(text).failed THEN FourOf(text)
  ELSE IF ~SixOf(text).failed THEN SixOf(text) ELSE Refused(Four(<<0, 0, 0, 0>>))

-----------------------------------------------------------------------------
(* network_v6: what it answers, or Terminates where it ends the program *)

Terminates == <<>>
SixIsHost(n) == n.prefix = 128
SixHosts(n) == IF SixIsHost(n) THEN <<n.address, NextAddress(n.address)>> ELSE Terminates
SixIsSubnetOf(n, other) == IF other.prefix < n.prefix THEN Terminates ELSE <<FALSE>>

-----------------------------------------------------------------------------
(* resolver *)

\* ::getaddrinfo
GetAddrInfo(host, service, family) ==
  SelectSeq(Directory, LAMBDA entry : /\ entry.host = host
                                      /\ service \in {NoName, entry.service}
                                      /\ family \in {"unspec", entry.family})

\* ::getnameinfo
GetNameInfo(e, numeric) ==
  LET found == SelectSeq(Directory, LAMBDA entry : entry.bytes = e.address.bytes)
  IN IF found = <<>> \/ (~numeric /\ found[1].service = NoName) THEN [failed |-> TRUE]
     ELSE [failed |-> FALSE, host |-> found[1].host, service |-> IF numeric THEN "number" ELSE found[1].service]

Entry(e, host, service) == [endpoint |-> e, host |-> host, service |-> service]

\* What is written under `service` is the name of the host.
Named(host, service) == IF service = NoName THEN NoName ELSE host

\* The results, in order, or the error of the system if there are none.
Resolve(host, service, family) ==
  LET found == GetAddrInfo(host, Named(host, service), family)
      internet == SelectSeq(found, LAMBDA entry : entry.family \in {"inet", "inet6"})
      sockaddr(entry) == [address |-> [bytes |-> entry.bytes, scope |-> 0], port |-> Byteswap(entry.port)]
  IN [failed |-> found = <<>>,
      results |-> [k \in DOMAIN internet |->
        Entry(FromSockaddr(sockaddr(internet[k])), host, Named(host, service))]]

\* The name of an endpoint; the second attempt asks for the port as a number.
ResolveEndpoint(e) ==
  LET first == GetNameInfo(FromSockaddr(ToSockaddr(e)), FALSE)
      second == GetNameInfo(FromSockaddr(ToSockaddr(e)), TRUE)
      answer == IF first.failed THEN second ELSE first
  IN IF answer.failed THEN [failed |-> TRUE, results |-> <<>>]
     ELSE [failed |-> FALSE, results |-> <<Entry(e, answer.host, answer.service)>>]

-----------------------------------------------------------------------------
\* Every address_v4 can be read back from its text, every address_v6 from its own but
\* for the largest scope, and no text of a network, of an endpoint or of an address with
\* a scope that is no number is taken for an address.
TextsComeBack ==
  LET scoped(b) == {SixText(b, scope) : scope \in 0..MaxScope}
  IN /\ \A a \in {network.address, iterator} :
          /\ AddressOf(AddressText(Four(a))) = Parsed(Four(a))
          /\ AddressOf(NetworkText([network EXCEPT !.address = a])).failed
          /\ AddressOf(EndpointText(Endpoint(Four(a), 80))).failed
     /\ FoldLeft(LAMBDA sum, digit : 10 * sum + digit, 0, NetworkText(network).after[1][2]) = network.prefix
     /\ \A b \in SixBytes :
          /\ \A scope \in 0..MaxScope :
               AddressOf(SixText(b, scope)) =
                 IF scope < MaxScope THEN Parsed(Six(b, scope)) ELSE Refused(Four(<<0, 0, 0, 0>>))
          /\ \A text \in scoped(b) : FourOf(text).failed
          /\ AddressOf(Behind(SixText(b, 0), "%", NotANumber)).failed
          /\ AddressOf(SixNetworkText([address |-> b, prefix |-> 64])).failed

\* A host that is looked up without a service gives the endpoints of its internet
\* entries, in their order and in the byte order of the machine; and the name of each of
\* them is the one it was found under, if no other host has its address.
NamesResolve ==
  \A k \in DOMAIN Directory, family \in {"unspec", "inet", "inet6"} :
    LET host == Directory[k].host
        answer == Resolve(host, NoName, family)
        wanted == SelectSeq(GetAddrInfo(host, NoName, family), LAMBDA entry : entry.family # "unix")
    IN /\ [i \in DOMAIN answer.results |-> <<answer.results[i].endpoint.address.bytes, Port(answer.results[i].endpoint)>>]
          = [i \in DOMAIN wanted |-> <<wanted[i].bytes, wanted[i].port>>]
       /\ \A i \in DOMAIN answer.results :
            LET back == ResolveEndpoint(answer.results[i].endpoint)
            IN /\ ~back.failed
               /\ (\A j \in DOMAIN Directory :
                     Directory[j].bytes = answer.results[i].endpoint.address.bytes => Directory[j].host = host)
                    => back.results[1].host = host

\* network_v6 says no more than it can know: that a network whose prefix is not longer
\* is no subnet, and which one address a host has.
SixNetworksTell ==
  \A b, c \in SixBytes, p, q \in {0, 64, 128} :
    LET n == [address |-> b, prefix |-> p]
        other == [address |-> c, prefix |-> q]
    IN /\ SixIsSubnetOf(n, other) # Terminates => q >= p
       /\ SixHosts(n) = Terminates \/ (p = 128 /\ PreviousAddress(SixHosts(n)[2]) = b)

\* What address.hpp:17-18 says of the class address, that it "implements version-independent
\* IP addresses" and "provides the ability to use either IP version 4 or version 6
\* addresses": an address can be read back from its text, and its endpoint has one;
\* two of one version are in the order of that version; and an address of version 4 is
\* the same after it has been mapped to version 6.
VersionIndependent ==
  LET addresses == {Four(network.address), Four(iterator)} \cup {Six(b, 0) : b \in SixBytes}
      less(x, y) == IF IsV4(x) THEN Less(x.bytes, y.bytes) ELSE SixLess(x, y)
  IN /\ \A x \in addresses : AddressOf(AddressText(x)) = Parsed(x) /\ EndpointText(Endpoint(x, 80)) # Thrown
     /\ \A x, y \in addresses : IsV4(x) = IsV4(y) => Comparable(x, y) /\ (AddressLess(x, y) <=> less(x, y))
     /\ FromMapped(ToMapped(network.address)) = network.address
=============================================================================
