------------------------------ MODULE Addresses ------------------------------
(***************************************************************************)
(* net/address_v4.hpp, address_v6.hpp, their iterators, address.hpp,       *)
(* network_v4.hpp, network_v6.hpp and endpoint.hpp.                        *)
(*                                                                         *)
(* An address is the sequence of its bytes, the most significant first:    *)
(* what to_uint() returns for an address_v4, whose member holds it with    *)
(* the bytes swapped, and what address_v6 holds.  An address_v6 has a      *)
(* scope, too.  One state looks at one network, at one step of a walk      *)
(* through hosts(), and compares it with the others of the samples.        *)
(***************************************************************************)
EXTENDS Integers, Sequences, FiniteSets, FiniteSetsExt

LOCAL INSTANCE Bitwise

CONSTANTS
  Networks,  \* network_v4: [address, prefix]
  Walked,    \* bound: hosts() is walked through for prefixes from this one on
  SixBytes   \* bytes of the address_v6 looked at

VARIABLES
  network,   \* the network; never changes
  iterator   \* where the walk through its hosts is

addressVars == <<network, iterator>>

Max8 == 255
Byte == 0..Max8

ASSUME AddressesAssumption ==
  /\ Walked \in 0..32
  /\ \A n \in Networks : n.address \in Seq(Byte) /\ Len(n.address) = 4 /\ n.prefix \in 0..32
  /\ \A b \in SixBytes : b \in Seq(Byte) /\ Len(b) = 16

-----------------------------------------------------------------------------
(* Iterators: ++ and -- with carry; an address_v6 keeps its scope *)

\* The places from k on, all of them holding b.
AllFrom(a, k, b) == \A i \in k..Len(a) : a[i] = b

\* Bug: the bytes behind the one that is counted up keep their values.
NextAddressNoReset(a) ==
  [i \in DOMAIN a |-> IF AllFrom(a, i + 1, Max8) /\ a[i] < Max8 THEN a[i] + 1 ELSE a[i]]

NextAddress(a) ==
  [i \in DOMAIN a |-> IF AllFrom(a, i + 1, Max8) THEN (a[i] + 1) % 256 ELSE a[i]]
PreviousAddress(a) ==
  [i \in DOMAIN a |-> IF AllFrom(a, i + 1, 0) THEN (a[i] - 1) % 256 ELSE a[i]]

\* compare_three_way of the integers, or of the arrays of bytes.
Less(a, b) == \E i \in DOMAIN a : a[i] < b[i] /\ \A j \in 1..(i - 1) : a[j] = b[j]

-----------------------------------------------------------------------------
(* network_v4 *)

BitOf(a, i) == (a[(i \div 8) + 1] \div 2 ^ (7 - (i % 8))) % 2

\* The bits from lo to hi are one, counted from the most significant one.
Ones(lo, hi) ==
  [k \in 1..4 |-> SumSet({2 ^ (7 - (i % 8)) : i \in (lo..hi) \cap (8 * k - 8..8 * k - 1)})]

Netmask(p) == IF p = 0 THEN <<0, 0, 0, 0>> ELSE Ones(0, p - 1)

NetworkOf(n) == [k \in 1..4 |-> n.address[k] & Netmask(n.prefix)[k]]

Broadcast(n) ==
  IF n.prefix < 32 THEN [k \in 1..4 |-> n.address[k] | Ones(n.prefix, 31)[k]] ELSE n.address

IsHost(n) == n.prefix = 32
Canonical(n) == [n EXCEPT !.address = NetworkOf(n)]

\* The range hosts(): from its first address up to, but not including, its last.
HostsBegin(n) == IF IsHost(n) THEN n.address ELSE NetworkOf(n)
HostsEnd(n) == IF IsHost(n) THEN NextAddress(n.address) ELSE Broadcast(n)

IsSubnetOf(n, other) ==
  other.prefix < n.prefix /\ Canonical([n EXCEPT !.prefix = other.prefix]) = Canonical(other)

\* The network made from a mask: the prefix length, or -1 where it throws.
PrefixOfMask(mask) ==
  LET popcount == Cardinality({i \in 0..31 : BitOf(mask, i) = 1})
      countrZero == CHOOSE z \in 0..32 :
        (\A i \in (32 - z)..31 : BitOf(mask, i) = 0) /\ (z = 32 \/ BitOf(mask, 31 - z) = 1)
  IN IF popcount # 0 /\ (countrZero # 32 - popcount \/ BitOf(mask, 0) = 0) THEN -1 ELSE popcount

-----------------------------------------------------------------------------
(* What an address is *)

V4Unspecified(a) == a = <<0, 0, 0, 0>>
V4Loopback(a) == a[1] = 127
V4Multicast(a) == (a[1] & 240) = 224

V6Unspecified(b, scope) == AllFrom(b, 1, 0) /\ scope = 0
V6Loopback(b, scope) == (\A i \in 1..15 : b[i] = 0) /\ b[16] = 1 /\ scope = 0
V6Multicast(b) == b[1] = 255
LinkLocal(b) == b[1] = 254 /\ (b[2] & 192) = 128
SiteLocal(b) == b[1] = 254 /\ (b[2] & 192) = 192
UniqueLocal(b) == (b[1] & 254) = 252

\* Nine bytes are compared with 0; the tenth may have any value.
V4Mapped(b) == (\A i \in 1..9 : b[i] = 0) /\ b[11] = 255 /\ b[12] = 255

MulticastScope(b) == IF V6Multicast(b) THEN b[2] & 15 ELSE 0
MulticastNodeLocal(b) == MulticastScope(b) = 1
MulticastLinkLocal(b) == MulticastScope(b) = 2
MulticastSiteLocal(b) == MulticastScope(b) = 5
MulticastOrgLocal(b) == MulticastScope(b) = 8
MulticastUniqueLocal(b) == MulticastScope(b) = 14
MulticastGlobal(b) == MulticastScope(b) = 11

\* make_address_v4 and make_address_v6 with v4_mapped: the third byte gets lost.
FromMapped(b) == SubSeq(b, 13, 16)
ToMapped(a) == [i \in 1..10 |-> 0] \o <<255, 255>> \o <<a[1], a[2], a[2], a[4]>>

-----------------------------------------------------------------------------
(* address, either of the two, and endpoint *)

Four(a) == [bytes |-> a, scope |-> 0]
Six(b, scope) == [bytes |-> b, scope |-> scope]
IsV4(x) == Len(x.bytes) = 4

AddressEqual(x, y) == IsV4(x) = IsV4(y) /\ x = y

\* The order compares the left operand with itself; with two address_v6 it ends
\* the program.
AddressLess(x, y) == IF IsV4(x) THEN ~IsV4(y) ELSE FALSE
Comparable(x, y) == IsV4(x) \/ IsV4(y)

\* The order of address_v6 itself.
SixLess(x, y) == Less(x.bytes, y.bytes) \/ (x.bytes = y.bytes /\ x.scope < y.scope)

\* An endpoint keeps the port with its two bytes swapped.
Byteswap(port) == (port % 256) * 256 + port \div 256
Endpoint(x, port) == [address |-> x, port |-> Byteswap(port)]
Port(e) == Byteswap(e.port)
EndpointEqual(e, f) == AddressEqual(e.address, f.address) /\ Port(e) = Port(f)
EndpointLess(e, f) ==
  IF AddressEqual(e.address, f.address) THEN Port(e) < Port(f) ELSE AddressLess(e.address, f.address)

\* htons, which swaps the bytes on the machine that the code is built for, and back.
ToSockaddr(e) == [address |-> e.address, port |-> Byteswap(Port(e))]
FromSockaddr(s) == Endpoint(s.address, Byteswap(s.port))

-----------------------------------------------------------------------------
AddressesInit == network \in Networks /\ iterator = HostsBegin(network)

\* for (auto a : network.hosts())
NextHost ==
  /\ iterator # HostsEnd(network) /\ network.prefix >= Walked
  /\ iterator' = NextAddress(iterator)
  /\ UNCHANGED network

AddressesSpec == AddressesInit /\ [][NextHost]_addressVars

-----------------------------------------------------------------------------
\* The walk starts at the network's first address and meets addresses of the network
\* only, in order, and stops at the broadcast address.
HostsInNetwork ==
  \/ iterator = HostsEnd(network)
  \/ /\ NetworkOf([network EXCEPT !.address = iterator]) = NetworkOf(network)
     /\ IsHost(network) \/ Less(iterator, Broadcast(network))

\* ++ goes to the next address and -- back; only the last address has no next one.
StepsAreInverse(a, others) ==
  /\ PreviousAddress(NextAddress(a)) = a /\ NextAddress(PreviousAddress(a)) = a
  /\ AllFrom(a, 1, Max8) \/ Less(a, NextAddress(a))
  /\ \A b \in others : ~(Less(a, b) /\ Less(b, NextAddress(a)))

\* The networks of an address are those whose prefix it has, and masks that are not
\* a run of ones from the left are refused.
NetworksNest ==
  LET n == network
      sharesPrefix(other) == \A i \in 0..(other.prefix - 1) : BitOf(n.address, i) = BitOf(other.address, i)
  IN /\ \A other \in Networks : IsSubnetOf(n, other) <=> n.prefix > other.prefix /\ sharesPrefix(other)
     /\ Canonical(Canonical(n)) = Canonical(n)
     /\ PrefixOfMask(Netmask(n.prefix)) = n.prefix
     /\ PrefixOfMask(n.address) = -1 <=> \A p \in 0..32 : n.address # Netmask(p)

\* An address has at most one of the special kinds, and one that an IPv4 address is
\* mapped to is recognised.
KindsExclude ==
  LET a == network.address
      kinds(b) == {<<"unspecified", V6Unspecified(b, 0)>>, <<"loopback", V6Loopback(b, 0)>>, <<"multicast", V6Multicast(b)>>,
        <<"link", LinkLocal(b)>>, <<"site", SiteLocal(b)>>, <<"unique", UniqueLocal(b)>>, <<"mapped", V4Mapped(b)>>}
      scopes(b) == {<<1, MulticastNodeLocal(b)>>, <<2, MulticastLinkLocal(b)>>, <<5, MulticastSiteLocal(b)>>,
        <<8, MulticastOrgLocal(b)>>, <<14, MulticastUniqueLocal(b)>>, <<11, MulticastGlobal(b)>>}
      holding(set) == {k \in set : k[2]}
  IN /\ Cardinality({k \in 1..3 : <<V4Unspecified(a), V4Loopback(a), V4Multicast(a)>>[k]}) <= 1
     /\ V4Mapped(ToMapped(a))
     /\ \A b \in SixBytes :
          /\ Cardinality(holding(kinds(b))) <= 1
          /\ Cardinality(holding(scopes(b))) <= 1 /\ (holding(scopes(b)) # {} => V6Multicast(b))

\* Endpoints survive being turned into a sockaddr; those of one address are ordered by
\* their ports, and any of version 4 comes before any of version 6.
EndpointsReturn ==
  LET ports == {0, 80, 255, 256, 65535}
      fours == {Four(network.address), Four(iterator)}
      sixes == {Six(b, scope) : b \in SixBytes, scope \in {0, 1}}
  IN /\ \A x \in fours \cup sixes, p, q \in ports :
          /\ EndpointEqual(FromSockaddr(ToSockaddr(Endpoint(x, p))), Endpoint(x, p))
          /\ EndpointLess(Endpoint(x, p), Endpoint(x, q)) <=> p < q
          /\ EndpointEqual(Endpoint(x, p), Endpoint(x, q)) <=> p = q
     /\ \A x \in fours, y \in sixes, p, q \in ports :
          EndpointLess(Endpoint(x, p), Endpoint(y, q)) /\ ~EndpointLess(Endpoint(y, q), Endpoint(x, p))

\* The arithmetic of addresses and networks agrees with its definition over bits.
AddressesAgree ==
  /\ HostsInNetwork /\ NetworksNest /\ KindsExclude /\ EndpointsReturn
  /\ StepsAreInverse(iterator, {n.address : n \in Networks})
  /\ \A b \in SixBytes : StepsAreInverse(b, SixBytes)
=============================================================================
