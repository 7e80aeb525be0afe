------------------------------- MODULE Parse -------------------------------
(***************************************************************************)
(* dp_parse_5tuple (dataplane/parse.c).  A packet has a length (pkt_len),  *)
(* an Ethernet type, the IHL nibble of its IPv4 header, a protocol, an     *)
(* address pair, and its ports, which lie behind the IPv4 header.  What is *)
(* read anywhere else is Garbage.                                          *)
(***************************************************************************)
EXTENDS Naturals

CONSTANT Garbage

EtherHdr == 14
Ipv4Hdr == 20
L4Hdr == [udp |-> 8, tcp |-> 20]      \* the protocols that are accepted

\* uint8_t ihl: the nibble times four fits.
Ihl(p) == (p.ihl % 16) * 4
L4Offset(p) == EtherHdr + Ihl(p)

\* The tests of the code, in its order; each may rely on the ones before it.
HasEther(p) == p.len >= EtherHdr
IsIpv4(p) == p.ether = "ipv4"
HasIpv4(p) == p.len >= EtherHdr + Ipv4Hdr

HasOptions(p) == Ihl(p) >= Ipv4Hdr /\ p.len >= L4Offset(p)
\* Mutant of HasL4: the length of the transport header is not tested.
HasL4NoLength(p) == p.proto \in DOMAIN L4Hdr
HasL4(p) == p.proto \in DOMAIN L4Hdr /\ p.len >= L4Offset(p) + L4Hdr[p.proto]

\* Where the ports are read.
PortsOffset(p) == L4Offset(p)

Parses(p) == HasEther(p) /\ IsIpv4(p) /\ HasIpv4(p) /\ HasOptions(p) /\ HasL4(p)

\* The key of a packet that parses.
KeyOfPacket(p) ==
  [addr  |-> p.addr,
   proto |-> p.proto,
   ports |-> IF PortsOffset(p) = EtherHdr + 4 * p.ihl THEN p.ports ELSE Garbage]

\* No byte of p from here on is read, along the early returns of the code.
ReadEnd(p) ==
  CASE ~HasEther(p)                                    -> 0
    [] HasEther(p) /\ ~(IsIpv4(p) /\ HasIpv4(p))       -> EtherHdr
    [] HasEther(p) /\ IsIpv4(p) /\ HasIpv4(p) /\ ~Parses(p) -> EtherHdr + Ipv4Hdr
    [] Parses(p)                                       -> PortsOffset(p) + 4
=============================================================================
