------------------------------ MODULE MCRules ------------------------------
(* Rules for three flows, one of them written with a port one word too      *)
(* large, in a table of two; packets around every length the parser tests.  *)
EXTENDS Rules
CONSTANTS a, b

Line(addr, proto, ports, policy, rate) ==
  [addr |-> addr, proto |-> proto, ports |-> ports, tenant |-> policy, policy |-> policy,
   rate |-> rate]
MCLines == {Line(a, "udp", 1, 0, 8), Line(a, "udp", 5, 1, 16), Line(a, "tcp", 1, 0, 0),
            Line(b, "udp", 2, 2, 8), Skipped}
MCPackets ==
  [len : {13, 14, 33, 34, 37, 38, 41, 42, 45, 46, 53, 54, 57, 58}, ether : {"ipv4"},
   ihl : {4, 5, 6}, proto : {"udp", "tcp", "icmp"}, addr : {a}, ports : {1}]
  \cup [len : {60}, ether : {"ipv4", "arp"}, ihl : {5}, proto : {"udp", "tcp"},
        addr : {a, b}, ports : {1, 2}]
=============================================================================
