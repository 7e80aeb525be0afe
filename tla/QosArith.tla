------------------------------ MODULE QosArith ------------------------------
(***************************************************************************)
(* The arithmetic of dataplane/qos.c.  A uint64_t result is the exact one  *)
(* reduced modulo U64 (2^64 in the code, a small number in TLC's runs).    *)
(***************************************************************************)
EXTENDS Integers

CONSTANTS
  Hz,     \* qos->tsc_hz, rte_get_tsc_hz()
  U64     \* one more than the largest uint64_t

ASSUME ArithAssumption == Hz \in Nat \ {0} /\ U64 \in Nat \ {0}

\* dp_qos_rate_to_tokens: the product wraps before it is divided.
RateToTokens(rate, delta) == (((rate \div 8) * delta) % U64) \div Hz

\* Mutant of Refilled: no test for the first packet.
RefilledFirstPacket(b, now) ==
  (b.tokens_bytes + RateToTokens(b.rate_limit_bps, (now - b.last_tsc) % U64)) % U64

\* The refill of bucket b by a packet stamped now; the very first packet of a
\* bucket only stamps it.
Refilled(b, now) ==
  IF b.last_tsc # 0
  THEN (b.tokens_bytes +
        RateToTokens(b.rate_limit_bps, (now - b.last_tsc) % U64)) % U64
  ELSE b.tokens_bytes

\* The rate stored by a packet: its flow's, else its policy's, else the bucket's.
EffectiveRate(flow, policy, own) ==
  CASE flow # 0                -> flow
    [] flow = 0 /\ policy # 0  -> policy
    [] flow = 0 /\ policy = 0  -> own
=============================================================================
