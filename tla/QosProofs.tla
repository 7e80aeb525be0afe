------------------------------ MODULE QosProofs ------------------------------
(***************************************************************************)
(* Theorems about the token bucket, for every number of tenants, set of    *)
(* actions, rate, counter frequency and word width: what it admits, what   *)
(* it loses, and that the loads and stores of QosShared implement it as    *)
(* long as no two lcores are at one bucket at once.                        *)
(***************************************************************************)
EXTENDS QosShared, WellFoundedInduction, TLAPS

\* What the arithmetic of the proof needs of products.
LEMMA ProductMono ==
  ASSUME NEW a \in Nat, NEW b \in Nat, NEW c \in Nat, a <= b
  PROVE  /\ a * c \in Nat /\ b * c \in Nat
         /\ a * c <= b * c
<1>1. PICK d \in Nat : b = a + d
  <2>1. b - a \in Nat /\ b = a + (b - a)
    OBVIOUS
  <2> QED BY <2>1
<1>2. b * c = a * c + d * c
  BY <1>1
<1>3. a * c \in Nat /\ d * c \in Nat
  BY <1>1
<1> QED BY <1>2, <1>3

\* A remainder is below the modulus and never above the number.
LEMMA ModBound ==
  ASSUME NEW n \in Nat, NEW m \in Nat \ {0}
  PROVE  n % m \in 0 .. m - 1 /\ n % m <= n
<1>1. n % m \in 0 .. m - 1
  OBVIOUS
<1>2. n = m * (n \div m) + (n % m)
  OBVIOUS
<1>3. n \div m \in Nat
  OBVIOUS
<1>4. m * (n \div m) \in Nat
  BY <1>3
<1> QED BY <1>1, <1>2, <1>4

\* A quotient never overstates.
LEMMA DivBound ==
  ASSUME NEW n \in Nat, NEW m \in Nat \ {0}
  PROVE  n \div m \in Nat /\ m * (n \div m) <= n
<1>1. n = m * (n \div m) + (n % m) /\ n % m \in 0 .. m - 1
  OBVIOUS
<1>2. n \div m \in Nat
  OBVIOUS
<1>3. m * (n \div m) \in Nat
  BY <1>2
<1> QED BY <1>1, <1>2, <1>3

\* A refill earns at most the exact product: wrapping and dividing only lose
\* (dp_qos_rate_to_tokens).
LEMMA TokensBound ==
  ASSUME NEW rate \in 0 .. MaxRate, NEW delta \in Nat
  PROVE  /\ RateToTokens(rate, delta) \in Nat
         /\ Hz * RateToTokens(rate, delta) <= (MaxRate \div 8) * delta
<1> USE ArithAssumption, QosAssumption
<1> DEFINE exact == (rate \div 8) * delta
           word  == exact % U64
<1>1. rate \div 8 \in Nat /\ MaxRate \div 8 \in Nat /\ rate \div 8 <= MaxRate \div 8
  OBVIOUS
<1>2. exact \in Nat /\ exact <= (MaxRate \div 8) * delta
  BY <1>1, ProductMono
<1> HIDE DEF exact
<1>3. word \in Nat /\ word <= exact
  BY <1>2, ModBound
<1>4. word \div Hz \in Nat /\ Hz * (word \div Hz) <= word
  BY <1>3, DivBound
<1>5. (MaxRate \div 8) * delta \in Nat
  BY <1>1
<1>6. Hz * (word \div Hz) \in Nat
  BY <1>4
<1> QED BY <1>2, <1>3, <1>4, <1>5, <1>6 DEF RateToTokens, exact

BucketType == [tokens_bytes : 0 .. U64 - 1, last_tsc : Nat, rate_limit_bps : 0 .. MaxRate]

\* What a refill may add to a bucket, wrapped or not (dp_qos_apply).
LEMMA RefillBound ==
  ASSUME NEW b \in BucketType, NEW now \in Nat, b.last_tsc <= now, now < U64
  PROVE  /\ Refilled(b, now) \in 0 .. U64 - 1
         /\ b.last_tsc = 0 => Refilled(b, now) = b.tokens_bytes
         /\ b.last_tsc # 0 => Hz * Refilled(b, now) <=
              Hz * b.tokens_bytes + (MaxRate \div 8) * (now - b.last_tsc)
<1> DEFINE delta == now - b.last_tsc
           r == RateToTokens(b.rate_limit_bps, delta)
<1> USE ArithAssumption, QosAssumption
<1>1. b.tokens_bytes \in 0 .. U64 - 1 /\ b.last_tsc \in Nat /\ b.rate_limit_bps \in 0 .. MaxRate
  BY DEF BucketType
<1>2. delta \in Nat /\ delta % U64 = delta
  BY <1>1
<1>3. CASE b.last_tsc = 0
  BY <1>1, <1>3 DEF Refilled
<1>4. CASE b.last_tsc # 0
  <2>1. r \in Nat /\ Hz * r <= (MaxRate \div 8) * delta
    BY <1>1, <1>2, TokensBound
  <2>2. Refilled(b, now) = (b.tokens_bytes + r) % U64
    BY <1>2, <1>4 DEF Refilled
  <2> HIDE DEF r
  <2>3. Refilled(b, now) \in 0 .. U64 - 1 /\ Refilled(b, now) <= b.tokens_bytes + r
    <3>1. b.tokens_bytes + r \in Nat
      BY <1>1, <2>1
    <3>2. /\ (b.tokens_bytes + r) % U64 \in 0 .. U64 - 1
          /\ (b.tokens_bytes + r) % U64 <= b.tokens_bytes + r
      BY <3>1, ModBound
    <3> QED BY <2>2, <3>2
  <2>4. Hz * Refilled(b, now) <= Hz * (b.tokens_bytes + r)
    BY <1>1, <2>1, <2>3, ProductMono
  <2>5. Hz * (b.tokens_bytes + r) = Hz * b.tokens_bytes + Hz * r
    BY <1>1, <2>1
  <2>6. /\ Hz * Refilled(b, now) \in Nat
        /\ Hz * b.tokens_bytes \in Nat /\ Hz * r \in Nat
        /\ (MaxRate \div 8) * delta \in Nat
    <3>1. MaxRate \div 8 \in Nat
      OBVIOUS
    <3> QED BY <1>1, <1>2, <2>1, <2>3, <3>1
  <2> QED BY <1>4, <2>1, <2>3, <2>4, <2>5, <2>6
<1> QED BY <1>3, <1>4
-----------------------------------------------------------------------------
\* What one packet does to one bucket.
LEMMA ApplyEffect ==
  ASSUME TypeOK, NEW a \in Actions, NEW len \in Lens, NEW now \in 1 .. tsc,
         Apply(a, len, now)
  PROVE  LET t == a.tenant_id
             filled == Refilled(tenants[t], now)
         IN /\ t \in Tenants /\ tenants[t] \in BucketType
            /\ now \in Nat /\ now < U64 /\ tenants[t].last_tsc <= now
            /\ len \in Nat
            /\ filled \in 0 .. U64 - 1
            /\ tenants' = [tenants EXCEPT ![t] = Bucket(a, len, now)]
            /\ Bucket(a, len, now) \in BucketType
            /\ Bucket(a, len, now).last_tsc = now
            /\ \/ /\ filled < len
                  /\ Bucket(a, len, now).tokens_bytes = filled
                  /\ admitted' = admitted
               \/ /\ filled >= len
                  /\ Bucket(a, len, now).tokens_bytes = filled - len
                  /\ admitted' = [admitted EXCEPT ![t] = @ + len]
<1> DEFINE t == a.tenant_id
           filled == Refilled(tenants[t], now)
<1> USE ArithAssumption, QosAssumption
<1>1. /\ t \in Tenants /\ tenants[t] \in BucketType
      /\ now \in Nat /\ now < U64 /\ tenants[t].last_tsc <= now /\ len \in Nat
  <2>1. a.tenant_id \in Nat
    OBVIOUS
  <2>2. t \in Tenants /\ tenants[t].last_tsc <= now
    BY <2>1 DEF Apply, Tenants
  <2>3. now \in Nat /\ now < U64 /\ len \in Nat
    BY DEF TypeOK
  <2>4. tenants[t] \in BucketType
    BY <2>2 DEF TypeOK, BucketType
  <2> QED BY <2>2, <2>3, <2>4
<1>2. filled \in 0 .. U64 - 1
  BY <1>1, RefillBound
<1>3. PolicyRate(a.policy_id) \in 0 .. MaxRate
  BY DEF PolicyRate, TypeOK
<1>4. EffectiveRate(a.rate_limit_bps, PolicyRate(a.policy_id), tenants[t].rate_limit_bps)
        \in 0 .. MaxRate
  <2>1. a.rate_limit_bps \in 0 .. MaxRate /\ tenants[t].rate_limit_bps \in 0 .. MaxRate
    BY <1>1 DEF BucketType
  <2> QED BY <1>3, <2>1 DEF EffectiveRate
<1> HIDE DEF filled
<1>5. /\ Bucket(a, len, now) \in BucketType
      /\ Bucket(a, len, now).last_tsc = now
      /\ filled < len => Bucket(a, len, now).tokens_bytes = filled
      /\ filled >= len => Bucket(a, len, now).tokens_bytes = filled - len
  BY <1>1, <1>2, <1>4 DEF Bucket, BucketType, filled
<1>6. filled < len => admitted' = admitted
  BY <1>1, <1>2 DEF Apply, Admits, TypeOK, filled
<1>7. filled >= len => admitted' = [admitted EXCEPT ![t] = @ + len]
  BY <1>1, <1>2 DEF Apply, Admits, TypeOK, filled
<1>8. tenants' = [tenants EXCEPT ![t] = Bucket(a, len, now)]
  BY DEF Apply
<1> QED BY <1>1, <1>2, <1>5, <1>6, <1>7, <1>8 DEF filled

IInv == TypeOK /\ AdmissionBound

\* dp_qos_init establishes the invariant.
LEMMA InitIInv == Init => IInv
<1> USE ArithAssumption, QosAssumption
<1> SUFFICES ASSUME Init PROVE IInv
  OBVIOUS
<1>1. DefaultRate \div 8 \in 0 .. U64 - 1 /\ MaxRate \div 8 \in Nat
  OBVIOUS
<1>2. TypeOK
  <2>1. 1 < U64 /\ 0 \in 0 .. MaxRate /\ DefaultRate \in 0 .. MaxRate
    OBVIOUS
  <2>2. \A t \in Tenants : since[t] <= tenants[t].last_tsc /\ tenants[t].last_tsc <= tsc
    BY DEF Init
  <2>3. tenants \in [Tenants -> BucketType]
    BY <1>1, <2>1 DEF Init, BucketType
  <2>4. /\ policies \in [0 .. MaxPolicies - 1 -> 0 .. MaxRate]
        /\ policy_count \in 0 .. MaxPolicies
        /\ tsc \in Nat \ {0} /\ tsc < U64
    <3>1. policies = [i \in 0 .. MaxPolicies - 1 |-> 0] /\ policy_count = 0 /\ tsc = 1
      BY DEF Init
    <3> QED BY <2>1, <3>1
  <2>5. /\ admitted \in [Tenants -> Nat] /\ since \in [Tenants -> Nat]
        /\ handled \in [Tenants -> Nat] /\ running \in BOOLEAN
    BY DEF Init
  <2> QED BY <2>2, <2>3, <2>4, <2>5 DEF TypeOK, BucketType
<1>3. AdmissionBound
  <2> SUFFICES ASSUME NEW t \in Tenants
               PROVE  Hz * (tenants[t].tokens_bytes + admitted[t]) <=
                        Hz * (DefaultRate \div 8)
                        + (MaxRate \div 8) * (tenants[t].last_tsc - since[t])
    BY DEF AdmissionBound
  <2>1. /\ tenants[t].tokens_bytes = DefaultRate \div 8 /\ tenants[t].last_tsc = 0
        /\ admitted[t] = 0 /\ since[t] = 0
    BY DEF Init
  <2>2. (MaxRate \div 8) * 0 = 0 /\ DefaultRate \div 8 + 0 = DefaultRate \div 8
    BY <1>1
  <2> QED BY <1>1, <2>1, <2>2
<1> QED BY <1>2, <1>3 DEF IInv

\* No step changes the types.
LEMMA TypeStep == TypeOK /\ [Next]_vars => TypeOK'
<1> USE ArithAssumption, QosAssumption
<1> SUFFICES ASSUME TypeOK, [Next]_vars PROVE TypeOK'
  OBVIOUS
<1>1. ASSUME NEW a \in Actions, UpdatePolicy(a.policy_id, a.rate_limit_bps)
      PROVE  TypeOK'
  <2>1. a.policy_id \in 0 .. MaxPolicies - 1 /\ a.rate_limit_bps \in 0 .. MaxRate
    BY <1>1 DEF UpdatePolicy
  <2>2. policies' \in [0 .. MaxPolicies - 1 -> 0 .. MaxRate]
    BY <1>1, <2>1 DEF UpdatePolicy, TypeOK
  <2>3. policy_count' \in 0 .. MaxPolicies
    BY <1>1, <2>1 DEF UpdatePolicy, TypeOK
  <2> QED BY <1>1, <2>2, <2>3 DEF UpdatePolicy, TypeOK, history
<1>2. CASE Start
  BY <1>2 DEF Start, TypeOK, history
<1>3. ASSUME NEW a \in Actions, NEW len \in Lens, NEW now \in 1 .. tsc, Apply(a, len, now)
      PROVE  TypeOK'
  <2> DEFINE t == a.tenant_id
  <2>1. /\ t \in Tenants /\ now \in Nat /\ now <= tsc /\ len \in Nat
        /\ tenants[t].last_tsc <= now
        /\ tenants' = [tenants EXCEPT ![t] = Bucket(a, len, now)]
        /\ Bucket(a, len, now) \in BucketType
        /\ Bucket(a, len, now).last_tsc = now
    BY <1>3, ApplyEffect DEF TypeOK
  <2>2. tenants' \in [Tenants -> BucketType]
    BY <2>1 DEF TypeOK, BucketType
  <2>3. admitted' \in [Tenants -> Nat]
    <3>1. admitted[t] \in Nat /\ admitted[t] + len \in Nat
      BY <2>1 DEF TypeOK
    <3>2. admitted' = admitted \/ admitted' = [admitted EXCEPT ![t] = admitted[t] + len]
      BY <1>3, ApplyEffect
    <3> QED BY <3>1, <3>2 DEF TypeOK
  <2>4. since' \in [Tenants -> Nat] /\ handled' \in [Tenants -> Nat]
    <3>1. /\ since' = [since EXCEPT ![t] = IF tenants[t].last_tsc = 0 THEN now ELSE since[t]]
          /\ handled' = [handled EXCEPT ![t] = handled[t] + 1]
      BY <1>3 DEF Apply
    <3>2. since[t] \in Nat /\ handled[t] + 1 \in Nat
      BY <2>1 DEF TypeOK
    <3> QED BY <2>1, <3>1, <3>2 DEF TypeOK
  <2>5. UNCHANGED <<policies, policy_count, running, tsc>>
    BY <1>3 DEF Apply
  <2>6. \A u \in Tenants : since'[u] <= tenants'[u].last_tsc /\ tenants'[u].last_tsc <= tsc'
    <3> SUFFICES ASSUME NEW u \in Tenants
                 PROVE  since'[u] <= tenants'[u].last_tsc /\ tenants'[u].last_tsc <= tsc'
      OBVIOUS
    <3>1. CASE u = t
      <4>1. tenants'[t].last_tsc = now
        BY <2>1 DEF TypeOK
      <4>2. since'[t] = IF tenants[t].last_tsc = 0 THEN now ELSE since[t]
        BY <1>3, <2>1 DEF Apply, TypeOK
      <4>3. since[t] <= tenants[t].last_tsc /\ since[t] \in Nat /\ tenants[t].last_tsc \in Nat
        BY <2>1 DEF TypeOK
      <4> QED BY <2>1, <2>5, <3>1, <4>1, <4>2, <4>3
    <3>2. CASE u # t
      BY <1>3, <2>1, <2>5, <3>2 DEF Apply, TypeOK
    <3> QED BY <3>1, <3>2
  <2> QED BY <2>2, <2>3, <2>4, <2>5, <2>6 DEF TypeOK, BucketType
<1>4. CASE Tick
  BY <1>4 DEF Tick, TypeOK, history
<1>5. CASE UNCHANGED vars
  BY <1>5 DEF vars, TypeOK
<1> QED BY <1>1, <1>2, <1>3, <1>4, <1>5 DEF Next

\* No step admits more than the bound (dp_qos_apply, dp_qos_update_policy, time).
LEMMA BoundStep == IInv /\ [Next]_vars => AdmissionBound'
<1> USE ArithAssumption, QosAssumption
<1> SUFFICES ASSUME IInv, [Next]_vars PROVE AdmissionBound'
  OBVIOUS
<1> USE DEF IInv
<1>1. ASSUME NEW a \in Actions, NEW len \in Lens, NEW now \in 1 .. tsc, Apply(a, len, now)
      PROVE  AdmissionBound'
  <2> DEFINE t == a.tenant_id
             b == tenants[t]
             filled == Refilled(b, now)
             R == MaxRate \div 8
             B == Hz * (DefaultRate \div 8)
  <2>1. /\ t \in Tenants /\ b \in BucketType
        /\ now \in Nat /\ now < U64 /\ b.last_tsc <= now /\ len \in Nat
        /\ filled \in 0 .. U64 - 1
        /\ tenants' = [tenants EXCEPT ![t] = Bucket(a, len, now)]
        /\ Bucket(a, len, now).last_tsc = now
    BY <1>1, ApplyEffect
  <2>2. /\ tenants'[t] = Bucket(a, len, now)
        /\ admitted[t] \in Nat /\ since[t] \in Nat /\ since[t] <= b.last_tsc
        /\ b.last_tsc \in Nat /\ b.tokens_bytes \in Nat
        /\ since'[t] = IF b.last_tsc = 0 THEN now ELSE since[t]
    <3>1. tenants'[t] = Bucket(a, len, now)
      BY <2>1 DEF TypeOK
    <3>2. /\ admitted[t] \in Nat /\ since[t] \in Nat /\ since[t] <= b.last_tsc
          /\ b.last_tsc \in Nat /\ b.tokens_bytes \in Nat
      BY <2>1 DEF TypeOK, BucketType
    <3>3. since' = [since EXCEPT ![t] = IF tenants[t].last_tsc = 0 THEN now ELSE since[t]]
      BY <1>1 DEF Apply
    <3>4. since'[t] = IF b.last_tsc = 0 THEN now ELSE since[t]
      BY <2>1, <3>3 DEF TypeOK
    <3> QED BY <3>1, <3>2, <3>4
  <2>3. tenants'[t].tokens_bytes + admitted'[t] = filled + admitted[t]
    <3> HIDE DEF filled
    <3>1. CASE /\ Bucket(a, len, now).tokens_bytes = filled /\ admitted' = admitted
      BY <2>2, <3>1
    <3>2. CASE /\ Bucket(a, len, now).tokens_bytes = filled - len
               /\ admitted' = [admitted EXCEPT ![t] = @ + len]
      <4>1. admitted'[t] = admitted[t] + len
        BY <2>1, <3>2 DEF TypeOK
      <4> QED BY <2>1, <2>2, <3>2, <4>1
    <3> QED BY <1>1, <3>1, <3>2, ApplyEffect DEF filled
  <2>4. /\ R \in Nat /\ B \in Nat
        /\ Hz * (b.tokens_bytes + admitted[t]) <= B + R * (b.last_tsc - since[t])
    BY <2>1 DEF AdmissionBound
  <2>5. Hz * (filled + admitted[t]) <= B + R * (now - since'[t])
    <3> HIDE DEF filled, R, B
    <3>1. /\ Hz * (b.tokens_bytes + admitted[t]) = Hz * b.tokens_bytes + Hz * admitted[t]
          /\ Hz * (filled + admitted[t]) = Hz * filled + Hz * admitted[t]
          /\ Hz * b.tokens_bytes \in Nat /\ Hz * admitted[t] \in Nat /\ Hz * filled \in Nat
      BY <2>1, <2>2
    <3>2. CASE b.last_tsc = 0
      <4>1. filled = b.tokens_bytes
        BY <2>1, <3>2, RefillBound DEF filled
      <4>2. b.last_tsc - since[t] = 0 /\ now - since'[t] = 0
        BY <2>1, <2>2, <3>2
      <4> QED BY <2>4, <4>1, <4>2
    <3>3. CASE b.last_tsc # 0
      <4>1. Hz * filled <= Hz * b.tokens_bytes + R * (now - b.last_tsc)
        BY <2>1, <3>3, RefillBound DEF filled, R
      <4>2. now - since'[t] = (now - b.last_tsc) + (b.last_tsc - since[t])
        BY <2>1, <2>2, <3>3
      <4>3. R * (now - since'[t]) = R * (now - b.last_tsc) + R * (b.last_tsc - since[t])
        BY <2>1, <2>2, <2>4, <4>2
      <4>4. R * (now - b.last_tsc) \in Nat /\ R * (b.last_tsc - since[t]) \in Nat
        BY <2>1, <2>2, <2>4
      <4> QED BY <2>4, <3>1, <4>1, <4>3, <4>4
    <3> QED BY <3>2, <3>3
  <2> SUFFICES ASSUME NEW u \in Tenants
               PROVE  Hz * (tenants'[u].tokens_bytes + admitted'[u]) <=
                        B + R * (tenants'[u].last_tsc - since'[u])
    BY DEF AdmissionBound
  <2>6. CASE u = t
    <3> HIDE DEF filled, B, R
    <3> QED BY <2>1, <2>2, <2>3, <2>5, <2>6
  <2>7. CASE u # t
    <3>1. tenants'[u] = tenants[u] /\ admitted'[u] = admitted[u] /\ since'[u] = since[u]
      BY <1>1, <2>1, <2>7 DEF Apply, TypeOK
    <3> QED BY <3>1 DEF AdmissionBound
  <2> QED BY <2>6, <2>7
<1>2. ASSUME UNCHANGED <<tenants, admitted, since>> PROVE AdmissionBound'
  BY <1>2 DEF AdmissionBound
<1>3. Start \/ Tick \/ (\E a \in Actions : UpdatePolicy(a.policy_id, a.rate_limit_bps))
        \/ UNCHANGED vars => UNCHANGED <<tenants, admitted, since>>
  BY DEF Start, Tick, UpdatePolicy, vars, history
<1> QED BY <1>1, <1>2, <1>3 DEF Next

\* dp_qos_apply and dp_qos_update_policy keep every bucket a word, every id in
\* range and every stamp behind the counter.
THEOREM TypeCorrect == Spec => []TypeOK
<1>1. Init => TypeOK
  BY InitIInv DEF IInv
<1> QED BY <1>1, TypeStep, PTL DEF Spec

\* No tenant is admitted more than its burst and the highest rate allow.
THEOREM AdmissionCorrect == Spec => []AdmissionBound
<1>1. IInv /\ [Next]_vars => IInv'
  BY TypeStep, BoundStep DEF IInv
<1>2. IInv => AdmissionBound
  BY DEF IInv
<1> QED BY InitIInv, <1>1, <1>2, PTL DEF Spec
-----------------------------------------------------------------------------
\* The loss: what the wrapping of a product would take is excluded by NoWrap,
\* so only the remainders of the divisions are lost.

\* What a packet stamped now earns its bucket, before the division, ...
Exact(b, now) == (b.rate_limit_bps \div 8) * (now - b.last_tsc)
\* ... and that neither this product nor the sum of the refill wraps.
Fits(b, now) == Exact(b, now) < U64 /\ b.tokens_bytes + Exact(b, now) \div Hz < U64

\* No refill of the step wraps.
NoWrap ==
  \A t \in Tenants : tenants[t].last_tsc # 0 =>
    Fits(tenants[t], tenants'[t].last_tsc)

\* Every bucket refills at a configured rate, never at the 0 of "no rate".
RatesConfigured ==
  /\ \A t \in Tenants : tenants[t].rate_limit_bps \in Rates
  /\ \A i \in 0 .. MaxPolicies - 1 : policies[i] \in Rates \cup {0}

LossInv == TypeOK /\ RatesConfigured /\ LossPerPacket

\* The configured rates have a least one.
LEMMA MinRateLeast == MinRate \in Rates /\ Rates \subseteq Nat /\ \A r \in Rates : MinRate <= r
<1> USE QosAssumption
<1>1. DefaultRate \in Rates /\ Rates \in SUBSET Nat
  BY DEF Rates
<1> HIDE DEF Rates
<1> DEFINE R == OpToRel(<, Nat)
<1>2. PICK x \in Rates : \A y \in Rates : ~(<<y, x>> \in R)
  <2> HIDE DEF R
  <2>1. IsWellFoundedOn(R, Nat)
    BY NatLessThanWellFounded DEF R
  <2> QED BY <1>1, <2>1, WFMin
<1>3. \A y \in Rates : x <= y
  <2> TAKE y \in Rates
  <2>1. ~(y < x)
    BY <1>1, <1>2 DEF OpToRel
  <2> QED BY <1>1, <2>1
<1>4. \E r \in Rates : \A s \in Rates : r <= s
  BY <1>3
<1>5. MinRate \in Rates /\ \A s \in Rates : MinRate <= s
  <2> DEFINE P(r) == r \in Rates /\ \A s \in Rates : r <= s
  <2>1. P(CHOOSE r \in Rates : \A s \in Rates : r <= s)
    BY <1>4, Zenon
  <2> QED BY <2>1 DEF MinRate
<1> QED BY <1>1, <1>5

\* A quotient loses less than the divisor.
LEMMA DivLoss ==
  ASSUME NEW n \in Nat, NEW m \in Nat \ {0}
  PROVE  n \div m \in Nat /\ m * (n \div m) >= n - (m - 1)
<1>1. n = m * (n \div m) + (n % m) /\ n % m \in 0 .. m - 1
  OBVIOUS
<1>2. n \div m \in Nat
  OBVIOUS
<1>3. m * (n \div m) \in Nat
  BY <1>2
<1> QED BY <1>1, <1>2, <1>3

\* What a refill that does not wrap adds, at least (dp_qos_apply).
LEMMA RefillLoss ==
  ASSUME NEW b \in BucketType, NEW now \in Nat, b.last_tsc <= now, now < U64,
         b.last_tsc # 0, b.rate_limit_bps \in Rates, Fits(b, now)
  PROVE  Hz * Refilled(b, now) + (Hz - 1) >=
           Hz * b.tokens_bytes + (MinRate \div 8) * (now - b.last_tsc)
<1> DEFINE delta == now - b.last_tsc
           rate == b.rate_limit_bps \div 8
           exact == rate * delta
           r == exact \div Hz
<1> USE ArithAssumption, QosAssumption
<1>1. b.tokens_bytes \in Nat /\ b.last_tsc \in Nat /\ b.rate_limit_bps \in Nat
  BY DEF BucketType
<1>2. delta \in Nat /\ delta % U64 = delta
  BY <1>1
<1>3. MinRate \div 8 \in Nat /\ rate \in Nat /\ MinRate \div 8 <= rate
  <2>1. MinRate \in Nat /\ MinRate <= b.rate_limit_bps
    BY MinRateLeast
  <2> QED BY <1>1, <2>1
<1>4. exact \in Nat /\ (MinRate \div 8) * delta \in Nat /\ (MinRate \div 8) * delta <= exact
  BY <1>2, <1>3, ProductMono
<1>5. exact < U64 /\ b.tokens_bytes + r < U64
  BY DEF Fits, Exact
<1>6. Refilled(b, now) = (b.tokens_bytes + (exact % U64) \div Hz) % U64
  BY <1>2 DEF Refilled, RateToTokens
<1> HIDE DEF rate, delta
<1>7. exact % U64 = exact
  BY <1>4, <1>5
<1> HIDE DEF exact
<1>8. r \in Nat /\ Hz * r >= exact - (Hz - 1)
  BY <1>4, DivLoss
<1>9. Refilled(b, now) = b.tokens_bytes + r
  <2>1. Refilled(b, now) = (b.tokens_bytes + r) % U64
    BY <1>6, <1>7
  <2> HIDE DEF r
  <2>2. b.tokens_bytes + r \in 0 .. U64 - 1
    BY <1>1, <1>5, <1>8
  <2> QED BY <2>1, <2>2
<1> HIDE DEF r
<1>10. Hz * (b.tokens_bytes + r) = Hz * b.tokens_bytes + Hz * r
  BY <1>1, <1>8
<1>11. Hz * b.tokens_bytes \in Nat /\ Hz * r \in Nat
  BY <1>1, <1>8
<1> QED BY <1>4, <1>8, <1>9, <1>10, <1>11 DEF delta

\* dp_qos_init: the burst is the whole account, at a configured rate.
LEMMA InitLoss == Init => LossInv
<1> USE ArithAssumption, QosAssumption
<1> SUFFICES ASSUME Init PROVE LossInv
  OBVIOUS
<1>1. TypeOK
  BY InitIInv DEF IInv
<1>2. RatesConfigured
  BY DEF RatesConfigured, Rates, Init
<1>3. LossPerPacket
  <2> SUFFICES ASSUME NEW t \in Tenants
               PROVE  Hz * (tenants[t].tokens_bytes + admitted[t]) + handled[t] * (Hz - 1)
                        >= Earned(t)
    BY DEF LossPerPacket
  <2>1. /\ tenants[t].tokens_bytes = DefaultRate \div 8 /\ tenants[t].last_tsc = 0
        /\ admitted[t] = 0 /\ since[t] = 0 /\ handled[t] = 0
    BY DEF Init
  <2>2. DefaultRate \div 8 \in Nat /\ MinRate \div 8 \in Int
    <3>1. MinRate \in Nat
      BY MinRateLeast
    <3> QED BY <3>1
  <2>3. (MinRate \div 8) * (0 - 0) = 0 /\ 0 * (Hz - 1) = 0
    BY <2>2
  <2>4. Hz * (DefaultRate \div 8) \in Nat
    BY <2>2
  <2> QED BY <2>1, <2>2, <2>3, <2>4 DEF Earned
<1> QED BY <1>1, <1>2, <1>3 DEF LossInv

\* A packet leaves its bucket with a configured rate (dp_qos_apply).
LEMMA RatesStep == LossInv /\ [Next]_vars => RatesConfigured'
<1> USE QosAssumption
<1> SUFFICES ASSUME TypeOK, RatesConfigured, [Next]_vars PROVE RatesConfigured'
  BY DEF LossInv
<1>1. ASSUME NEW a \in Actions, NEW len \in Lens, NEW now \in 1 .. tsc, Apply(a, len, now)
      PROVE  RatesConfigured'
  <2> DEFINE t == a.tenant_id
             rate == EffectiveRate(a.rate_limit_bps, PolicyRate(a.policy_id),
                                   tenants[t].rate_limit_bps)
  <2>1. t \in Tenants /\ tenants' = [tenants EXCEPT ![t] = Bucket(a, len, now)]
    BY <1>1, ApplyEffect
  <2>2. a.rate_limit_bps \in Rates \cup {0} /\ tenants[t].rate_limit_bps \in Rates
    BY <2>1 DEF Rates, RatesConfigured
  <2>3. PolicyRate(a.policy_id) \in Rates \cup {0}
    BY DEF PolicyRate, RatesConfigured, TypeOK
  <2>4. rate \in Rates
    BY <2>2, <2>3 DEF EffectiveRate
  <2>5. Bucket(a, len, now).rate_limit_bps = rate
    BY DEF Bucket
  <2> HIDE DEF rate
  <2>6. \A u \in Tenants : tenants'[u].rate_limit_bps \in Rates
    BY <2>1, <2>4, <2>5 DEF TypeOK, RatesConfigured
  <2>7. policies' = policies
    BY <1>1 DEF Apply
  <2> QED BY <2>6, <2>7 DEF RatesConfigured
<1>2. ASSUME NEW a \in Actions, UpdatePolicy(a.policy_id, a.rate_limit_bps)
      PROVE  RatesConfigured'
  <2>1. a.rate_limit_bps \in Rates \cup {0}
    BY DEF Rates
  <2>2. /\ policies' = [policies EXCEPT ![a.policy_id] = a.rate_limit_bps]
        /\ tenants' = tenants
    BY <1>2 DEF UpdatePolicy
  <2> QED BY <2>1, <2>2 DEF RatesConfigured, TypeOK
<1>3. ASSUME UNCHANGED <<tenants, policies>> PROVE RatesConfigured'
  BY <1>3 DEF RatesConfigured
<1>4. Start \/ Tick \/ UNCHANGED vars => UNCHANGED <<tenants, policies>>
  BY DEF Start, Tick, vars
<1> QED BY <1>1, <1>2, <1>3, <1>4 DEF Next

\* No step loses a token more than the packets account for.
LEMMA LossStep == LossInv /\ [Next]_vars /\ [NoWrap]_vars => LossPerPacket'
<1> USE ArithAssumption, QosAssumption
<1> SUFFICES ASSUME TypeOK, RatesConfigured, LossPerPacket, [Next]_vars, [NoWrap]_vars
             PROVE  LossPerPacket'
  BY DEF LossInv
<1> DEFINE M == MinRate \div 8
           B == Hz * (DefaultRate \div 8)
<1>0. M \in Nat /\ B \in Nat
  <2>1. MinRate \in Nat /\ DefaultRate \div 8 \in Nat
    BY MinRateLeast
  <2> QED BY <2>1
<1>1. ASSUME NEW a \in Actions, NEW len \in Lens, NEW now \in 1 .. tsc, Apply(a, len, now)
      PROVE  LossPerPacket'
  <2> DEFINE t == a.tenant_id
             b == tenants[t]
             filled == Refilled(b, now)
  <2>1. /\ t \in Tenants /\ b \in BucketType
        /\ now \in Nat /\ now < U64 /\ b.last_tsc <= now /\ len \in Nat
        /\ filled \in 0 .. U64 - 1
        /\ tenants' = [tenants EXCEPT ![t] = Bucket(a, len, now)]
        /\ Bucket(a, len, now).last_tsc = now
    BY ONLY TypeOK, <1>1, ApplyEffect
  <2>2. /\ tenants'[t] = Bucket(a, len, now)
        /\ admitted[t] \in Nat /\ since[t] \in Nat /\ since[t] <= b.last_tsc
        /\ handled[t] \in Nat
        /\ b.last_tsc \in Nat /\ b.tokens_bytes \in Nat
        /\ since'[t] = IF b.last_tsc = 0 THEN now ELSE since[t]
        /\ handled'[t] = handled[t] + 1
    <3>1. tenants'[t] = Bucket(a, len, now)
      BY <2>1 DEF TypeOK
    <3>2. /\ admitted[t] \in Nat /\ since[t] \in Nat /\ since[t] <= b.last_tsc
          /\ b.last_tsc \in Nat /\ b.tokens_bytes \in Nat /\ handled[t] \in Nat
      BY <2>1 DEF TypeOK, BucketType
    <3>3. /\ since' = [since EXCEPT ![t] = IF tenants[t].last_tsc = 0 THEN now ELSE since[t]]
          /\ handled' = [handled EXCEPT ![t] = handled[t] + 1]
      BY <1>1 DEF Apply
    <3>4. /\ since'[t] = IF b.last_tsc = 0 THEN now ELSE since[t]
          /\ handled'[t] = handled[t] + 1
      BY <2>1, <3>3 DEF TypeOK
    <3> QED BY <3>1, <3>2, <3>4
  <2>3. tenants'[t].tokens_bytes + admitted'[t] = filled + admitted[t]
    <3> HIDE DEF filled
    <3>1. CASE /\ Bucket(a, len, now).tokens_bytes = filled /\ admitted' = admitted
      BY <2>2, <3>1
    <3>2. CASE /\ Bucket(a, len, now).tokens_bytes = filled - len
               /\ admitted' = [admitted EXCEPT ![t] = @ + len]
      <4>1. admitted'[t] = admitted[t] + len
        BY <2>1, <3>2 DEF TypeOK
      <4> QED BY <2>1, <2>2, <3>2, <4>1
    <3> QED BY <1>1, <3>1, <3>2, ApplyEffect DEF filled
  <2>4. Hz * (b.tokens_bytes + admitted[t]) + handled[t] * (Hz - 1)
          >= B + M * (b.last_tsc - since[t])
    BY <2>1 DEF LossPerPacket, Earned
  <2>5. Hz * (filled + admitted[t]) + (handled[t] + 1) * (Hz - 1)
          >= B + M * (now - since'[t])
    <3> DEFINE lost == handled[t] * (Hz - 1)
    <3>0. lost \in Nat /\ (handled[t] + 1) * (Hz - 1) = lost + (Hz - 1)
      BY <2>2
    <3> HIDE DEF filled, M, B, lost
    <3>1. /\ Hz * (b.tokens_bytes + admitted[t]) = Hz * b.tokens_bytes + Hz * admitted[t]
          /\ Hz * (filled + admitted[t]) = Hz * filled + Hz * admitted[t]
          /\ Hz * b.tokens_bytes \in Nat /\ Hz * admitted[t] \in Nat /\ Hz * filled \in Nat
      BY <2>1, <2>2
    <3>2. CASE b.last_tsc = 0
      <4>1. filled = b.tokens_bytes
        BY <2>1, <3>2, RefillBound DEF filled
      <4>2. b.last_tsc - since[t] = 0 /\ now - since'[t] = 0
        BY <2>1, <2>2, <3>2
      <4>3. Hz * (filled + admitted[t]) + lost >= B + M * 0
        BY <2>4, <4>1, <4>2 DEF lost
      <4> QED BY <1>0, <3>0, <3>1, <4>2, <4>3
    <3>3. CASE b.last_tsc # 0
      <4>1. Hz * filled + (Hz - 1) >= Hz * b.tokens_bytes + M * (now - b.last_tsc)
        <5>1. b.rate_limit_bps \in Rates
          BY <2>1 DEF RatesConfigured
        <5>2. NoWrap \/ tenants' = tenants
          BY DEF vars
        <5>3. CASE NoWrap
          <6>1. Fits(b, now)
            BY <2>1, <2>2, <3>3, <5>3 DEF NoWrap
          <6> QED BY <2>1, <3>3, <5>1, <6>1, RefillLoss DEF filled, M
        <5>4. CASE tenants' = tenants /\ handled' = handled
          BY <2>2, <5>4
        <5> QED BY <5>3, <5>4 DEF vars
      <4>2. now - since'[t] = (now - b.last_tsc) + (b.last_tsc - since[t])
        BY <2>1, <2>2, <3>3
      <4>3. M * (now - since'[t]) = M * (now - b.last_tsc) + M * (b.last_tsc - since[t])
        BY <1>0, <2>1, <2>2, <4>2
      <4>4. M * (now - b.last_tsc) \in Nat /\ M * (b.last_tsc - since[t]) \in Nat
        BY <1>0, <2>1, <2>2
      <4>5. Hz * b.tokens_bytes + Hz * admitted[t] + lost >= B + M * (b.last_tsc - since[t])
        BY <2>4, <3>1 DEF lost
      <4> QED BY <1>0, <3>0, <3>1, <4>1, <4>3, <4>4, <4>5
    <3> QED BY <3>2, <3>3
  <2> SUFFICES ASSUME NEW u \in Tenants
               PROVE  Hz * (tenants'[u].tokens_bytes + admitted'[u])
                        + handled'[u] * (Hz - 1)
                        >= B + M * (tenants'[u].last_tsc - since'[u])
    BY DEF LossPerPacket, Earned
  <2>6. CASE u = t
    <3> HIDE DEF filled, B, M
    <3> QED BY <2>1, <2>2, <2>3, <2>5, <2>6
  <2>7. CASE u # t
    <3>1. /\ tenants'[u] = tenants[u] /\ admitted'[u] = admitted[u] /\ since'[u] = since[u]
          /\ handled'[u] = handled[u]
      BY <1>1, <2>1, <2>7 DEF Apply, TypeOK
    <3> QED BY <3>1 DEF LossPerPacket, Earned
  <2> QED BY <2>6, <2>7
<1>2. ASSUME UNCHANGED <<tenants, admitted, since, handled>> PROVE LossPerPacket'
  BY <1>2 DEF LossPerPacket, Earned
<1>3. Start \/ Tick \/ (\E a \in Actions : UpdatePolicy(a.policy_id, a.rate_limit_bps))
        \/ UNCHANGED vars => UNCHANGED <<tenants, admitted, since, handled>>
  BY DEF Start, Tick, UpdatePolicy, vars, history
<1> QED BY <1>1, <1>2, <1>3 DEF Next

\* In a behaviour where no refill wraps, each packet costs a tenant less than
\* one token of what its idle time earned at the least configured rate, and its
\* initial burst is never taken from it (dp_qos_rate_to_tokens, dp_qos_apply).
THEOREM LossCorrect == Spec /\ [][NoWrap]_vars => []LossPerPacket
<1>1. LossInv /\ [Next]_vars /\ [NoWrap]_vars => LossInv'
  BY TypeStep, RatesStep, LossStep DEF LossInv
<1>2. LossInv => LossPerPacket
  BY DEF LossInv
<1> QED BY InitLoss, <1>1, <1>2, PTL DEF Spec
-----------------------------------------------------------------------------
\* The refinement.
Working ==
  [pc : {"last", "refill", "stamp", "rate", "check", "take"}, a : Actions, len : Lens,
   now : Nat, last : Nat, tokens : 0 .. U64 - 1, rate : 0 .. MaxRate, before : BucketType]

\* The tokens lcore l has once it has refilled, ...
FilledBy(l) == Refilled(lcore[l].before, lcore[l].now)

\* ... the bucket in memory after the stores it has done so far ...
Stored(l) ==
  [tokens_bytes   |-> IF lcore[l].pc \in {"last", "refill"}
                      THEN lcore[l].before.tokens_bytes ELSE FilledBy(l),
   last_tsc       |-> IF lcore[l].pc \in {"last", "refill", "stamp"}
                      THEN lcore[l].before.last_tsc ELSE lcore[l].now,
   rate_limit_bps |-> IF lcore[l].pc \in {"check", "take"}
                      THEN EffectiveRate(lcore[l].a.rate_limit_bps,
                                         PolicyRate(lcore[l].a.policy_id),
                                         lcore[l].before.rate_limit_bps)
                      ELSE lcore[l].before.rate_limit_bps]

\* ... and what it has in its registers.
Registers(l) ==
  /\ At(l, "refill") =>
       /\ lcore[l].last = lcore[l].before.last_tsc /\ lcore[l].last # 0
       /\ lcore[l].tokens = lcore[l].before.tokens_bytes
       /\ lcore[l].rate = lcore[l].before.rate_limit_bps
  /\ ~At(l, "last") /\ ~At(l, "refill") => lcore[l].tokens = FilledBy(l)
  /\ At(l, "take") => FilledBy(l) >= lcore[l].len

\* An lcore in dp_qos_apply ...
InApply(l) ==
  /\ lcore[l] \in Working
  /\ running
  /\ T(l) \in Tenants
  /\ 0 < lcore[l].now /\ lcore[l].now <= tsc

\* ... whose bucket no other has worked on meanwhile: it is as found but for
\* the stores of l.
Undisturbed(l) ==
  /\ lcore[l].before.last_tsc <= lcore[l].now
  /\ since[T(l)] <= lcore[l].before.last_tsc
  /\ handled[T(l)] < MaxPackets
  /\ Mem(l) = Stored(l)
  /\ Registers(l)

Snapshot == [bucket : BucketType, admitted : Nat, since : Nat, handled : Nat]

SharedTypes ==
  /\ tenants \in [Tenants -> BucketType]
  /\ policies \in [0 .. MaxPolicies - 1 -> 0 .. MaxRate]
  /\ policy_count \in 0 .. MaxPolicies
  /\ running \in BOOLEAN
  /\ tsc \in Nat \ {0}
  /\ admitted \in [Tenants -> Nat]
  /\ since \in [Tenants -> Nat]
  /\ handled \in [Tenants -> Nat]
  /\ lcore \in [Lcores -> Working \cup {Idle}]
  /\ raced \subseteq Tenants
  /\ kept \in [Tenants -> Snapshot]
  /\ \A t \in Tenants : tenants[t].last_tsc <= tsc

Free(t) == \A l \in Lcores : At(l, "idle") \/ T(l) # t

\* A bucket nobody works on was not stamped before its first packet.
FreeSince ==
  \A t \in Tenants \ raced : Free(t) => since[t] <= tenants[t].last_tsc

\* Two lcores on one bucket are on record.
RacesKnown ==
  \A l, m \in Lcores :
    l # m /\ ~At(l, "idle") /\ ~At(m, "idle") /\ T(l) = T(m) => T(l) \in raced

SharedInv ==
  /\ SharedTypes
  /\ \A l \in Lcores : ~At(l, "idle") => InApply(l)
  /\ \A l \in Lcores : ~At(l, "idle") /\ T(l) \notin raced => Undisturbed(l)
  /\ RacesKnown
  /\ FreeSince

LEMMA SharedInit == SInit => SharedInv
<1> USE ArithAssumption, QosAssumption
<1> SUFFICES ASSUME SInit PROVE SharedInv
  OBVIOUS
<1>1. TypeOK
  BY InitIInv DEF IInv, SInit
<1>2. SharedTypes
  <2>1. kept \in [Tenants -> Snapshot] /\ raced = {}
    <3>1. \A t \in Tenants : tenants[t] \in BucketType
      BY <1>1 DEF TypeOK, BucketType
    <3> QED BY <3>1 DEF SInit, Snapshot
  <2>2. /\ tenants \in [Tenants -> BucketType]
        /\ \A t \in Tenants : tenants[t].last_tsc <= tsc
    BY <1>1 DEF TypeOK, BucketType
  <2> QED BY <1>1, <2>1, <2>2 DEF TypeOK, SharedTypes, SInit
<1>3. \A l \in Lcores : At(l, "idle")
  BY DEF SInit, Idle, At
<1>4. FreeSince
  BY DEF FreeSince, SInit, Init
<1> QED BY <1>2, <1>3, <1>4 DEF SharedInv, RacesKnown

\* What a settled bucket is, now and after a step.
SettledFacts ==
  /\ \A l \in Lcores : ~At(l, "idle") /\ T(l) \notin raced => Settled[T(l)] = lcore[l].before
  /\ \A t \in Tenants : Free(t) => Settled[t] = tenants[t]

LEMMA SettledIs == SharedInv => SettledFacts
<1> SUFFICES ASSUME SharedInv PROVE SettledFacts
  OBVIOUS
<1>1. ASSUME NEW l \in Lcores, ~At(l, "idle"), T(l) \notin raced
      PROVE  Settled[T(l)] = lcore[l].before
  <2>1. T(l) \in Tenants
    BY <1>1 DEF SharedInv, InApply
  <2>2. \A m \in Lcores : ~At(m, "idle") /\ T(m) = T(l) => m = l
    BY <1>1 DEF SharedInv, RacesKnown
  <2>3. Busy(T(l)) = {l}
    BY <1>1, <2>2 DEF Busy
  <2>4. (CHOOSE m \in Busy(T(l)) : TRUE) = l /\ Busy(T(l)) # {}
    BY <2>3
  <2>5. Settled[T(l)] = lcore[CHOOSE m \in Busy(T(l)) : TRUE].before
    BY <2>1, <2>4 DEF Settled
  <2> QED BY <2>4, <2>5
<1>2. ASSUME NEW t \in Tenants, Free(t)
      PROVE  Settled[t] = tenants[t]
  <2>1. Busy(t) = {}
    BY <1>2 DEF Busy, Free
  <2> QED BY <2>1 DEF Settled
<1> QED BY <1>1, <1>2 DEF SettledFacts

LEMMA SettledNext == SharedInv' => SettledFacts'
BY SettledIs, PTL

\* A step that settles no bucket but raced ones.
SettledSame == \A u \in Tenants \ raced : Settled'[u] = Settled[u]

\* A step of lcore l on bucket t leaves the packets and buckets of others alone.
LEMMA OwnBucket ==
  ASSUME SharedInv, NEW l \in Lcores, NEW t \in Tenants,
         \A m \in Lcores : m # l /\ ~At(m, "idle") /\ T(m) = t => t \in raced',
         raced \subseteq raced',
         \A m \in Lcores : m # l => lcore'[m] = lcore[m],
         \A u \in Tenants : u # t => /\ tenants'[u] = tenants[u]
                                     /\ since'[u] = since[u] /\ handled'[u] = handled[u],
         UNCHANGED <<policies, policy_count, running, tsc>>
  PROVE  \A m \in Lcores : m # l /\ ~At(m, "idle")' =>
           /\ InApply(m)'
           /\ T(m)' \notin raced' => Undisturbed(m)' /\ T(m)' # t
<1> SUFFICES ASSUME NEW m \in Lcores, m # l, ~At(m, "idle")'
             PROVE  /\ InApply(m)'
                    /\ T(m)' \notin raced' => Undisturbed(m)' /\ T(m)' # t
  OBVIOUS
<1>1. lcore'[m] = lcore[m] /\ T(m)' = T(m) /\ ~At(m, "idle")
  BY DEF At, T
<1>2. InApply(m)
  BY <1>1 DEF SharedInv
<1>3. InApply(m)'
  BY <1>1, <1>2 DEF InApply
<1>4. ASSUME T(m)' \notin raced' PROVE Undisturbed(m)' /\ T(m)' # t
  <2>1. T(m) \in Tenants /\ T(m) # t /\ T(m) \notin raced
    BY <1>1, <1>2, <1>4 DEF InApply
  <2>2. Undisturbed(m)
    BY <1>1, <2>1 DEF SharedInv
  <2>3. Mem(m)' = Mem(m) /\ since'[T(m)] = since[T(m)] /\ handled'[T(m)] = handled[T(m)]
    BY <1>1, <2>1 DEF Mem
  <2>4. Stored(m)' = Stored(m) /\ Registers(m)' = Registers(m)
    BY <1>1 DEF Stored, Registers, FilledBy, At, PolicyRate
  <2>5. /\ lcore'[m].before.last_tsc <= lcore'[m].now
        /\ since'[T(m)'] <= lcore'[m].before.last_tsc
        /\ handled'[T(m)'] < MaxPackets
    BY <1>1, <2>2, <2>3 DEF Undisturbed
  <2>6. Mem(m)' = Stored(m)' /\ Registers(m)'
    BY <2>2, <2>3, <2>4 DEF Undisturbed
  <2> QED BY <1>1, <2>1, <2>5, <2>6 DEF Undisturbed
<1> QED BY <1>3, <1>4

\* What a step of lcore l on bucket t must still keep: its own packet.
LEMMA OwnStep ==
  ASSUME SharedInv, NEW l \in Lcores, NEW t \in Tenants,
         \A m \in Lcores : m # l /\ ~At(m, "idle") /\ T(m) = t => t \in raced',
         raced \subseteq raced', raced' \subseteq raced \cup {t},
         kept' \in [Tenants -> Snapshot],
         lcore' \in [Lcores -> Working \cup {Idle}],
         \A m \in Lcores : m # l => lcore'[m] = lcore[m],
         tenants' \in [Tenants -> BucketType], admitted' \in [Tenants -> Nat],
         since' \in [Tenants -> Nat], handled' \in [Tenants -> Nat],
         \A u \in Tenants : u # t => /\ tenants'[u] = tenants[u]
                                     /\ since'[u] = since[u] /\ handled'[u] = handled[u],
         tenants'[t].last_tsc <= tsc,
         UNCHANGED <<policies, policy_count, running, tsc>>,
         At(l, "idle") \/ T(l) = t,
         \/ /\ At(l, "idle")'
            /\ t \notin raced' => since'[t] <= tenants'[t].last_tsc
         \/ /\ ~At(l, "idle")' /\ InApply(l)' /\ T(l)' = t
            /\ t \notin raced' => Undisturbed(l)'
  PROVE  /\ SharedInv'
         /\ \A u \in Tenants \ raced' : u # t => Settled'[u] = Settled[u]
         /\ t \notin raced' /\ ~At(l, "idle")' => Settled'[t] = lcore'[l].before
         /\ t \notin raced' /\ At(l, "idle")' => Settled'[t] = tenants'[t]
<1>1. \A m \in Lcores : m # l /\ ~At(m, "idle")' =>
        /\ InApply(m)'
        /\ T(m)' \notin raced' => Undisturbed(m)' /\ T(m)' # t
  BY OwnBucket
<1>2. \A u \in Tenants : tenants'[u].last_tsc <= tsc'
  BY DEF SharedInv, SharedTypes
<1>3. SharedTypes'
  BY <1>2 DEF SharedInv, SharedTypes
<1>4. \A m \in Lcores : m # l => (At(m, "idle")' <=> At(m, "idle")) /\ T(m)' = T(m)
  BY DEF At, T
<1>5. \A u \in Tenants : u # t => (Free(u)' <=> Free(u))
  BY <1>4 DEF Free
<1>6. FreeSince'
  <2> SUFFICES ASSUME NEW u \in Tenants \ raced', Free(u)'
               PROVE  since'[u] <= tenants'[u].last_tsc
    BY DEF FreeSince
  <2>1. CASE u = t
    BY <2>1 DEF Free
  <2>2. CASE u # t
    BY <1>5, <2>2 DEF SharedInv, FreeSince
  <2> QED BY <2>1, <2>2
<1>7. RacesKnown'
  <2> SUFFICES ASSUME NEW m \in Lcores, NEW n \in Lcores, m # n,
                      ~At(m, "idle")', ~At(n, "idle")', T(m)' = T(n)'
               PROVE  T(m)' \in raced'
    BY DEF RacesKnown
  <2>1. CASE m # l /\ n # l
    BY <1>4, <2>1 DEF SharedInv, RacesKnown
  <2>2. CASE m = l
    BY <1>1, <2>2
  <2>3. CASE n = l
    BY <1>1, <2>3
  <2> QED BY <2>1, <2>2, <2>3
<1>8. SharedInv'
  BY <1>1, <1>3, <1>6, <1>7 DEF SharedInv
<1>9. SettledFacts /\ SettledFacts'
  BY <1>8, SettledIs, SettledNext
<1>10. ASSUME NEW u \in Tenants \ raced', u # t PROVE Settled'[u] = Settled[u]
  <2>1. CASE Free(u)
    <3>1. Free(u)'
      BY <1>5, <1>10, <2>1
    <3> QED BY <1>9, <1>10, <2>1, <3>1 DEF SettledFacts
  <2>2. ASSUME NEW m \in Lcores, ~At(m, "idle"), T(m) = u PROVE Settled'[u] = Settled[u]
    <3>1. m # l
      BY <1>10, <2>2
    <3>2. ~At(m, "idle")' /\ T(m)' = u
      BY <1>4, <2>2, <3>1
    <3>3. u \notin raced /\ u \notin raced'
      BY <1>10
    <3>4. Settled[u] = lcore[m].before /\ Settled'[u] = lcore'[m].before
      BY <1>9, <2>2, <3>2, <3>3 DEF SettledFacts
    <3> QED BY <3>1, <3>4
  <2> QED BY <2>1, <2>2 DEF Free
<1>11. t \notin raced' /\ ~At(l, "idle")' => Settled'[t] = lcore'[l].before
  BY <1>9 DEF SettledFacts
<1>12. t \notin raced' /\ At(l, "idle")' => Settled'[t] = tenants'[t]
  <2> SUFFICES ASSUME t \notin raced', At(l, "idle")' PROVE Settled'[t] = tenants'[t]
    OBVIOUS
  <2>1. Free(t)'
    BY <1>1 DEF Free
  <2> QED BY <1>9, <2>1 DEF SettledFacts
<1> QED BY <1>8, <1>10, <1>11, <1>12

\* A load or a store of the bucket lcore l works on: nothing settles.
LEMMA InnerStep ==
  ASSUME SharedInv, NEW l \in Lcores, ~At(l, "idle"),
         NEW w \in Working, NEW bk \in BucketType,
         lcore' = [lcore EXCEPT ![l] = w], tenants' = [tenants EXCEPT ![T(l)] = bk],
         w.a = lcore[l].a, w.len = lcore[l].len, w.now = lcore[l].now,
         w.before = lcore[l].before,
         Unfinished, UNCHANGED overlap, bk.last_tsc <= tsc,
         T(l) \notin raced => (Mem(l) = Stored(l))' /\ Registers(l)'
  PROVE  SharedInv' /\ SettledSame
<1> DEFINE t == T(l)
<1>1. InApply(l) /\ t \in Tenants
  BY DEF SharedInv, InApply
<1>2. lcore'[l] = w /\ lcore' \in [Lcores -> Working \cup {Idle}]
  BY DEF SharedInv, SharedTypes
<1>3. tenants'[t] = bk /\ tenants' \in [Tenants -> BucketType]
  BY <1>1 DEF SharedInv, SharedTypes
<1>4. T(l)' = t /\ ~At(l, "idle")'
  BY <1>2 DEF T, At, Working
<1>5. /\ UNCHANGED <<policies, policy_count, running, tsc>>
      /\ UNCHANGED <<admitted, since, handled>>
      /\ raced' = raced /\ kept' = kept
  BY DEF Unfinished, Untouched, history, overlap
<1>6. InApply(l)'
  BY <1>1, <1>2, <1>4, <1>5 DEF InApply
<1>7. ASSUME t \notin raced' PROVE Undisturbed(l)'
  <2>1. Undisturbed(l)
    BY <1>5, <1>7 DEF SharedInv
  <2>2. /\ lcore'[l].before.last_tsc <= lcore'[l].now
        /\ since'[T(l)'] <= lcore'[l].before.last_tsc
        /\ handled'[T(l)'] < MaxPackets
    BY <1>2, <1>4, <1>5, <2>1 DEF Undisturbed
  <2> QED BY <1>5, <1>7, <2>2 DEF Undisturbed
<1>8. /\ \A m \in Lcores : m # l => lcore'[m] = lcore[m]
      /\ \A u \in Tenants : u # t => tenants'[u] = tenants[u]
  BY DEF SharedInv, SharedTypes
<1>9. /\ admitted \in [Tenants -> Nat] /\ since \in [Tenants -> Nat]
      /\ handled \in [Tenants -> Nat] /\ kept \in [Tenants -> Snapshot]
  BY DEF SharedInv, SharedTypes
<1>10. \A m \in Lcores : m # l /\ ~At(m, "idle") /\ T(m) = t => t \in raced'
  BY <1>5 DEF SharedInv, RacesKnown
<1>11. /\ SharedInv'
       /\ \A u \in Tenants \ raced' : u # t => Settled'[u] = Settled[u]
       /\ t \notin raced' /\ ~At(l, "idle")' => Settled'[t] = lcore'[l].before
  <2> HIDE DEF t
  <2>1. At(l, "idle") \/ T(l) = t
    BY DEF t
  <2> QED BY <1>1, <1>2, <1>3, <1>4, <1>5, <1>6, <1>7, <1>8, <1>9, <1>10, <2>1, OwnStep
<1>12. t \notin raced => Settled[t] = lcore[l].before
  BY SettledIs DEF SettledFacts
<1>13. SettledSame
  BY <1>2, <1>4, <1>5, <1>11, <1>12 DEF SettledSame
<1> QED BY <1>11, <1>13

\* What lcore l knows of its packet and its bucket.
LEMMA PacketFacts ==
  ASSUME SharedInv, NEW l \in Lcores, ~At(l, "idle")
  PROVE  /\ InApply(l) /\ lcore[l] \in Working /\ T(l) \in Tenants
         /\ lcore[l].a \in Actions /\ lcore[l].before \in BucketType
         /\ lcore[l].len \in Nat /\ lcore[l].now \in Nat
         /\ Mem(l) = tenants[T(l)] /\ Mem(l) \in BucketType /\ Mem(l).last_tsc <= tsc
         /\ FilledBy(l) = Refilled(lcore[l].before, lcore[l].now)
         /\ T(l) \notin raced => Undisturbed(l) /\ Mem(l) = Stored(l) /\ Registers(l)
<1> USE QosAssumption
<1>1. InApply(l) /\ (T(l) \notin raced => Undisturbed(l))
  BY DEF SharedInv
<1>2. lcore[l] \in Working /\ T(l) \in Tenants
  BY <1>1 DEF InApply
<1>3. /\ lcore[l].a \in Actions /\ lcore[l].before \in BucketType
      /\ lcore[l].len \in Nat /\ lcore[l].now \in Nat
  BY <1>2 DEF Working
<1>4. Mem(l) = tenants[T(l)] /\ Mem(l) \in BucketType /\ Mem(l).last_tsc <= tsc
  BY <1>2 DEF Mem, SharedInv, SharedTypes
<1>5. T(l) \notin raced => Undisturbed(l) /\ Mem(l) = Stored(l) /\ Registers(l)
  BY <1>1 DEF Undisturbed
<1> QED BY <1>1, <1>2, <1>3, <1>4, <1>5 DEF FilledBy

\* A refill leaves a word, whatever the stamps.
LEMMA RefilledWord ==
  ASSUME NEW b \in BucketType, NEW now \in Nat
  PROVE  Refilled(b, now) \in 0 .. U64 - 1
<1> USE ArithAssumption
<1> DEFINE r == RateToTokens(b.rate_limit_bps, (now - b.last_tsc) % U64)
<1>1. b.tokens_bytes \in 0 .. U64 - 1 /\ b.last_tsc \in Nat /\ b.rate_limit_bps \in Nat
  BY QosAssumption DEF BucketType
<1>2. r \in Int
  <2> DEFINE d == (now - b.last_tsc) % U64
  <2>1. d \in Nat
    BY <1>1
  <2>2. b.rate_limit_bps \div 8 \in Nat
    BY <1>1
  <2> HIDE DEF d
  <2> DEFINE p == (b.rate_limit_bps \div 8) * d
  <2>3. p \in Nat
    BY <2>1, <2>2
  <2>4. r = (p % U64) \div Hz
    BY DEF RateToTokens, d
  <2> HIDE DEF p, r
  <2>5. p % U64 \in Nat
    BY <2>3
  <2> QED BY <2>4, <2>5
<1>3. Refilled(b, now) = IF b.last_tsc # 0 THEN (b.tokens_bytes + r) % U64 ELSE b.tokens_bytes
  BY DEF Refilled
<1> HIDE DEF r
<1>4. (b.tokens_bytes + r) % U64 \in 0 .. U64 - 1
  BY <1>1, <1>2
<1> QED BY <1>1, <1>3, <1>4

\* The loads of dp_qos_apply find the bucket as the packet did.
LEMMA LoadLastStep ==
  ASSUME SharedInv, NEW l \in Lcores, LoadLast(l), UNCHANGED overlap
  PROVE  SharedInv' /\ SettledSame
<1> USE ArithAssumption
<1> DEFINE b == lcore[l].before
           w == [lcore[l] EXCEPT !.last = Mem(l).last_tsc, !.tokens = Mem(l).tokens_bytes,
                                 !.rate = Mem(l).rate_limit_bps,
                                 !.pc = IF Mem(l).last_tsc # 0 THEN "refill" ELSE "stamp"]
<1>1. lcore[l].pc = "last" /\ ~At(l, "idle") /\ tenants' = tenants /\ Unfinished
  BY DEF LoadLast, At
<1>2. /\ lcore[l] \in Working /\ Mem(l) \in BucketType
      /\ T(l) \in Tenants /\ Mem(l) = tenants[T(l)] /\ Mem(l).last_tsc <= tsc
      /\ lcore[l].before \in BucketType
  BY <1>1, PacketFacts
<1>4. lcore' = [lcore EXCEPT ![l] = w]
  BY DEF LoadLast
<1>5. w \in Working
  BY <1>2 DEF Working, BucketType
<1>6. /\ w.a = lcore[l].a /\ w.len = lcore[l].len /\ w.now = lcore[l].now
      /\ w.before = b
      /\ w.last = Mem(l).last_tsc /\ w.tokens = Mem(l).tokens_bytes
      /\ w.rate = Mem(l).rate_limit_bps
      /\ w.pc = IF Mem(l).last_tsc # 0 THEN "refill" ELSE "stamp"
  BY <1>2 DEF Working
<1> HIDE DEF w
<1>7. lcore'[l] = w
  BY <1>4 DEF SharedInv, SharedTypes
<1>8. tenants' = [tenants EXCEPT ![T(l)] = Mem(l)]
  BY <1>1, <1>2 DEF SharedInv, SharedTypes
<1>9. ASSUME T(l) \notin raced PROVE (Mem(l) = Stored(l))' /\ Registers(l)'
  <2>1. Mem(l) = b
    <3>1. Mem(l) = Stored(l)
      BY <1>1, <1>9, PacketFacts
    <3> QED BY <1>1, <1>2, <3>1 DEF Stored, BucketType
  <2>2. Mem(l)' = b
    BY <1>1, <1>2, <1>6, <1>7, <2>1 DEF Mem, T
  <2>3. b.last_tsc = 0 => FilledBy(l)' = b.tokens_bytes
    BY <1>6, <1>7 DEF FilledBy, Refilled
  <2>4. Mem(l)' = Stored(l)'
    BY <1>2, <1>6, <1>7, <2>1, <2>2, <2>3 DEF Stored, BucketType
  <2>5. Registers(l)'
    BY <1>6, <1>7, <2>1, <2>3 DEF Registers, At
  <2> QED BY <2>4, <2>5
<1> QED BY <1>1, <1>2, <1>4, <1>5, <1>6, <1>8, <1>9, InnerStep

\* The refill as loads and stores do it is the refill of the atomic step.
LEMMA StoreRefillStep ==
  ASSUME SharedInv, NEW l \in Lcores, StoreRefill(l), UNCHANGED overlap
  PROVE  SharedInv' /\ SettledSame
<1> USE ArithAssumption
<1> DEFINE b == lcore[l].before
           new == Refilled([tokens_bytes   |-> lcore[l].tokens,
                            last_tsc       |-> lcore[l].last,
                            rate_limit_bps |-> lcore[l].rate], lcore[l].now)
           w == [lcore[l] EXCEPT !.tokens = new, !.pc = "stamp"]
           bk == [tenants[T(l)] EXCEPT !.tokens_bytes = new]
<1>1. lcore[l].pc = "refill" /\ ~At(l, "idle") /\ Unfinished
  BY DEF StoreRefill, At
<1>2. /\ lcore[l] \in Working /\ Mem(l) \in BucketType
      /\ T(l) \in Tenants /\ Mem(l) = tenants[T(l)] /\ Mem(l).last_tsc <= tsc
      /\ b \in BucketType /\ lcore[l].now \in Nat
  BY <1>1, PacketFacts
<1>3. new \in 0 .. U64 - 1
  <2> DEFINE regs == [tokens_bytes   |-> lcore[l].tokens, last_tsc |-> lcore[l].last,
                      rate_limit_bps |-> lcore[l].rate]
  <2>1. regs \in BucketType
    BY <1>2 DEF Working, BucketType
  <2> HIDE DEF regs
  <2>2. Refilled(regs, lcore[l].now) \in 0 .. U64 - 1
    BY <1>2, <2>1, RefilledWord
  <2> QED BY <2>2 DEF regs
<1>4. ASSUME T(l) \notin raced PROVE Mem(l) = b /\ new = Refilled(b, lcore[l].now)
  <2>1. Mem(l) = Stored(l) /\ Registers(l)
    BY <1>1, <1>4, PacketFacts
  <2>2. Mem(l) = b
    BY <1>1, <1>2, <2>1 DEF Stored, BucketType
  <2>3. b = [tokens_bytes |-> lcore[l].tokens, last_tsc |-> lcore[l].last,
             rate_limit_bps |-> lcore[l].rate]
    BY <1>1, <1>2, <2>1 DEF Registers, At, BucketType
  <2> QED BY <2>2, <2>3
<1> HIDE DEF new
<1>7. lcore' = [lcore EXCEPT ![l] = w] /\ tenants' = [tenants EXCEPT ![T(l)] = bk]
  BY DEF StoreRefill, Store, new
<1>8. w \in Working /\ bk \in BucketType /\ bk.last_tsc <= tsc
  BY <1>2, <1>3 DEF Working, BucketType
<1>9. /\ w.a = lcore[l].a /\ w.len = lcore[l].len /\ w.now = lcore[l].now
      /\ w.before = b /\ w.tokens = new /\ w.pc = "stamp"
  BY <1>2 DEF Working
<1>10. ASSUME Mem(l) = b
       PROVE  bk = [tokens_bytes |-> new, last_tsc |-> b.last_tsc,
                    rate_limit_bps |-> b.rate_limit_bps]
  BY <1>2, <1>10 DEF BucketType
<1> HIDE DEF w, bk
<1>11. lcore'[l] = w /\ Mem(l)' = bk
  <2>1. lcore'[l] = w
    BY <1>7 DEF SharedInv, SharedTypes
  <2>2. tenants'[T(l)] = bk
    BY <1>2, <1>7 DEF SharedInv, SharedTypes
  <2> QED BY <1>9, <2>1, <2>2 DEF Mem, T
<1>12. ASSUME T(l) \notin raced PROVE (Mem(l) = Stored(l))' /\ Registers(l)'
  <2>1. FilledBy(l)' = new
    BY <1>4, <1>9, <1>11, <1>12 DEF FilledBy
  <2>2. Mem(l)' = Stored(l)'
    BY <1>4, <1>9, <1>10, <1>11, <1>12, <2>1 DEF Stored
  <2>3. Registers(l)'
    BY <1>9, <1>11, <2>1 DEF Registers, At
  <2> QED BY <2>2, <2>3
<1> QED BY <1>1, <1>2, <1>7, <1>8, <1>9, <1>12, InnerStep

LEMMA StoreStampStep ==
  ASSUME SharedInv, NEW l \in Lcores, StoreStamp(l), UNCHANGED overlap
  PROVE  SharedInv' /\ SettledSame
<1> DEFINE b == lcore[l].before
           w == [lcore[l] EXCEPT !.pc = "rate"]
           bk == [tenants[T(l)] EXCEPT !.last_tsc = lcore[l].now]
<1>1. lcore[l].pc = "stamp" /\ ~At(l, "idle") /\ Unfinished
  BY DEF StoreStamp, At
<1>2. /\ lcore[l] \in Working /\ Mem(l) \in BucketType
      /\ T(l) \in Tenants /\ Mem(l) = tenants[T(l)]
      /\ b \in BucketType /\ lcore[l].now \in Nat
  BY <1>1, PacketFacts
<1>3. lcore[l].now <= tsc
  BY <1>1, PacketFacts DEF InApply
<1>5. lcore' = [lcore EXCEPT ![l] = w] /\ tenants' = [tenants EXCEPT ![T(l)] = bk]
  BY DEF StoreStamp, Store, Goto
<1>6. w \in Working /\ bk \in BucketType /\ bk.last_tsc <= tsc
  BY <1>2, <1>3 DEF Working, BucketType
<1>7. /\ w.a = lcore[l].a /\ w.len = lcore[l].len /\ w.now = lcore[l].now
      /\ w.before = b /\ w.tokens = lcore[l].tokens /\ w.pc = "rate"
  BY <1>2 DEF Working
<1>8. ASSUME T(l) \notin raced
      PROVE  /\ bk = [tokens_bytes |-> FilledBy(l), last_tsc |-> lcore[l].now,
                     rate_limit_bps |-> b.rate_limit_bps]
             /\ lcore[l].tokens = FilledBy(l)
  <2>1. Mem(l) = Stored(l) /\ Registers(l)
    BY <1>1, <1>8, PacketFacts
  <2>2. Mem(l) = [tokens_bytes |-> FilledBy(l), last_tsc |-> b.last_tsc,
                  rate_limit_bps |-> b.rate_limit_bps]
    BY <1>1, <2>1 DEF Stored
  <2> QED BY <1>1, <1>2, <2>1, <2>2 DEF Registers, At
<1> HIDE DEF w, bk
<1>9. lcore'[l] = w /\ Mem(l)' = bk
  <2>1. lcore'[l] = w
    BY <1>5 DEF SharedInv, SharedTypes
  <2>2. tenants'[T(l)] = bk
    BY <1>2, <1>5 DEF SharedInv, SharedTypes
  <2> QED BY <1>7, <2>1, <2>2 DEF Mem, T
<1>10. ASSUME T(l) \notin raced PROVE (Mem(l) = Stored(l))' /\ Registers(l)'
  <2>1. FilledBy(l)' = FilledBy(l)
    BY <1>7, <1>9 DEF FilledBy
  <2>2. Mem(l)' = Stored(l)'
    BY <1>7, <1>8, <1>9, <1>10, <2>1 DEF Stored
  <2>3. Registers(l)'
    BY <1>7, <1>8, <1>9, <1>10, <2>1 DEF Registers, At
  <2> QED BY <2>2, <2>3
<1> QED BY <1>1, <1>2, <1>5, <1>6, <1>7, <1>10, InnerStep

\* The rate a packet leaves is a configured one.
LEMMA EffectiveType ==
  ASSUME SharedInv, NEW a \in Actions, NEW own \in 0 .. MaxRate
  PROVE  EffectiveRate(a.rate_limit_bps, PolicyRate(a.policy_id), own) \in 0 .. MaxRate
<1>1. a.rate_limit_bps \in 0 .. MaxRate /\ a.policy_id \in Nat /\ MaxRate \in Nat
  BY QosAssumption
<1>2. PolicyRate(a.policy_id) \in 0 .. MaxRate
  BY <1>1, QosAssumption DEF PolicyRate, SharedInv, SharedTypes
<1> QED BY <1>1, <1>2 DEF EffectiveRate

LEMMA StoreRateStep ==
  ASSUME SharedInv, NEW l \in Lcores, StoreRate(l), UNCHANGED overlap
  PROVE  SharedInv' /\ SettledSame
<1> DEFINE b == lcore[l].before
           rate == EffectiveRate(lcore[l].a.rate_limit_bps,
                                 PolicyRate(lcore[l].a.policy_id), Mem(l).rate_limit_bps)
           w == [lcore[l] EXCEPT !.pc = "check"]
           bk == [tenants[T(l)] EXCEPT !.rate_limit_bps = rate]
<1>1. lcore[l].pc = "rate" /\ ~At(l, "idle") /\ Unfinished
  BY DEF StoreRate, At
<1>2. /\ lcore[l] \in Working /\ Mem(l) \in BucketType
      /\ T(l) \in Tenants /\ Mem(l) = tenants[T(l)] /\ Mem(l).last_tsc <= tsc
      /\ b \in BucketType /\ lcore[l].now \in Nat /\ lcore[l].a \in Actions
  BY <1>1, PacketFacts
<1>5. lcore' = [lcore EXCEPT ![l] = w] /\ tenants' = [tenants EXCEPT ![T(l)] = bk]
  BY DEF StoreRate, Store, Goto
<1>6. w \in Working /\ bk \in BucketType /\ bk.last_tsc <= tsc
  <2>1. Mem(l).rate_limit_bps \in 0 .. MaxRate
    BY <1>2 DEF BucketType
  <2>2. rate \in 0 .. MaxRate
    BY <1>2, <2>1, EffectiveType
  <2> HIDE DEF rate
  <2> QED BY <1>2, <2>2 DEF Working, BucketType
<1>7. /\ w.a = lcore[l].a /\ w.len = lcore[l].len /\ w.now = lcore[l].now
      /\ w.before = b /\ w.tokens = lcore[l].tokens /\ w.pc = "check"
  BY <1>2 DEF Working
<1>8. ASSUME T(l) \notin raced
      PROVE  /\ bk = [tokens_bytes |-> FilledBy(l), last_tsc |-> lcore[l].now,
                     rate_limit_bps |-> rate]
             /\ Mem(l).rate_limit_bps = b.rate_limit_bps
             /\ lcore[l].tokens = FilledBy(l)
  <2>1. Mem(l) = Stored(l) /\ Registers(l)
    BY <1>1, <1>8, PacketFacts
  <2>2. Mem(l) = [tokens_bytes |-> FilledBy(l), last_tsc |-> lcore[l].now,
                  rate_limit_bps |-> b.rate_limit_bps]
    BY <1>1, <2>1 DEF Stored
  <2> HIDE DEF rate
  <2> QED BY <1>1, <1>2, <2>1, <2>2 DEF Registers, At
<1> HIDE DEF w, bk
<1>9. lcore'[l] = w /\ Mem(l)' = bk
  <2>1. lcore'[l] = w
    BY <1>5 DEF SharedInv, SharedTypes
  <2>2. tenants'[T(l)] = bk
    BY <1>2, <1>5 DEF SharedInv, SharedTypes
  <2> QED BY <1>7, <2>1, <2>2 DEF Mem, T
<1>10. ASSUME T(l) \notin raced PROVE (Mem(l) = Stored(l))' /\ Registers(l)'
  <2>1. FilledBy(l)' = FilledBy(l)
    BY <1>7, <1>9 DEF FilledBy
  <2>2. rate = EffectiveRate(lcore'[l].a.rate_limit_bps,
                             PolicyRate(lcore[l].a.policy_id)',
                             lcore'[l].before.rate_limit_bps)
    <3>1. Mem(l).rate_limit_bps = b.rate_limit_bps
      BY <1>8, <1>10
    <3> QED BY <1>1, <1>7, <1>9, <3>1 DEF PolicyRate, Unfinished, Untouched
  <2> HIDE DEF rate
  <2>3. Mem(l)' = Stored(l)'
    <3>1. Stored(l)' =
            [tokens_bytes |-> FilledBy(l)', last_tsc |-> lcore'[l].now,
             rate_limit_bps |->
               EffectiveRate(lcore'[l].a.rate_limit_bps, PolicyRate(lcore[l].a.policy_id)',
                             lcore'[l].before.rate_limit_bps)]
      BY <1>7, <1>9 DEF Stored
    <3> QED BY <1>7, <1>8, <1>9, <1>10, <2>1, <2>2, <3>1
  <2>4. Registers(l)'
    BY <1>7, <1>8, <1>9, <1>10, <2>1 DEF Registers, At
  <2> QED BY <2>3, <2>4
<1> QED BY <1>1, <1>2, <1>5, <1>6, <1>7, <1>10, InnerStep

\* A packet reaches dp_qos_apply: no other lcore has one of its tenant, or the
\* tenant is raced from now on and seen as it was before.
LEMMA StampStep ==
  ASSUME SharedInv, NEW l \in Lcores, NEW a \in Actions, NEW len \in Lens,
         Stamp(l, a, len)
  PROVE  SharedInv' /\ Seen' = Seen
<1> USE ArithAssumption, QosAssumption
<1> DEFINE t == a.tenant_id
           w == [pc |-> "last", a |-> a, len |-> len, now |-> tsc, last |-> 0,
                 tokens |-> 0, rate |-> 0, before |-> tenants[t]]
<1>1. /\ running /\ At(l, "idle") /\ t \in Tenants
      /\ handled[t] < MaxPackets
      /\ lcore' = [lcore EXCEPT ![l] = w] /\ tenants' = tenants /\ Unfinished
  BY SharedAssumption DEF Stamp
<1>2. /\ tenants[t] \in BucketType /\ tsc \in Nat \ {0} /\ tenants[t].last_tsc <= tsc
  BY <1>1 DEF SharedInv, SharedTypes
<1>3. w \in Working
  BY <1>2 DEF Working
<1>4. /\ w.pc = "last" /\ w.a = a /\ w.now = tsc /\ w.before = tenants[t]
  OBVIOUS
<1> HIDE DEF w
<1>5. lcore'[l] = w /\ lcore' \in [Lcores -> Working \cup {Idle}]
  BY <1>1, <1>3 DEF SharedInv, SharedTypes
<1>6. T(l)' = t /\ ~At(l, "idle")' /\ Mem(l)' = tenants[t]
  BY <1>1, <1>4, <1>5 DEF T, At, Mem
<1>7. /\ UNCHANGED <<policies, policy_count, running, tsc>>
      /\ UNCHANGED <<admitted, since, handled>>
  BY <1>1 DEF Unfinished, Untouched, history
<1>8. InApply(l)'
  BY <1>1, <1>2, <1>3, <1>4, <1>5, <1>6, <1>7 DEF InApply
<1>9. \A m \in Lcores : m # l => lcore'[m] = lcore[m]
  BY <1>1 DEF SharedInv, SharedTypes
<1>10. /\ admitted \in [Tenants -> Nat] /\ since \in [Tenants -> Nat]
       /\ handled \in [Tenants -> Nat] /\ tenants \in [Tenants -> BucketType]
       /\ kept \in [Tenants -> Snapshot] /\ raced \subseteq Tenants
  BY DEF SharedInv, SharedTypes
<1>11. /\ raced \subseteq raced' /\ raced' \subseteq raced \cup {t}
       /\ t \notin raced' => Free(t) /\ t \notin raced
       /\ Busy(t) = {} \/ t \in raced'
       /\ Busy(t) # {} => kept' = [kept EXCEPT ![t] = Seen[t]]
       /\ Busy(t) = {} => kept' = kept /\ raced' = raced
  BY <1>10 DEF Stamp, Begins, Busy, Free, overlap
<1>12. Seen[t] \in Snapshot
  <2>1. t \in raced => Seen[t] \in Snapshot
    BY <1>1, <1>10 DEF Seen
  <2>2. Settled[t] \in BucketType
    <3>1. CASE Busy(t) = {}
      BY <1>1, <1>2, <3>1 DEF Settled
    <3>2. CASE Busy(t) # {}
      <4> DEFINE m == CHOOSE x \in Busy(t) : TRUE
      <4>1. m \in Busy(t)
        BY <3>2
      <4>2. m \in Lcores /\ ~At(m, "idle")
        BY <4>1 DEF Busy
      <4>3. lcore[m].before \in BucketType
        BY <4>2, PacketFacts
      <4> QED BY <1>1, <3>2, <4>3 DEF Settled
    <3> QED BY <3>1, <3>2
  <2>3. t \notin raced => Seen[t] \in Snapshot
    BY <1>1, <1>10, <2>2 DEF Seen, Snapshot
  <2> QED BY <2>1, <2>3
<1>13. kept' \in [Tenants -> Snapshot]
  BY <1>10, <1>11, <1>12
<1>14. ASSUME t \notin raced' PROVE Undisturbed(l)'
  <2>1. since[t] <= tenants[t].last_tsc
    BY <1>1, <1>11, <1>14 DEF SharedInv, FreeSince
  <2>2. Mem(l)' = Stored(l)' /\ Registers(l)'
    BY <1>2, <1>4, <1>5, <1>6 DEF Stored, Registers, At, BucketType
  <2>3. /\ lcore'[l].before.last_tsc <= lcore'[l].now
        /\ since'[T(l)'] <= lcore'[l].before.last_tsc
        /\ handled'[T(l)'] < MaxPackets
    BY <1>1, <1>2, <1>4, <1>5, <1>6, <1>7, <2>1
  <2> QED BY <2>2, <2>3 DEF Undisturbed
<1>15. \A m \in Lcores : m # l /\ ~At(m, "idle") /\ T(m) = t => t \in raced'
  BY <1>11 DEF Free
<1>16. /\ SharedInv'
       /\ \A u \in Tenants \ raced' : u # t => Settled'[u] = Settled[u]
       /\ t \notin raced' /\ ~At(l, "idle")' => Settled'[t] = lcore'[l].before
  <2> HIDE DEF t
  <2> QED BY <1>1, <1>2, <1>5, <1>6, <1>7, <1>8, <1>9, <1>10, <1>11, <1>13, <1>14, <1>15,
             OwnStep
<1>17. ASSUME NEW u \in Tenants PROVE Seen'[u] = Seen[u]
  <2>1. CASE u \notin raced'
    <3>1. Settled'[u] = Settled[u]
      <4>1. CASE u # t
        BY <1>16, <2>1, <4>1
      <4>2. CASE u = t
        <5>1. Settled[t] = tenants[t]
          BY <1>1, <1>11, <2>1, <4>2, SettledIs DEF SettledFacts
        <5> QED BY <1>4, <1>5, <1>6, <1>16, <2>1, <4>2, <5>1
      <4> QED BY <4>1, <4>2
    <3>2. u \notin raced
      BY <1>11, <2>1
    <3> QED BY <1>7, <2>1, <3>1, <3>2 DEF Seen
  <2>2. CASE u \in raced' /\ Busy(t) = {}
    BY <1>11, <2>2 DEF Seen
  <2>3. CASE u \in raced' /\ Busy(t) # {} /\ u = t
    <3>1. kept'[t] = Seen[t]
      BY <1>1, <1>10, <1>11, <2>3
    <3> QED BY <1>1, <2>3, <3>1 DEF Seen
  <2>4. CASE u \in raced' /\ Busy(t) # {} /\ u # t
    <3>1. kept'[u] = kept[u] /\ u \in raced
      BY <1>10, <1>11, <2>4
    <3> QED BY <2>4, <3>1 DEF Seen
  <2> QED BY <2>1, <2>2, <2>3, <2>4
<1>18. Seen' = Seen
  <2>1. Seen = [u \in Tenants |-> Seen[u]] /\ Seen' = [u \in Tenants |-> Seen'[u]]
    BY DEF Seen
  <2> HIDE DEF Seen
  <2> QED BY <1>17, <2>1
<1> QED BY <1>16, <1>18

\* The operators of the two levels are the same, but for the buckets they read.
LEMMA AtomicOps ==
  ASSUME NEW a, NEW len, NEW now, a.tenant_id \in Tenants
  PROVE  /\ Atomic!Bucket(a, len, now) =
              [tokens_bytes   |-> IF Refilled(Seen[a.tenant_id].bucket, now) < len
                                  THEN Refilled(Seen[a.tenant_id].bucket, now)
                                  ELSE Refilled(Seen[a.tenant_id].bucket, now) - len,
               last_tsc       |-> now,
               rate_limit_bps |-> EffectiveRate(a.rate_limit_bps, PolicyRate(a.policy_id),
                                                Seen[a.tenant_id].bucket.rate_limit_bps)]
         /\ Atomic!Admits(a, len, now) <=> Refilled(Seen[a.tenant_id].bucket, now) >= len
<1>1. \A b : Atomic!Refilled(b, now) = Refilled(b, now)
  BY DEF Atomic!Refilled, Refilled, Atomic!RateToTokens, RateToTokens
<1>2. \A x, y, z : Atomic!EffectiveRate(x, y, z) = EffectiveRate(x, y, z)
  BY DEF Atomic!EffectiveRate, EffectiveRate
<1>3. \A id : Atomic!PolicyRate(id) = PolicyRate(id)
  BY DEF Atomic!PolicyRate, PolicyRate
<1> QED BY <1>1, <1>2, <1>3 DEF Atomic!Bucket, Atomic!Admits, SeenBuckets

\* What is seen of a tenant that nothing raced on.
LEMMA SeenIs ==
  ASSUME NEW t \in Tenants, t \notin raced
  PROVE  Seen[t] = [bucket |-> Settled[t], admitted |-> admitted[t], since |-> since[t],
                    handled |-> handled[t]]
BY DEF Seen

\* A step that settles no bucket and finishes no packet shows nothing.
LEMMA SeenSame ==
  ASSUME SettledSame, UNCHANGED overlap, UNCHANGED <<admitted, since, handled>>
  PROVE  Seen' = Seen
<1>1. raced' = raced /\ kept' = kept
  BY DEF overlap
<1>2. \A u \in Tenants \ raced : Settled'[u] = Settled[u]
  BY DEF SettledSame
<1> HIDE DEF Settled
<1> QED BY <1>1, <1>2 DEF Seen

\* Nor does a packet of a raced tenant.
LEMMA SeenRaced ==
  ASSUME NEW t \in raced, UNCHANGED overlap,
         \A u \in Tenants \ raced' : u # t => Settled'[u] = Settled[u],
         \A u \in Tenants : u # t => /\ admitted'[u] = admitted[u]
                                     /\ since'[u] = since[u] /\ handled'[u] = handled[u]
  PROVE  Seen' = Seen
<1>1. raced' = raced /\ kept' = kept
  BY DEF overlap
<1>2. \A u \in Tenants \ raced : u # t
  OBVIOUS
<1>3. \A u \in Tenants \ raced : /\ Settled'[u] = Settled[u] /\ admitted'[u] = admitted[u]
                                 /\ since'[u] = since[u] /\ handled'[u] = handled[u]
  BY <1>1, <1>2
<1> QED BY <1>1, <1>3 DEF Seen

\* The packet is decided: this is the moment the atomic step happens.
LEMMA DecideStep ==
  ASSUME SharedInv, NEW l \in Lcores, lcore[l].pc \in {"check", "take"}, UNCHANGED overlap,
         NEW tokens \in 0 .. U64 - 1, NEW bytes \in Nat, Finish(l, bytes),
         tenants' = [tenants EXCEPT ![T(l)] = [@ EXCEPT !.tokens_bytes = tokens]],
         T(l) \notin raced =>
           \/ FilledBy(l) < lcore[l].len /\ bytes = 0 /\ tokens = FilledBy(l)
           \/ FilledBy(l) >= lcore[l].len /\ bytes = lcore[l].len
              /\ tokens = FilledBy(l) - lcore[l].len
  PROVE  /\ SharedInv'
         /\ \/ Seen' = Seen /\ UNCHANGED <<policies, policy_count, running, tsc>>
            \/ Atomic!Apply(lcore[l].a, lcore[l].len, lcore[l].now)
<1> USE ArithAssumption, QosAssumption
<1> DEFINE t == T(l)
           b == lcore[l].before
           a == lcore[l].a
           len == lcore[l].len
           now == lcore[l].now
           rate == EffectiveRate(a.rate_limit_bps, PolicyRate(a.policy_id), b.rate_limit_bps)
           bk == [tenants[t] EXCEPT !.tokens_bytes = tokens]
<1>1. ~At(l, "idle")
  BY DEF At
<1>2. /\ InApply(l) /\ lcore[l] \in Working /\ Mem(l) \in BucketType
      /\ t \in Tenants /\ Mem(l) = tenants[t] /\ Mem(l).last_tsc <= tsc
      /\ b \in BucketType /\ now \in Nat /\ a \in Actions /\ len \in Nat
      /\ FilledBy(l) = Refilled(b, now)
  BY <1>1, PacketFacts
<1>3. bk \in BucketType /\ bk.last_tsc = tenants[t].last_tsc /\ now <= tsc /\ 0 < now
  BY <1>2 DEF BucketType, InApply
<1> HIDE DEF bk
<1>4. tenants'[t] = bk /\ tenants' \in [Tenants -> BucketType]
  BY <1>2, <1>3 DEF SharedInv, SharedTypes, bk
<1>5. lcore' = [lcore EXCEPT ![l] = Idle]
  BY DEF Finish
<1>6. lcore'[l] = Idle /\ lcore' \in [Lcores -> Working \cup {Idle}] /\ At(l, "idle")'
  BY <1>5 DEF SharedInv, SharedTypes, At, Idle
<1>7. since' = [since EXCEPT ![t] = IF b.last_tsc = 0 /\ @ = 0 THEN now ELSE @]
  BY DEF Finish
<1>8. /\ admitted' = [admitted EXCEPT ![t] = @ + bytes]
      /\ handled' = [handled EXCEPT ![t] = @ + 1]
      /\ UNCHANGED <<policies, policy_count, running, tsc>>
      /\ raced' = raced /\ kept' = kept
  BY DEF Finish, Untouched, overlap
<1>9. /\ admitted \in [Tenants -> Nat] /\ since \in [Tenants -> Nat]
      /\ handled \in [Tenants -> Nat] /\ kept \in [Tenants -> Snapshot]
  BY DEF SharedInv, SharedTypes
<1>10. /\ admitted' \in [Tenants -> Nat] /\ since' \in [Tenants -> Nat]
       /\ handled' \in [Tenants -> Nat]
  BY <1>2, <1>7, <1>8, <1>9
<1>11. /\ \A m \in Lcores : m # l => lcore'[m] = lcore[m]
       /\ \A u \in Tenants : u # t => /\ tenants'[u] = tenants[u]
                                      /\ admitted'[u] = admitted[u]
                                      /\ since'[u] = since[u] /\ handled'[u] = handled[u]
  BY <1>5, <1>7, <1>8, <1>9 DEF SharedInv, SharedTypes
<1>12. t \notin raced =>
         tenants[t] = [tokens_bytes |-> FilledBy(l), last_tsc |-> now, rate_limit_bps |-> rate]
  <2> SUFFICES ASSUME t \notin raced
               PROVE  tenants[t] = [tokens_bytes |-> FilledBy(l), last_tsc |-> now,
                                    rate_limit_bps |-> rate]
    OBVIOUS
  <2>1. tenants[t] = Stored(l)
    BY <1>1, <1>2, PacketFacts
  <2> QED BY <2>1 DEF Stored
<1> HIDE DEF rate
<1>13. t \notin raced => /\ since[t] <= b.last_tsc /\ b.last_tsc <= now /\ handled[t] < MaxPackets
  BY <1>1, PacketFacts DEF Undisturbed
<1>14. t \notin raced => since' = [since EXCEPT ![t] = IF b.last_tsc = 0 THEN now ELSE @]
  <2> SUFFICES ASSUME t \notin raced
               PROVE  since' = [since EXCEPT ![t] = IF b.last_tsc = 0 THEN now ELSE @]
    OBVIOUS
  <2>1. since[t] \in Nat /\ since[t] <= b.last_tsc /\ b.last_tsc \in Nat
    BY <1>2, <1>9, <1>13 DEF BucketType
  <2>2. b.last_tsc = 0 => since[t] = 0
    BY <2>1
  <2> QED BY <1>7, <2>2
<1>15. t \notin raced => since'[t] <= tenants'[t].last_tsc
  <2> SUFFICES ASSUME t \notin raced PROVE since'[t] <= tenants'[t].last_tsc
    OBVIOUS
  <2>1. tenants'[t].last_tsc = now
    BY <1>3, <1>4, <1>12
  <2>2. since[t] \in Nat /\ since[t] <= b.last_tsc /\ b.last_tsc \in Nat /\ b.last_tsc <= now
    BY <1>2, <1>9, <1>13 DEF BucketType
  <2> QED BY <1>2, <1>9, <1>14, <2>1, <2>2
<1>16. \A m \in Lcores : m # l /\ ~At(m, "idle") /\ T(m) = t => t \in raced'
  BY <1>1, <1>8 DEF SharedInv, RacesKnown
<1>17. /\ SharedInv'
       /\ \A u \in Tenants \ raced' : u # t => Settled'[u] = Settled[u]
       /\ t \notin raced' => Settled'[t] = tenants'[t]
  <2>1. At(l, "idle") \/ T(l) = t
    OBVIOUS
  <2>2. tenants'[t].last_tsc <= tsc
    BY <1>2, <1>3, <1>4
  <2> HIDE DEF t
  <2> QED BY <1>2, <1>4, <1>6, <1>8, <1>9, <1>10, <1>11, <1>15, <1>16, <2>1, <2>2, OwnStep
<1>18. CASE t \in raced
  <2>1. Seen' = Seen
    BY <1>11, <1>17, <1>18, SeenRaced
  <2> QED BY <1>8, <1>17, <2>1
<1>19. CASE t \notin raced
  <2>1. Settled[t] = b
    BY <1>1, <1>19, SettledIs DEF SettledFacts
  <2>2. Seen[t] = [bucket |-> b, admitted |-> admitted[t], since |-> since[t],
                   handled |-> handled[t]]
    BY <1>2, <1>19, <2>1, SeenIs
  <2>3. FilledBy(l) \in 0 .. U64 - 1
    BY <1>2, RefilledWord
  <2>4. a.tenant_id = t
    BY DEF T
  <2>5. Atomic!Bucket(a, len, now) = bk /\ (Atomic!Admits(a, len, now) <=> FilledBy(l) >= len)
    <3>1. /\ Atomic!Bucket(a, len, now) =
               [tokens_bytes |-> IF FilledBy(l) < len THEN FilledBy(l) ELSE FilledBy(l) - len,
                last_tsc |-> now, rate_limit_bps |-> rate]
          /\ Atomic!Admits(a, len, now) <=> FilledBy(l) >= len
      BY <1>2, <2>2, <2>4, AtomicOps DEF rate
    <3>2. tokens = IF FilledBy(l) < len THEN FilledBy(l) ELSE FilledBy(l) - len
      BY <1>2, <1>19, <2>3
    <3>3. bk = [tokens_bytes |-> tokens, last_tsc |-> now, rate_limit_bps |-> rate]
      BY <1>12, <1>19 DEF bk
    <3> QED BY <3>1, <3>2, <3>3
  <2>6. admitted'[t] = IF Atomic!Admits(a, len, now) THEN admitted[t] + len ELSE admitted[t]
    <3>1. CASE FilledBy(l) < len
      <4>1. bytes = 0 /\ ~Atomic!Admits(a, len, now)
        BY <1>2, <1>19, <2>3, <2>5, <3>1
      <4> QED BY <1>2, <1>8, <1>9, <4>1
    <3>2. CASE FilledBy(l) >= len
      <4>1. bytes = len /\ Atomic!Admits(a, len, now)
        BY <1>2, <1>19, <2>3, <2>5, <3>2
      <4> QED BY <1>2, <1>8, <1>9, <4>1
    <3> QED BY <1>2, <2>3, <3>1, <3>2
  <2>7. /\ since'[t] = IF b.last_tsc = 0 THEN now ELSE since[t]
        /\ handled'[t] = handled[t] + 1
    BY <1>2, <1>8, <1>9, <1>14, <1>19
  <2>8. Seen'[t] = [bucket |-> bk, admitted |-> admitted'[t], since |-> since'[t],
                    handled |-> handled'[t]]
    <3>1. Settled'[t] = bk /\ t \notin raced'
      BY <1>4, <1>8, <1>17, <1>19
    <3> HIDE DEF t, Settled
    <3> QED BY <1>2, <3>1 DEF Seen
  <2>9. \A u \in Tenants : u # t => Seen'[u] = Seen[u]
    <3> HIDE DEF t, Settled
    <3> QED BY <1>8, <1>11, <1>17 DEF Seen
  <2>10. /\ t < TenantCount
         /\ Seen[t].handled < MaxPackets
         /\ Seen[t].bucket.last_tsc <= now
    BY <1>2, <1>13, <1>19, <2>2 DEF Tenants
  <2>11. running
    BY <1>2 DEF InApply
  <2>12. \A u \in Tenants :
           /\ Seen'[u].bucket = IF u = t THEN bk ELSE Seen[u].bucket
           /\ Seen'[u].admitted = IF u = t THEN admitted'[t] ELSE Seen[u].admitted
           /\ Seen'[u].since = IF u = t THEN since'[t] ELSE Seen[u].since
           /\ Seen'[u].handled = IF u = t THEN handled'[t] ELSE Seen[u].handled
    <3> SUFFICES ASSUME NEW u \in Tenants
                 PROVE  /\ Seen'[u].bucket = IF u = t THEN bk ELSE Seen[u].bucket
                        /\ Seen'[u].admitted = IF u = t THEN admitted'[t] ELSE Seen[u].admitted
                        /\ Seen'[u].since = IF u = t THEN since'[t] ELSE Seen[u].since
                        /\ Seen'[u].handled = IF u = t THEN handled'[t] ELSE Seen[u].handled
      OBVIOUS
    <3>1. CASE u = t
      BY <2>8, <3>1
    <3>2. CASE u # t
      BY <2>9, <3>2
    <3> QED BY <3>1, <3>2
  <2>13. /\ Seen[t].bucket = b /\ Seen[t].admitted = admitted[t] /\ Seen[t].since = since[t]
         /\ Seen[t].handled = handled[t]
    BY <2>2
  <2>14. /\ SeenBuckets'
              = [SeenBuckets EXCEPT ![t] = bk]
         /\ SeenAdmitted'
              = [SeenAdmitted EXCEPT ![t] = admitted'[t]]
         /\ SeenSince'
              = [SeenSince EXCEPT ![t] = since'[t]]
         /\ SeenHandled'
              = [SeenHandled EXCEPT ![t] = handled'[t]]
    <3> HIDE DEF t, Seen
    <3> QED BY <1>2, <2>12 DEF SeenBuckets, SeenAdmitted, SeenSince, SeenHandled
  <2>15. /\ running /\ t < TenantCount /\ 0 < now /\ now <= tsc
         /\ SeenHandled[t] < MaxPackets
         /\ SeenBuckets[t].last_tsc <= now
         /\ admitted'[t] = IF Atomic!Admits(a, len, now)
                           THEN SeenAdmitted[t] + len
                           ELSE SeenAdmitted[t]
         /\ since'[t] = IF SeenBuckets[t].last_tsc = 0 THEN now
                        ELSE SeenSince[t]
         /\ handled'[t] = SeenHandled[t] + 1
         /\ Atomic!Bucket(a, len, now) = bk
    <3> HIDE DEF t, a, b, len, now, Seen
    <3> QED BY <1>2, <1>3, <2>5, <2>6, <2>7, <2>10, <2>11, <2>13
               DEF SeenBuckets, SeenAdmitted, SeenSince, SeenHandled
  <2>16. Atomic!Apply(a, len, now)
    <3> HIDE DEF t, a, len, now, Seen
    <3> QED BY <1>8, <2>4, <2>14, <2>15 DEF Atomic!Apply
  <2> QED BY <1>17, <2>16
<1> QED BY <1>18, <1>19

\* The test: memory and register agree, so it is the test of the atomic step.
LEMMA CheckStep ==
  ASSUME SharedInv, NEW l \in Lcores, Check(l), UNCHANGED overlap
  PROVE  /\ SharedInv'
         /\ \/ Seen' = Seen /\ UNCHANGED <<policies, policy_count, running, tsc>>
            \/ Atomic!Apply(lcore[l].a, lcore[l].len, lcore[l].now)
<1> USE ArithAssumption
<1>1. lcore[l].pc = "check" /\ ~At(l, "idle") /\ tenants' = tenants
  BY DEF Check, At
<1>2. /\ InApply(l) /\ lcore[l] \in Working /\ Mem(l) \in BucketType
      /\ T(l) \in Tenants /\ Mem(l) = tenants[T(l)] /\ Mem(l).last_tsc <= tsc
      /\ lcore[l].before \in BucketType /\ lcore[l].now \in Nat /\ lcore[l].len \in Nat
      /\ FilledBy(l) = Refilled(lcore[l].before, lcore[l].now)
  BY <1>1, PacketFacts
<1>3. T(l) \notin raced =>
        /\ Mem(l).tokens_bytes = FilledBy(l) /\ lcore[l].tokens = FilledBy(l)
        /\ Mem(l) = Stored(l)
  BY <1>1, <1>2, PacketFacts DEF Stored, Registers, At
<1>4. Mem(l).tokens_bytes \in 0 .. U64 - 1 /\ lcore[l].tokens \in 0 .. U64 - 1
  BY <1>2 DEF BucketType, Working
<1>5. tenants' = [tenants EXCEPT ![T(l)] = Mem(l)]
  BY <1>1, <1>2 DEF SharedInv, SharedTypes
<1>6. PICK tokens \in {Mem(l).tokens_bytes, lcore[l].tokens} :
        \/ tokens < lcore[l].len /\ Finish(l, 0)
        \/ /\ tokens >= lcore[l].len
           /\ lcore' = [lcore EXCEPT ![l].tokens = tokens, ![l].pc = "take"]
           /\ Unfinished
  BY DEF Check
<1>7. tokens \in 0 .. U64 - 1 /\ (T(l) \notin raced => tokens = FilledBy(l))
  BY <1>3, <1>4
<1>8. CASE tokens < lcore[l].len /\ Finish(l, 0)
  <2>1. tenants' = [tenants EXCEPT ![T(l)] = [@ EXCEPT !.tokens_bytes = Mem(l).tokens_bytes]]
    <3>1. Mem(l) = [tenants[T(l)] EXCEPT !.tokens_bytes = Mem(l).tokens_bytes]
      BY <1>2 DEF BucketType
    <3> QED BY <1>5, <3>1
  <2>2. T(l) \notin raced => FilledBy(l) < lcore[l].len /\ Mem(l).tokens_bytes = FilledBy(l)
    BY <1>3, <1>7, <1>8
  <2> QED BY <1>1, <1>4, <1>8, <2>1, <2>2, DecideStep
<1>9. CASE /\ tokens >= lcore[l].len
           /\ lcore' = [lcore EXCEPT ![l].tokens = tokens, ![l].pc = "take"]
           /\ Unfinished
  <2> DEFINE w == [lcore[l] EXCEPT !.tokens = tokens, !.pc = "take"]
  <2>1. lcore' = [lcore EXCEPT ![l] = w]
    BY <1>9
  <2>2. w \in Working
    BY <1>2, <1>7 DEF Working
  <2>3. /\ w.a = lcore[l].a /\ w.len = lcore[l].len /\ w.now = lcore[l].now
        /\ w.before = lcore[l].before /\ w.tokens = tokens /\ w.pc = "take"
    BY <1>2 DEF Working
  <2> HIDE DEF w
  <2>4. lcore'[l] = w
    BY <2>1 DEF SharedInv, SharedTypes
  <2>5. FilledBy(l)' = FilledBy(l) /\ Mem(l)' = Mem(l)
    BY <1>1, <2>3, <2>4 DEF FilledBy, Mem, T
  <2>6. PolicyRate(lcore[l].a.policy_id)' = PolicyRate(lcore[l].a.policy_id)
    <3>1. lcore'[l].a = lcore[l].a /\ policies' = policies /\ policy_count' = policy_count
      BY <1>9, <2>3, <2>4 DEF Unfinished, Untouched
    <3> QED BY <3>1 DEF PolicyRate
  <2>7. Stored(l)' = Stored(l)
    <3>1. Stored(l) =
            [tokens_bytes |-> FilledBy(l), last_tsc |-> lcore[l].now,
             rate_limit_bps |->
               EffectiveRate(lcore[l].a.rate_limit_bps, PolicyRate(lcore[l].a.policy_id),
                             lcore[l].before.rate_limit_bps)]
      BY <1>1 DEF Stored
    <3>2. Stored(l)' =
            [tokens_bytes |-> FilledBy(l)', last_tsc |-> lcore'[l].now,
             rate_limit_bps |->
               EffectiveRate(lcore'[l].a.rate_limit_bps, PolicyRate(lcore[l].a.policy_id)',
                             lcore'[l].before.rate_limit_bps)]
      BY <2>3, <2>4 DEF Stored
    <3> QED BY <2>3, <2>4, <2>5, <2>6, <3>1, <3>2
  <2>8. ASSUME T(l) \notin raced PROVE (Mem(l) = Stored(l))' /\ Registers(l)'
    <3>1. Mem(l)' = Stored(l)'
      BY <1>3, <2>5, <2>7, <2>8
    <3>2. Registers(l)'
      BY <1>7, <1>9, <2>3, <2>4, <2>5, <2>8 DEF Registers, At
    <3> QED BY <3>1, <3>2
  <2>9. SharedInv' /\ SettledSame
    BY <1>1, <1>2, <1>5, <1>9, <2>1, <2>2, <2>3, <2>8, InnerStep
  <2>10. Seen' = Seen /\ UNCHANGED <<policies, policy_count, running, tsc>>
    BY <1>9, <2>9, SeenSame DEF Unfinished, Untouched, history
  <2> QED BY <2>9, <2>10
<1> QED BY <1>6, <1>8, <1>9

\* The subtraction does not wrap where nothing raced: the tokens tested are
\* still there.
LEMMA TakeStep ==
  ASSUME SharedInv, NEW l \in Lcores, Take(l), UNCHANGED overlap
  PROVE  /\ SharedInv'
         /\ \/ Seen' = Seen /\ UNCHANGED <<policies, policy_count, running, tsc>>
            \/ Atomic!Apply(lcore[l].a, lcore[l].len, lcore[l].now)
<1> USE ArithAssumption
<1>1. lcore[l].pc = "take" /\ ~At(l, "idle") /\ Finish(l, lcore[l].len)
  BY DEF Take, At
<1>2. /\ Mem(l) \in BucketType /\ lcore[l] \in Working
      /\ lcore[l].before \in BucketType /\ lcore[l].now \in Nat /\ lcore[l].len \in Nat
      /\ FilledBy(l) = Refilled(lcore[l].before, lcore[l].now)
  BY <1>1, PacketFacts
<1>3. T(l) \notin raced =>
        /\ Mem(l).tokens_bytes = FilledBy(l) /\ lcore[l].tokens = FilledBy(l)
        /\ FilledBy(l) >= lcore[l].len
  BY <1>1, PacketFacts DEF Stored, Registers, At
<1>4. PICK tokens \in {Mem(l).tokens_bytes, lcore[l].tokens} :
        tenants' = [tenants EXCEPT ![T(l)].tokens_bytes = (tokens - lcore[l].len) % U64]
  BY DEF Take, Store
<1> DEFINE left == (tokens - lcore[l].len) % U64
<1>5. tokens \in 0 .. U64 - 1
  BY <1>2 DEF BucketType, Working
<1>6. left \in 0 .. U64 - 1
  BY <1>2, <1>5
<1>7. T(l) \notin raced => left = FilledBy(l) - lcore[l].len
  <2> SUFFICES ASSUME T(l) \notin raced PROVE left = FilledBy(l) - lcore[l].len
    OBVIOUS
  <2>1. tokens = FilledBy(l) /\ tokens >= lcore[l].len
    BY <1>3
  <2> QED BY <1>2, <1>5, <2>1
<1>8. tenants' = [tenants EXCEPT ![T(l)] = [@ EXCEPT !.tokens_bytes = left]]
  BY <1>4
<1> HIDE DEF left
<1> QED BY <1>1, <1>2, <1>3, <1>6, <1>7, <1>8, DecideStep

\* The rules are loaded, time passes or nothing happens: no bucket is worked on.
LEMMA OuterStep ==
  ASSUME SharedInv, UNCHANGED <<lcore, overlap, tenants, admitted, since, handled>>,
         tsc' \in Nat \ {0}, tsc <= tsc', running' \in BOOLEAN, running => running',
         policies' \in [0 .. MaxPolicies - 1 -> 0 .. MaxRate],
         policy_count' \in 0 .. MaxPolicies,
         running => UNCHANGED <<policies, policy_count>>
  PROVE  SharedInv' /\ Seen' = Seen
<1>1. raced' = raced /\ kept' = kept
  BY DEF overlap
<1>2. ASSUME NEW l \in Lcores, ~At(l, "idle")'
      PROVE  InApply(l)' /\ (T(l)' \notin raced' => Undisturbed(l)')
  <2>1. InApply(l) /\ lcore[l] \in Working
    BY <1>2 DEF SharedInv, At, InApply
  <2>2. running /\ running' /\ UNCHANGED <<policies, policy_count>>
    BY <2>1 DEF InApply
  <2>3. Mem(l)' = Mem(l) /\ Stored(l)' = Stored(l) /\ Registers(l)' = Registers(l)
    BY <2>2 DEF Mem, T, Stored, FilledBy, Registers, At, PolicyRate
  <2>4. lcore'[l].now <= tsc'
    <3>1. lcore[l].now \in Nat /\ lcore[l].now <= tsc /\ tsc \in Nat
      BY <2>1 DEF InApply, Working, SharedInv, SharedTypes
    <3> QED BY <3>1
  <2>5. InApply(l)'
    BY <2>1, <2>2, <2>4 DEF InApply, T
  <2>6. ASSUME T(l)' \notin raced' PROVE Undisturbed(l)'
    <3>1. Undisturbed(l)
      BY <1>1, <1>2, <2>6 DEF SharedInv, At, T
    <3>2. /\ lcore'[l].before.last_tsc <= lcore'[l].now
          /\ since'[T(l)'] <= lcore'[l].before.last_tsc
          /\ handled'[T(l)'] < MaxPackets
      BY <3>1 DEF Undisturbed, T
    <3>3. Mem(l)' = Stored(l)' /\ Registers(l)'
      BY <2>3, <3>1 DEF Undisturbed
    <3> QED BY <3>2, <3>3 DEF Undisturbed
  <2> QED BY <2>5, <2>6
<1>3. \A t \in Tenants : tenants'[t].last_tsc <= tsc'
  <2> SUFFICES ASSUME NEW t \in Tenants PROVE tenants'[t].last_tsc <= tsc'
    OBVIOUS
  <2>1. tenants[t].last_tsc \in Nat /\ tenants[t].last_tsc <= tsc /\ tsc \in Nat
    BY DEF SharedInv, SharedTypes, BucketType
  <2> QED BY <2>1
<1>4. SharedTypes'
  BY <1>1, <1>3 DEF SharedInv, SharedTypes
<1>5. FreeSince' /\ RacesKnown'
  BY <1>1 DEF SharedInv, FreeSince, RacesKnown, Free, At, T
<1>6. Seen' = Seen
  <2>1. Settled' = Settled
    BY DEF Settled, Busy, At, T
  <2> QED BY <1>1, <2>1 DEF Seen
<1> QED BY <1>2, <1>4, <1>5, <1>6 DEF SharedInv

LEMMA AppliesNext ==
  ASSUME NEW l, lcore[l].a \in Actions, lcore[l].len \in Lens, lcore[l].now \in 1 .. tsc,
         Atomic!Apply(lcore[l].a, lcore[l].len, lcore[l].now)
  PROVE  Atomic!Next
BY DEF Atomic!Next

\* Every step keeps the invariant, and is an atomic step or none.
LEMMA SharedStep ==
  SharedInv /\ [SNext]_svars => SharedInv' /\ [Atomic!Next]_(Atomic!vars)
<1> USE ArithAssumption, QosAssumption
<1> SUFFICES ASSUME SharedInv, [SNext]_svars
             PROVE  SharedInv' /\ [Atomic!Next]_(Atomic!vars)
  OBVIOUS
<1>1. Seen' = Seen /\ UNCHANGED <<policies, policy_count, running, tsc>>
        => UNCHANGED Atomic!vars
  BY DEF Atomic!vars, SeenBuckets, SeenAdmitted, SeenSince, SeenHandled
<1>2. Unfinished => /\ UNCHANGED <<policies, policy_count, running, tsc>>
                    /\ UNCHANGED <<admitted, since, handled>>
  BY DEF Unfinished, Untouched, history
<1>3. ASSUME NEW l \in Lcores, Atomic!Apply(lcore[l].a, lcore[l].len, lcore[l].now),
             ~At(l, "idle")
      PROVE  Atomic!Next
  <2>1. lcore[l].a \in Actions /\ lcore[l].len \in Lens /\ lcore[l].now \in 1 .. tsc
    BY <1>3 DEF SharedInv, InApply, Working, SharedTypes
  <2> QED BY <1>3, <2>1, AppliesNext
<1>4. ASSUME NEW l \in Lcores, Step(l), UNCHANGED overlap
      PROVE  SharedInv' /\ [Atomic!Next]_(Atomic!vars)
  <2>1. SettledSame /\ Unfinished => UNCHANGED Atomic!vars
    BY <1>1, <1>2, <1>4, SeenSame
  <2>2. CASE LoadLast(l)
    BY <1>4, <2>1, <2>2, LoadLastStep DEF LoadLast
  <2>3. CASE StoreRefill(l)
    BY <1>4, <2>1, <2>3, StoreRefillStep DEF StoreRefill
  <2>4. CASE StoreStamp(l)
    BY <1>4, <2>1, <2>4, StoreStampStep DEF StoreStamp
  <2>5. CASE StoreRate(l)
    BY <1>4, <2>1, <2>5, StoreRateStep DEF StoreRate
  <2>6. CASE Check(l)
    <3>1. ~At(l, "idle")
      BY <2>6 DEF Check, At
    <3> QED BY <1>1, <1>3, <1>4, <2>6, <3>1, CheckStep
  <2>7. CASE Take(l)
    <3>1. ~At(l, "idle")
      BY <2>7 DEF Take, At
    <3> QED BY <1>1, <1>3, <1>4, <2>7, <3>1, TakeStep
  <2> QED BY <1>4, <2>2, <2>3, <2>4, <2>5, <2>6, <2>7 DEF Step
<1>5. ASSUME NEW l \in Lcores, NEW a \in Actions, NEW len \in Lens, Stamp(l, a, len)
      PROVE  SharedInv' /\ [Atomic!Next]_(Atomic!vars)
  BY <1>1, <1>2, <1>5, StampStep DEF Stamp
<1>6. /\ tsc \in Nat \ {0} /\ running \in BOOLEAN
      /\ policies \in [0 .. MaxPolicies - 1 -> 0 .. MaxRate]
      /\ policy_count \in 0 .. MaxPolicies
  BY DEF SharedInv, SharedTypes
<1>7. Seen' = Seen => UNCHANGED Atomic!history /\ UNCHANGED SeenBuckets
  BY DEF Atomic!history, SeenBuckets, SeenAdmitted, SeenSince, SeenHandled
<1>8. ASSUME UNCHANGED <<lcore, overlap>>, NEW a \in Actions,
             UpdatePolicy(a.policy_id, a.rate_limit_bps)
      PROVE  SharedInv' /\ [Atomic!Next]_(Atomic!vars)
  <2>1. a.policy_id \in 0 .. MaxPolicies - 1 /\ a.rate_limit_bps \in 0 .. MaxRate
    BY <1>8 DEF UpdatePolicy
  <2>2. policies' \in [0 .. MaxPolicies - 1 -> 0 .. MaxRate] /\ policy_count' \in 0 .. MaxPolicies
    BY <1>6, <1>8, <2>1 DEF UpdatePolicy
  <2>3. SharedInv' /\ Seen' = Seen
    BY <1>6, <1>8, <2>2, OuterStep DEF UpdatePolicy, history
  <2>4. Atomic!UpdatePolicy(a.policy_id, a.rate_limit_bps)
    BY <1>7, <1>8, <2>3 DEF UpdatePolicy, Atomic!UpdatePolicy
  <2> QED BY <2>3, <2>4 DEF Atomic!Next
<1>9. CASE UNCHANGED <<lcore, overlap>> /\ Start
  <2>1. SharedInv' /\ Seen' = Seen
    BY <1>6, <1>9, OuterStep DEF Start, history
  <2>2. Atomic!Start
    BY <1>7, <1>9, <2>1 DEF Start, Atomic!Start
  <2> QED BY <2>1, <2>2 DEF Atomic!Next
<1>10. CASE UNCHANGED <<lcore, overlap>> /\ Tick
  <2>1. SharedInv' /\ Seen' = Seen
    BY <1>6, <1>10, OuterStep DEF Tick, history
  <2>2. Atomic!Tick
    BY <1>7, <1>10, <2>1 DEF Tick, Atomic!Tick
  <2> QED BY <2>1, <2>2 DEF Atomic!Next
<1>11. CASE UNCHANGED svars
  <2>1. SharedInv' /\ Seen' = Seen
    BY <1>6, <1>11, OuterStep DEF svars, vars
  <2> QED BY <1>1, <1>11, <2>1 DEF svars, vars
<1> QED BY <1>4, <1>5, <1>8, <1>9, <1>10, <1>11 DEF SNext

\* However many lcores receive a tenant's packets, what they do to its bucket
\* with their loads and stores is what the atomic dp_qos_apply of Qos does, up
\* to the moment two of them first work on that bucket at once: each packet
\* takes effect when it is decided (dataplane/qos.c).
THEOREM RefinesQos == SSpec => ImplementsQos
<1>1. SInit => SharedInv /\ Atomic!Init
  <2> SUFFICES ASSUME SInit PROVE SharedInv /\ Atomic!Init
    OBVIOUS
  <2>1. \A t \in Tenants : Busy(t) = {}
    BY DEF SInit, Busy, At, Idle
  <2>2. ASSUME NEW t \in Tenants
        PROVE  /\ Seen[t].bucket = tenants[t] /\ Seen[t].admitted = 0
               /\ Seen[t].since = 0 /\ Seen[t].handled = 0
    <3>1. t \notin raced /\ Settled[t] = tenants[t]
      BY <2>1 DEF Settled, SInit
    <3>2. admitted[t] = 0 /\ since[t] = 0 /\ handled[t] = 0
      BY DEF SInit, Init
    <3>3. Seen[t] = [bucket |-> Settled[t], admitted |-> admitted[t], since |-> since[t],
                     handled |-> handled[t]]
      BY <3>1, SeenIs
    <3> QED BY <3>1, <3>2, <3>3
  <2>3. /\ SeenBuckets = tenants /\ SeenAdmitted = admitted /\ SeenSince = since
        /\ SeenHandled = handled
    BY <2>2 DEF SeenBuckets, SeenAdmitted, SeenSince, SeenHandled, SInit, Init
  <2> QED BY <2>3, SharedInit DEF SInit, Init, Atomic!Init, Atomic!Tenants, Tenants
<1>2. SharedInv /\ [SNext]_svars => SharedInv' /\ [Atomic!Next]_(Atomic!vars)
  BY SharedStep
<1> QED BY <1>1, <1>2, PTL DEF SSpec, ImplementsQos, Atomic!Spec
=============================================================================
