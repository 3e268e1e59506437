---------------------------- MODULE RetryProofs -----------------------------
(***************************************************************************)
(* The delays and the number of attempts of the retry middleware (Retry),   *)
(* for every width of a Duration, every configuration and any number of     *)
(* retries and deliveries.                                                  *)
(*                                                                         *)
(* The powers of two are counted: 2 ^ k is the number of subsets of 1 .. k. *)
(* From that a shift that is not cut off by the cap stays below the cap,    *)
(* and so within a Duration.                                                *)
(***************************************************************************)
EXTENDS Retry, FiniteSetTheorems, TLAPS

LEMMA PowerCounts ==
  ASSUME NEW k \in Nat
  PROVE  IsFiniteSet(SUBSET (1 .. k)) /\ Cardinality(SUBSET (1 .. k)) = 2 ^ k
<1>1. IsFiniteSet(1 .. k) /\ Cardinality(1 .. k) = k
  BY FS_Interval
<1> QED BY <1>1, FS_SUBSET

LEMMA PowerPositive ==
  ASSUME NEW k \in Nat
  PROVE  2 ^ k \in Nat \ {0}
<1>1. Cardinality(SUBSET (1 .. k)) \in Nat
  BY PowerCounts, FS_CardinalityType
<1>2. Cardinality(SUBSET (1 .. k)) # 0
  <2>1. SUBSET (1 .. k) # {}
    OBVIOUS
  <2> QED BY <2>1, PowerCounts, FS_EmptySet
<1> QED BY <1>1, <1>2, PowerCounts

LEMMA PowerDoubles ==
  ASSUME NEW k \in Nat
  PROVE  2 ^ (k + 1) = 2 ^ k + 2 ^ k
<1> DEFINE without == SUBSET (1 .. k)
           with == {s \cup {k + 1} : s \in without}
<1>1. SUBSET (1 .. k + 1) = without \cup with
  <2>1. ASSUME NEW s \in SUBSET (1 .. k + 1) PROVE s \in without \cup with
    <3>1. s \ {k + 1} \in without
      OBVIOUS
    <3>2. CASE k + 1 \in s
      <4>1. s = (s \ {k + 1}) \cup {k + 1}
        BY <3>2
      <4> QED BY <3>1, <4>1
    <3>3. CASE k + 1 \notin s
      BY <3>1, <3>3
    <3> QED BY <3>2, <3>3
  <2>2. ASSUME NEW s \in without PROVE s \cup {k + 1} \in SUBSET (1 .. k + 1)
    OBVIOUS
  <2>3. without \subseteq SUBSET (1 .. k + 1)
    OBVIOUS
  <2> HIDE DEF without
  <2> QED BY <2>1, <2>2, <2>3
<1>2. without \cap with = {}
  BY SMT
<1>3. ExistsBijection(without, with)
  <2> DEFINE f == [s \in without |-> s \cup {k + 1}]
  <2>1. f \in Surjection(without, with)
    BY DEF Surjection
  <2>2. ASSUME NEW s \in without, NEW t \in without, f[s] = f[t] PROVE s = t
    <3>1. k + 1 \notin s /\ k + 1 \notin t
      OBVIOUS
    <3>2. s \cup {k + 1} = t \cup {k + 1}
      BY <2>2
    <3> QED BY <3>1, <3>2
  <2>3. f \in [without -> with]
    OBVIOUS
  <2> HIDE DEF f, with, without
  <2> QED BY <2>1, <2>2, <2>3 DEF ExistsBijection, Bijection, Injection, IsInjective
<1>4. IsFiniteSet(without) /\ Cardinality(without) = 2 ^ k
  BY PowerCounts
<1>5. IsFiniteSet(with) /\ Cardinality(with) = 2 ^ k
  <2> HIDE DEF with, without
  <2> QED BY <1>3, <1>4, FS_Bijection
<1>6. Cardinality(without \cup with) = 2 ^ k + 2 ^ k
  <2>1. Cardinality(without \cup with) =
          Cardinality(without) + Cardinality(with) - Cardinality(without \cap with)
    <3> HIDE DEF with, without
    <3> QED BY <1>4, <1>5, FS_Union
  <2>2. Cardinality(without \cap with) = 0
    BY <1>2, FS_EmptySet
  <2>3. 2 ^ k \in Nat
    BY PowerPositive
  <2> HIDE DEF with, without
  <2> QED BY <1>4, <1>5, <2>1, <2>2, <2>3
<1>7. Cardinality(SUBSET (1 .. k + 1)) = 2 ^ (k + 1)
  <2>1. k + 1 \in Nat
    OBVIOUS
  <2> QED BY <2>1, PowerCounts
<1> QED BY <1>1, <1>6, <1>7

-----------------------------------------------------------------------------
(* Durations                                                                *)

LEMMA Durations ==
  /\ MaxDuration \in Nat
  /\ \A d \in 0 .. MaxDuration : Wrap(d) = d
<1> DEFINE half == 2 ^ (Width - 1)
<1>1. Width - 1 \in Nat /\ (Width - 1) + 1 = Width
  BY RetryAssumption DEF RetryAssumption
<1>2. half \in Nat \ {0} /\ 2 ^ Width = half + half
  BY <1>1, PowerPositive, PowerDoubles
<1>3. MaxDuration = half - 1 /\ \A d : Wrap(d) = ((d + half) % (2 ^ Width)) - half
  BY DEF MaxDuration, Wrap
<1> HIDE DEF half
<1>4. ASSUME NEW d \in 0 .. MaxDuration PROVE Wrap(d) = d
  <2>1. d \in Nat /\ d + half \in 0 .. (half + half) - 1
    BY <1>2, <1>3
  <2>2. (d + half) % (half + half) = d + half
    BY <1>2, <2>1
  <2> QED BY <1>2, <1>3, <2>1, <2>2
<1> QED BY <1>2, <1>3, <1>4

(* Division tells whether a product exceeds the cap (delayFor).             *)
LEMMA DivisionTells ==
  ASSUME NEW base \in Nat, NEW cap \in Nat, NEW p \in Nat \ {0}
  PROVE  base > cap \div p <=> base * p > cap
<1> DEFINE q == cap \div p
<1>1. q \in Nat /\ cap = q * p + (cap % p) /\ cap % p \in 0 .. p - 1
  BY SMT
<1> HIDE DEF q
<1>2. CASE base > q
  <2>1. base >= q + 1
    BY <1>1, <1>2
  <2>2. base * p >= (q + 1) * p
    BY <1>1, <2>1
  <2>3. (q + 1) * p = q * p + p
    BY <1>1
  <2> QED BY <1>1, <1>2, <2>2, <2>3 DEF q
<1>3. CASE base <= q
  <2>1. base * p <= q * p
    BY <1>1, <1>3
  <2> QED BY <1>1, <1>3, <2>1 DEF q
<1> QED BY <1>1, <1>2, <1>3

-----------------------------------------------------------------------------
(* The delay                                                                *)

(* The delay of an attempt is the exponential one, within a Duration.       *)
LEMMA DelayFor ==
  ASSUME NEW base \in 1 .. MaxDuration, NEW maxDelay \in 1 .. MaxDuration, base <= maxDelay,
         NEW k \in Nat
  PROVE  LET d == delayFor(base, maxDelay, k)
         IN  /\ d \in 1 .. maxDelay
             /\ k >= Width - 2 => d = maxDelay
             /\ k < Width - 2 =>
                  d = IF base * 2 ^ k > maxDelay THEN maxDelay ELSE base * 2 ^ k
<1> DEFINE p == 2 ^ k
<1>1. p \in Nat \ {0}
  BY PowerPositive
<1>2. base \in Nat \ {0} /\ maxDelay \in Nat \ {0} /\ MaxDuration \in Nat /\ Width \in Nat
      /\ maxDelay <= MaxDuration
  BY Durations, RetryAssumption DEF RetryAssumption
<1>3. base > maxDelay \div p <=> base * p > maxDelay
  BY <1>1, <1>2, DivisionTells
<1>4. delayFor(base, maxDelay, k) =
        IF k >= Width - 2 \/ base > maxDelay \div p THEN maxDelay ELSE Wrap(base * p)
  BY DEF delayFor
<1> HIDE DEF p
<1>5. base * p \in Nat \ {0}
  BY <1>1, <1>2
<1>6. base * p <= maxDelay => Wrap(base * p) = base * p
  BY <1>2, <1>5, Durations
<1>7. CASE k >= Width - 2
  BY <1>2, <1>4, <1>7
<1>8. CASE k < Width - 2 /\ base * p > maxDelay
  BY <1>2, <1>3, <1>4, <1>8 DEF p
<1>9. CASE k < Width - 2 /\ ~(base * p > maxDelay)
  <2>1. delayFor(base, maxDelay, k) = base * p
    BY <1>2, <1>3, <1>4, <1>5, <1>6, <1>9
  <2> QED BY <1>2, <1>5, <1>9, <2>1 DEF p
<1> QED BY <1>2, <1>7, <1>8, <1>9

(* The jitter adds at most a fifth and stays below the cap.                 *)
LEMMA Jittered ==
  ASSUME NEW maxDelay \in 1 .. MaxDuration, NEW d \in 1 .. maxDelay,
         NEW wait \in jittered(d, maxDelay)
  PROVE  wait \in d .. maxDelay /\ wait <= d + d \div 5
<1>1. maxDelay \in Nat /\ d \in Nat /\ d <= maxDelay /\ maxDelay <= MaxDuration
      /\ MaxDuration \in Nat
  BY Durations
<1>2. PICK j \in 0 .. d \div 5 :
        wait = Wrap(d + IF j > maxDelay - d THEN maxDelay - d ELSE j)
  BY DEF jittered
<1>3. PICK jitter : jitter = IF j > maxDelay - d THEN maxDelay - d ELSE j
  OBVIOUS
<1>4. j \in Nat /\ j <= d \div 5 /\ d \div 5 \in Nat
  BY <1>1
<1>5. jitter \in Nat /\ jitter <= maxDelay - d /\ jitter <= j
  BY <1>1, <1>3, <1>4
<1>6. d + jitter \in 0 .. MaxDuration
  BY <1>1, <1>5
<1>7. wait = d + jitter
  BY <1>2, <1>3, <1>6, Durations
<1> QED BY <1>1, <1>4, <1>5, <1>7

-----------------------------------------------------------------------------
(* The invariant                                                            *)

(* No attempt goes past the retries of this delivery, and one waits only    *)
(* for an attempt that is left.                                             *)
Within == attempt <= Retries /\ (pc = "waiting" => attempt < Retries)

(* What the deliveries before this one may have called.                     *)
Before ==
  IF cfg.skip /\ cfg.counted
    THEN IF delivery = 1 THEN 0 ELSE cfg.retries + delivery - 1
    ELSE (cfg.retries + 1) * (delivery - 1)

Counted == calls <= Before + attempt + IF pc = "calling" THEN 0 ELSE 1

Inv == TypeOK /\ Within /\ Counted /\ DelayIsExponential

LEMMA ConfigType ==
  ASSUME NEW c \in Configs
  PROVE  /\ c.base \in 1 .. MaxDuration /\ c.maxDelay \in 1 .. MaxDuration /\ c.base <= c.maxDelay
         /\ c.retries \in Nat /\ c.skip \in BOOLEAN /\ c.counted \in BOOLEAN
         /\ c.maxDelay \in Nat /\ c.base \in Nat
BY Durations, RetryAssumption DEF Configs, RetryAssumption

LEMMA RetriesType ==
  ASSUME TypeOK
  PROVE  Retries \in Nat /\ Retries <= cfg.retries
BY ConfigType DEF TypeOK, Retries

LEMMA BeforeType ==
  ASSUME TypeOK
  PROVE  Before \in Nat
<1>1. cfg.retries \in Nat /\ delivery \in Nat \ {0} /\ delivery - 1 \in Nat
  BY ConfigType, RetryAssumption DEF TypeOK, RetryAssumption
<1>2. (cfg.retries + 1) * (delivery - 1) \in Nat
  BY <1>1
<1> QED BY <1>1, <1>2 DEF Before

LEMMA InitInv == Init => Inv
<1> SUFFICES ASSUME Init PROVE Inv
  OBVIOUS
<1>1. TypeOK
  <2>1. cfg \in Configs /\ MaxDeliveries \in Nat \ {0}
    BY RetryAssumption DEF Init, RetryAssumption
  <2>2. 0 \in 0 .. cfg.retries /\ 0 \in 0 .. cfg.maxDelay /\ 1 \in 1 .. MaxDeliveries
    BY <2>1, ConfigType
  <2> QED BY <2>1, <2>2 DEF Init, TypeOK
<1>2. Within
  BY <1>1, RetriesType DEF Init, Within
<1>3. Counted
  BY <1>1, BeforeType DEF Init, Counted
<1> QED BY <1>1, <1>2, <1>3 DEF Inv, Init, DelayIsExponential

(* A failed attempt waits for the delay of its number (run, wait).          *)
LEMMA FailsInv ==
  ASSUME Inv, NEW failure \in {"retryable", "nonretryable"}, HandlerFails(failure)
  PROVE  Inv'
<1>1. /\ TypeOK /\ Within /\ Counted /\ pc = "calling" /\ calls' = calls + 1
      /\ attempt' = attempt /\ cfg' = cfg /\ delivery' = delivery /\ ended' = ended
      /\ result' = failure /\ attempt \in Nat /\ calls \in Nat
      /\ pc' \in {"waiting", "returned"}
  BY ConfigType DEF Inv, TypeOK, HandlerFails
<1>2. Retries' = Retries /\ Before' = Before
  BY <1>1 DEF Retries, Before
<1>3. pc' = "waiting" =>
        /\ attempt < Retries
        /\ delay' \in jittered(delayFor(cfg.base, cfg.maxDelay, attempt), cfg.maxDelay)
  BY <1>1, RetriesType DEF HandlerFails, Within
<1>4. pc' # "waiting" => delay' = delay
  BY <1>1 DEF HandlerFails
<1>5. /\ cfg.base \in 1 .. MaxDuration /\ cfg.maxDelay \in 1 .. MaxDuration
      /\ cfg.base <= cfg.maxDelay
  BY <1>1, ConfigType DEF TypeOK
<1>6. ASSUME pc' = "waiting"
      PROVE  delay' \in 0 .. cfg.maxDelay /\ DelayIsExponential'
  <2> DEFINE d == delayFor(cfg.base, cfg.maxDelay, attempt)
  <2>1. /\ d \in 1 .. cfg.maxDelay
        /\ attempt >= Width - 2 => d = cfg.maxDelay
        /\ attempt < Width - 2 => d = Exponential(attempt)
    BY <1>1, <1>5, DelayFor DEF Exponential
  <2> HIDE DEF d
  <2>2. delay' \in d .. cfg.maxDelay /\ delay' <= d + d \div 5
    BY <1>3, <1>5, <1>6, <2>1, Jittered DEF d
  <2>3. Exponential(attempt)' = Exponential(attempt)
    BY <1>1 DEF Exponential
  <2>4. cfg.maxDelay \in Nat /\ Width \in Nat
    BY <1>1, ConfigType, RetryAssumption DEF TypeOK, RetryAssumption
  <2>5. CASE attempt >= Width - 2
    BY <1>1, <2>1, <2>2, <2>4, <2>5 DEF DelayIsExponential
  <2>6. CASE attempt < Width - 2
    <3>1. /\ delay' \in Exponential(attempt) .. Exponential(attempt) + Exponential(attempt) \div 5
          /\ delay' \in 0 .. cfg.maxDelay
      BY <2>1, <2>2, <2>4, <2>6
    <3> QED BY <1>1, <2>3, <2>4, <2>6, <3>1 DEF DelayIsExponential
  <2> QED BY <1>1, <2>4, <2>5, <2>6
<1>7. TypeOK'
  <2>1. delay' \in 0 .. cfg.maxDelay
    BY <1>1, <1>4, <1>6 DEF TypeOK
  <2> QED BY <1>1, <2>1 DEF TypeOK
<1>8. Within'
  BY <1>1, <1>2, <1>3 DEF Within
<1>9. Counted'
  BY <1>1, <1>2, BeforeType DEF Counted
<1> QED BY <1>6, <1>7, <1>8, <1>9 DEF Inv, DelayIsExponential

(* The attempts of a delivery are over: they count with those before it.    *)
LEMMA RedeliveredInv ==
  ASSUME Inv, Redelivered
  PROVE  Inv'
<1>1. /\ TypeOK /\ Within /\ Counted /\ pc = "returned" /\ delivery' = delivery + 1
      /\ pc' = "calling" /\ attempt' = 0 /\ delay' = 0 /\ ended' = FALSE /\ result' = "none"
      /\ cfg' = cfg /\ calls' = calls /\ delivery < MaxDeliveries
  BY DEF Inv, Redelivered
<1>2. cfg.retries \in Nat /\ cfg.maxDelay \in Nat /\ delivery \in Nat \ {0} /\ MaxDeliveries \in Nat
      /\ attempt \in Nat /\ calls \in Nat
  BY <1>1, ConfigType, RetryAssumption DEF TypeOK, RetryAssumption
<1>3. TypeOK'
  <2>1. 0 \in 0 .. cfg.retries /\ 0 \in 0 .. cfg.maxDelay /\ delivery + 1 \in 1 .. MaxDeliveries
    BY <1>1, <1>2 DEF TypeOK
  <2> QED BY <1>1, <2>1 DEF TypeOK
<1>4. Within'
  BY <1>1, <1>3, RetriesType DEF Within, Retries, TypeOK
<1>5. Counted'
  <2>1. calls <= Before + attempt + 1 /\ attempt <= Retries
    BY <1>1 DEF Counted, Within
  <2>2. CASE cfg.skip /\ cfg.counted
    BY <1>1, <1>2, <2>1, <2>2 DEF Counted, Before, Retries
  <2>3. CASE ~(cfg.skip /\ cfg.counted)
    <3>1. (cfg.retries + 1) * ((delivery + 1) - 1)
            = (cfg.retries + 1) * (delivery - 1) + cfg.retries + 1
      BY <1>2
    <3>2. calls <= (cfg.retries + 1) * (delivery - 1) + attempt + 1 /\ attempt <= cfg.retries
      BY <2>1, <2>3 DEF Before, Retries
    <3>3. (cfg.retries + 1) * (delivery - 1) \in Nat
      BY <1>2
    <3>4. Before' = (cfg.retries + 1) * ((delivery + 1) - 1)
      BY <1>1, <2>3 DEF Before
    <3> QED BY <1>1, <1>2, <3>1, <3>2, <3>3, <3>4 DEF Counted
  <2> QED BY <2>2, <2>3
<1> QED BY <1>1, <1>3, <1>4, <1>5 DEF Inv, DelayIsExponential

LEMMA NextInv == Inv /\ [Next]_vars => Inv'
<1> SUFFICES ASSUME Inv, [Next]_vars PROVE Inv'
  OBVIOUS
<1>1. /\ TypeOK /\ Within /\ Counted /\ DelayIsExponential
      /\ Before \in Nat /\ Retries \in Nat /\ Retries <= cfg.retries
  BY RetriesType, BeforeType DEF Inv
<1>2. attempt \in Nat /\ calls \in Nat /\ cfg.retries \in Nat
  BY <1>1, ConfigType DEF TypeOK
<1>3. cfg' = cfg /\ delivery' = delivery => Retries' = Retries /\ Before' = Before
  BY DEF Retries, Before
<1>4. CASE HandlerSucceeds
  BY <1>1, <1>2, <1>3, <1>4 DEF HandlerSucceeds, Inv, TypeOK, Within, Counted, DelayIsExponential
<1>5. CASE \E failure \in {"retryable", "nonretryable"} : HandlerFails(failure)
  BY <1>5, FailsInv
<1>6. CASE DelayPasses
  <2>1. attempt < Retries /\ attempt' = attempt + 1 /\ pc = "waiting" /\ pc' = "calling"
        /\ UNCHANGED <<cfg, delivery, delay, ended, result, calls>>
    BY <1>1, <1>6 DEF DelayPasses, Within
  <2>2. TypeOK'
    BY <1>1, <1>2, <2>1 DEF TypeOK
  <2>3. Within' /\ Counted' /\ DelayIsExponential'
    BY <1>1, <1>2, <1>3, <2>1 DEF Within, Counted, DelayIsExponential
  <2> QED BY <2>2, <2>3 DEF Inv
<1>7. CASE WaitIsCancelled
  BY <1>1, <1>2, <1>3, <1>7 DEF WaitIsCancelled, Inv, TypeOK, Within, Counted, DelayIsExponential
<1>8. CASE ContextEnds \/ UNCHANGED vars
  <2>1. UNCHANGED <<cfg, delivery, pc, attempt, delay, result, calls>> /\ ended' \in BOOLEAN
    BY <1>1, <1>8 DEF ContextEnds, vars, TypeOK
  <2>2. TypeOK' /\ Within' /\ Counted'
    BY <1>1, <1>3, <2>1 DEF TypeOK, Within, Counted
  <2>3. DelayIsExponential'
    BY <1>1, <2>1 DEF DelayIsExponential, Exponential
  <2> QED BY <2>2, <2>3 DEF Inv
<1>9. CASE Redelivered
  BY <1>9, RedeliveredInv
<1> QED BY <1>4, <1>5, <1>6, <1>7, <1>8, <1>9 DEF Next, Run

LEMMA Invariance == Spec => []Inv
BY InitInv, NextInv, PTL DEF Spec

-----------------------------------------------------------------------------
(* The theorems                                                             *)

(* Every variable keeps its type: no wait is negative or past the cap, and  *)
(* no delivery has more attempts than retries and one (run, wait).          *)
THEOREM TypeCorrect == Spec => []TypeOK
<1>1. Inv => TypeOK
  BY DEF Inv
<1> QED BY <1>1, Invariance, PTL

(* A wait lasts base doubled at every attempt, capped and with at most a    *)
(* fifth more, in durations of 64 bits as of any other width (delayFor,     *)
(* jittered).                                                               *)
THEOREM DelaysAreExponential == Spec => []DelayIsExponential
<1>1. Inv => DelayIsExponential
  BY DEF Inv
<1> QED BY <1>1, Invariance, PTL

(* With SkipOnRedelivery and a delivery count the retries of the process    *)
(* add to those of the broker, for any number of either; otherwise they     *)
(* multiply, and no more than that (SkipOnRedelivery, redelivered).         *)
THEOREM RetriesAdd == Spec => []RetriesDoNotMultiply
<1>1. Inv => RetriesDoNotMultiply
  <2> SUFFICES ASSUME Inv PROVE RetriesDoNotMultiply
    OBVIOUS
  <2>1. /\ cfg.retries \in Nat /\ delivery \in Nat \ {0} /\ attempt \in Nat /\ calls \in Nat
        /\ attempt <= Retries /\ calls <= Before + attempt + 1 /\ Before \in Nat
    BY ConfigType, BeforeType, RetryAssumption
       DEF Inv, TypeOK, Within, Counted, RetryAssumption
  <2>2. CASE cfg.skip /\ cfg.counted
    BY <2>1, <2>2 DEF Before, Retries, RetriesDoNotMultiply
  <2>3. CASE ~(cfg.skip /\ cfg.counted)
    <3>1. (cfg.retries + 1) * delivery = (cfg.retries + 1) * (delivery - 1) + cfg.retries + 1
      BY <2>1
    <3>2. calls <= (cfg.retries + 1) * (delivery - 1) + attempt + 1 /\ attempt <= cfg.retries
      BY <2>1, <2>3 DEF Before, Retries
    <3>3. (cfg.retries + 1) * (delivery - 1) \in Nat
      BY <2>1
    <3> QED BY <2>1, <2>3, <3>1, <3>2, <3>3 DEF RetriesDoNotMultiply
  <2> QED BY <2>2, <2>3
<1> QED BY <1>1, Invariance, PTL

=============================================================================
