------------------------ MODULE TokenProviderProofs ------------------------
(***************************************************************************)
(* TokenProvider keeps its invariants for any number of callers, lifetime,  *)
(* CacheTTL and bound.                                                      *)
(*                                                                         *)
(* The argument: whoever fetches holds the lock, and found the cache stale. *)
(* Nobody else changes the cache meanwhile, and a stale token stays stale,  *)
(* so that a token is issued only when every token received is due.         *)
(***************************************************************************)
EXTENDS TokenProvider, TLAPS

(* The lock is held by the one caller that fetches, and by nobody else.     *)
Holder == \A c \in Callers : pc[c] \in {"fetching", "issued"} <=> mu = c

(* Tokens are issued one after the other, and received after that.          *)
InOrder ==
  /\ \A t \in Tokens : issuedAt[t] <= now /\ receivedAt[t] <= now
  /\ \A t, u \in Tokens : t < u /\ issuedAt[u] # Never => issuedAt[t] # Never
  /\ \A t \in Tokens : receivedAt[t] # Never => issuedAt[t] # Never

(* The token on its way to the holder of the lock is the last one issued.   *)
OnItsWay ==
  \A c \in Callers : pc[c] = "issued" =>
    /\ token[c] \in Tokens /\ receivedAt[token[c]] = Never
    /\ issuedAt[token[c]] # Never
    /\ \A u \in Tokens : token[c] < u => issuedAt[u] = Never

(* The token kept is one received, and is kept for its time to live.        *)
CacheIsReceived ==
  cached # NoToken =>
    receivedAt[cached] # Never /\ expiresAt = receivedAt[cached] + resolveTTL

(* Where tokens are kept at all, none received is due after the one kept.   *)
LastIsKept ==
  resolveTTL > 0 => \A t \in Tokens : receivedAt[t] # Never =>
    cached # NoToken /\ receivedAt[t] + resolveTTL <= expiresAt

(* Nobody fetches while the cache has a token to give.                      *)
FetchesStale == \A c \in Callers : pc[c] \in {"fetching", "issued"} => ~Fresh

Inv ==
  /\ TypeOK /\ Holder /\ InOrder /\ OnItsWay /\ CacheIsReceived /\ LastIsKept /\ FetchesStale
  /\ OneFetchPerTTL

-----------------------------------------------------------------------------
(* A duration in seconds never exceeds the number it was made of: the int64 *)
(* of resolveTTL wraps downwards.                                           *)
LEMMA SecondsBounded ==
  ASSUME NEW v \in Nat
  PROVE  Seconds(v) \in Int /\ Seconds(v) <= v
<1> DEFINE m == 2 * MaxDuration
           x == v + MaxDuration
<1>1. m \in Nat \ {0} /\ x \in Nat
  BY TokenAssumption
<1> HIDE DEF m, x
<1>2. x % m \in Nat /\ x % m <= x
  <2>1. x = m * (x \div m) + (x % m) /\ x % m \in 0 .. m - 1 /\ x \div m \in Int
    BY <1>1
  <2>2. x \div m >= 0
    BY <1>1
  <2>3. m * (x \div m) >= 0
    BY <1>1, <2>1, <2>2
  <2> DEFINE q == m * (x \div m)
  <2>4. q \in Int /\ q >= 0 /\ x = q + (x % m)
    BY <1>1, <2>1, <2>3
  <2> HIDE DEF q
  <2> QED BY <1>1, <2>1, <2>4
<1>3. Seconds(v) = (x % m) - MaxDuration
  BY DEF Seconds, x, m
<1> QED BY <1>1, <1>2, <1>3, TokenAssumption DEF x

LEMMA TTLType ==
  ASSUME TypeOK
  PROVE  /\ resolveTTL \in Int
         /\ cfg.reported /\ cfg.lifetime > 0 => resolveTTL <= cfg.lifetime
<1>1. cfg.lifetime \in Nat /\ cfg.cacheTTL \in Nat
  BY TokenAssumption DEF TypeOK, Configs
<1> QED BY <1>1, SecondsBounded DEF resolveTTL

LEMMA TokensType == \A t \in Tokens : t \in Int /\ 1 <= t
BY DEF Tokens

LEMMA InitInv == Init => Inv
<1> SUFFICES ASSUME Init PROVE Inv
  OBVIOUS
<1>1. TypeOK
  BY TokenAssumption DEF Init, TypeOK, Configs, NoToken, Never, Tokens
<1>2. Holder /\ InOrder /\ OnItsWay /\ CacheIsReceived /\ LastIsKept /\ FetchesStale
  BY TokenAssumption DEF Init, Holder, InOrder, OnItsWay, CacheIsReceived, LastIsKept, FetchesStale, NoToken, Never
<1>3. OneFetchPerTTL
  BY DEF Init, OneFetchPerTTL, Never
<1> QED BY <1>1, <1>2, <1>3 DEF Inv

(* A step changes no configuration, so that the time to live is the same.   *)
LEMMA SameTTL ==
  ASSUME Next
  PROVE  cfg' = cfg /\ resolveTTL' = resolveTTL
<1>1. cfg' = cfg
  BY DEF Next, Tick, Publish, PublishStep, Locks, FindsCached, Issues, FetchRetries, FetchFails,
         Receives, Accepted, Refused, SendsAgain, SendFails
<1> QED BY <1>1 DEF resolveTTL

(* Types, one action after the other.                                       *)
LEMMA NextType ==
  ASSUME TypeOK, Next
  PROVE  TypeOK'
<1> USE TokenAssumption DEF TypeOK, NoToken, Never, Cache, Server, Fault, Returns
<1>1. CASE Tick
  BY <1>1 DEF Tick
<1>2. ASSUME NEW c \in Callers, Publish(c) PROVE TypeOK'
  BY <1>2 DEF Publish
<1>3. ASSUME NEW c \in Callers, Locks(c) PROVE TypeOK'
  BY <1>3 DEF Locks
<1>4. ASSUME NEW c \in Callers, FindsCached(c) PROVE TypeOK'
  BY <1>4 DEF FindsCached
<1>5. ASSUME NEW c \in Callers, Issues(c) PROVE TypeOK'
  BY <1>5 DEF Issues
<1>6. ASSUME NEW c \in Callers, FetchRetries(c) PROVE TypeOK'
  BY <1>6 DEF FetchRetries
<1>7. ASSUME NEW c \in Callers, FetchFails(c) PROVE TypeOK'
  BY <1>7 DEF FetchFails
<1>8. ASSUME NEW c \in Callers, Receives(c) PROVE TypeOK'
  <2>1. resolveTTL \in Int /\ now \in Nat
    BY TTLType
  <2>2. expiresAt' \in Int /\ cached' \in Tokens \cup {NoToken}
    <3>1. CASE resolveTTL > 0
      BY <1>8, <2>1, <3>1 DEF Receives
    <3>2. CASE ~(resolveTTL > 0)
      BY <1>8, <3>2 DEF Receives
    <3> QED BY <3>1, <3>2
  <2>3. receivedAt' \in [Tokens -> Nat \cup {Never}]
    BY <1>8, <2>1 DEF Receives
  <2> QED BY <1>8, <2>2, <2>3 DEF Receives
<1>9. ASSUME NEW c \in Callers, Accepted(c) PROVE TypeOK'
  BY <1>9 DEF Accepted
<1>10. ASSUME NEW c \in Callers, Refused(c) PROVE TypeOK'
  BY <1>10 DEF Refused
<1>11. ASSUME NEW c \in Callers, SendsAgain(c) PROVE TypeOK'
  BY <1>11 DEF SendsAgain
<1>12. ASSUME NEW c \in Callers, SendFails(c) PROVE TypeOK'
  BY <1>12 DEF SendFails
<1> QED BY <1>1, <1>2, <1>3, <1>4, <1>5, <1>6, <1>7, <1>8, <1>9, <1>10, <1>11, <1>12
        DEF Next, PublishStep

(* The steps of a caller that fetches neither before nor after.             *)
LEMMA QuietStep ==
  ASSUME Inv, TypeOK', NEW c \in Callers, UNCHANGED <<cfg, now, mu, Cache, Server>>,
         pc[c] \notin {"fetching", "issued"}, pc'[c] \notin {"fetching", "issued"},
         \A d \in Callers \ {c} : pc'[d] = pc[d] /\ token'[d] = token[d]
  PROVE  Inv'
<1> USE DEF Inv, Cache, Server
<1>1. Holder'
  BY DEF Holder
<1>2. InOrder'
  BY DEF InOrder
<1>3. OnItsWay'
  BY DEF OnItsWay
<1>4. CacheIsReceived' /\ LastIsKept'
  BY DEF CacheIsReceived, LastIsKept, resolveTTL
<1>5. FetchesStale'
  BY DEF FetchesStale, Fresh
<1>6. OneFetchPerTTL'
  BY DEF OneFetchPerTTL, resolveTTL
<1> QED BY <1>1, <1>2, <1>3, <1>4, <1>5, <1>6

LEMMA TickStep ==
  ASSUME Inv, TypeOK', Tick
  PROVE  Inv'
<1> USE DEF Inv, Tick, Cache, Server
<1>1. Holder' /\ OnItsWay' /\ CacheIsReceived' /\ LastIsKept' /\ OneFetchPerTTL'
  BY DEF Holder, OnItsWay, CacheIsReceived, LastIsKept, OneFetchPerTTL, resolveTTL
<1>2. InOrder'
  BY DEF InOrder, TypeOK, Never
<1>3. FetchesStale'
  BY DEF FetchesStale, Fresh, TypeOK
<1> QED BY <1>1, <1>2, <1>3

(* The lock is free, so that nobody else fetches; the cache is stale.       *)
LEMMA LocksStep ==
  ASSUME Inv, TypeOK', NEW c \in Callers, Locks(c)
  PROVE  Inv'
<1> USE DEF Inv, Locks, Cache, Server
<1>1. Holder'
  BY TokenAssumption DEF Holder, TypeOK
<1>2. InOrder'
  BY DEF InOrder
<1>3. OnItsWay'
  BY DEF OnItsWay, TypeOK
<1>4. CacheIsReceived' /\ LastIsKept' /\ OneFetchPerTTL'
  BY DEF CacheIsReceived, LastIsKept, OneFetchPerTTL, resolveTTL
<1>5. FetchesStale'
  BY DEF FetchesStale, Fresh
<1> QED BY <1>1, <1>2, <1>3, <1>4, <1>5

(* Every token received is due when another one is issued.                  *)
LEMMA IssuesStep ==
  ASSUME Inv, TypeOK', NEW c \in Callers, Issues(c)
  PROVE  Inv'
<1> USE DEF Inv, Cache, Server
<1>1. PICK t \in Tokens :
        /\ issuedAt[t] = Never /\ \A u \in Tokens : u < t => issuedAt[u] # Never
        /\ issuedAt' = [issuedAt EXCEPT ![t] = now]
        /\ token' = [token EXCEPT ![c] = t]
  BY DEF Issues
<1>2. /\ pc[c] = "fetching" /\ pc' = [pc EXCEPT ![c] = "issued"]
      /\ UNCHANGED <<cfg, now, mu, cached, expiresAt, receivedAt>>
  BY DEF Issues
<1>3. now \in Nat /\ now # Never
  BY DEF TypeOK, Never
<1>4. \A u \in Tokens : t < u => issuedAt[u] = Never
  BY <1>1 DEF InOrder
<1>5. Holder'
  BY <1>2 DEF Holder, TypeOK
<1>6. InOrder'
  <2>1. \A u \in Tokens : issuedAt'[u] <= now' /\ receivedAt'[u] <= now'
    BY <1>1, <1>2, <1>3 DEF InOrder, TypeOK
  <2>2. \A u, v \in Tokens : u < v /\ issuedAt'[v] # Never => issuedAt'[u] # Never
    BY <1>1, <1>3, <1>4, TokensType DEF InOrder, TypeOK
  <2>3. \A u \in Tokens : receivedAt'[u] # Never => issuedAt'[u] # Never
    BY <1>1, <1>2, <1>3 DEF InOrder, TypeOK
  <2> QED BY <2>1, <2>2, <2>3 DEF InOrder
<1>7. OnItsWay'
  <2>1. receivedAt[t] = Never
    BY <1>1 DEF InOrder
  <2>2. \A d \in Callers : pc'[d] = "issued" => d = c
    BY <1>2 DEF Holder, TypeOK
  <2>3. \A u \in Tokens : t < u => issuedAt'[u] = Never
    BY <1>1, <1>4, TokensType DEF TypeOK
  <2> QED BY <1>1, <1>2, <1>3, <2>1, <2>2, <2>3 DEF OnItsWay, TypeOK
<1>8. CacheIsReceived' /\ LastIsKept'
  BY <1>2 DEF CacheIsReceived, LastIsKept, resolveTTL
<1>9. FetchesStale'
  BY <1>2 DEF FetchesStale, Fresh, TypeOK
<1>10. OneFetchPerTTL'
  <2>1. \A u \in Tokens : receivedAt[u] # Never => now >= receivedAt[u] + resolveTTL
    <3>1. CASE resolveTTL > 0
      BY <1>2, <1>3, <3>1, TTLType DEF LastIsKept, FetchesStale, Fresh, TypeOK, Never
    <3>2. CASE ~(resolveTTL > 0)
      BY <1>3, <3>2, TTLType DEF InOrder, TypeOK, Never
    <3> QED BY <3>1, <3>2
  <2>2. resolveTTL' = resolveTTL
    BY <1>2 DEF resolveTTL
  <2>3. ASSUME NEW u \in Tokens, NEW v \in Tokens, u < v, receivedAt[u] # Never,
               issuedAt'[v] # Never
        PROVE  issuedAt'[v] >= receivedAt[u] + resolveTTL
    <3>1. CASE v = t
      BY <1>1, <2>1, <2>3, <3>1 DEF TypeOK
    <3>2. CASE v # t
      BY <1>1, <2>3, <3>2 DEF OneFetchPerTTL, TypeOK
    <3> QED BY <3>1, <3>2
  <2> QED BY <1>2, <2>2, <2>3 DEF OneFetchPerTTL
<1> QED BY <1>5, <1>6, <1>7, <1>8, <1>9, <1>10

LEMMA FetchRetriesStep ==
  ASSUME Inv, TypeOK', NEW c \in Callers, FetchRetries(c)
  PROVE  Inv'
<1> USE DEF Inv, FetchRetries, Cache, Server
<1>1. Holder' /\ OnItsWay'
  BY DEF Holder, OnItsWay, TypeOK
<1>2. InOrder' /\ CacheIsReceived' /\ LastIsKept' /\ OneFetchPerTTL'
  BY DEF InOrder, CacheIsReceived, LastIsKept, OneFetchPerTTL, resolveTTL
<1>3. FetchesStale'
  BY DEF FetchesStale, Fresh, TypeOK
<1> QED BY <1>1, <1>2, <1>3

LEMMA FetchFailsStep ==
  ASSUME Inv, TypeOK', NEW c \in Callers, FetchFails(c)
  PROVE  Inv'
<1> USE DEF Inv, FetchFails, Returns, Cache, Server
<1>1. Holder' /\ OnItsWay'
  BY TokenAssumption DEF Holder, OnItsWay, TypeOK
<1>2. InOrder' /\ CacheIsReceived' /\ LastIsKept' /\ OneFetchPerTTL'
  BY DEF InOrder, CacheIsReceived, LastIsKept, OneFetchPerTTL, resolveTTL
<1>3. FetchesStale'
  BY DEF FetchesStale, Fresh, TypeOK
<1> QED BY <1>1, <1>2, <1>3

(* The token received is the last one issued; nobody but the caller could   *)
(* fetch, and the lock it gives back nobody else held.                      *)
LEMMA ReceivesStep ==
  ASSUME Inv, TypeOK', NEW c \in Callers, Receives(c)
  PROVE  Inv'
<1> USE DEF Inv, Cache
<1> DEFINE t == token[c]
<1>1. /\ pc[c] = "issued" /\ pc' = [pc EXCEPT ![c] = "sending"]
      /\ receivedAt' = [receivedAt EXCEPT ![t] = now]
      /\ mu' = Nobody
      /\ UNCHANGED <<cfg, now, issuedAt, token>>
  BY DEF Receives
<1>2. /\ t \in Tokens /\ receivedAt[t] = Never /\ issuedAt[t] # Never
      /\ \A u \in Tokens : t < u => issuedAt[u] = Never
  BY <1>1 DEF OnItsWay
<1>3. resolveTTL' = resolveTTL /\ resolveTTL \in Int
  BY <1>1, TTLType DEF resolveTTL
<1>4. \/ resolveTTL > 0 /\ cached' = t /\ expiresAt' = now + resolveTTL
      \/ ~(resolveTTL > 0) /\ cached' = cached /\ expiresAt' = expiresAt
  BY DEF Receives
<1>5. now \in Nat /\ now # Never /\ t # NoToken
  BY <1>2, TokensType DEF TypeOK, Never, NoToken
<1>6. /\ receivedAt'[t] = now
      /\ \A u \in Tokens \ {t} : receivedAt'[u] = receivedAt[u]
  BY <1>1, <1>2 DEF TypeOK
<1>7. Holder'
  BY <1>1, TokenAssumption DEF Holder, TypeOK
<1>8. InOrder'
  BY <1>1, <1>2, <1>5, <1>6 DEF InOrder, TypeOK
<1> HIDE DEF t
<1>9. OnItsWay'
  BY <1>1, TokenAssumption DEF Holder, OnItsWay, TypeOK
<1>10. CacheIsReceived'
  <2>1. CASE resolveTTL > 0
    BY <1>2, <1>3, <1>4, <1>5, <1>6, <2>1 DEF CacheIsReceived
  <2>2. CASE ~(resolveTTL > 0)
    <3>1. cached' # NoToken => cached' = cached /\ cached \in Tokens /\ cached # t
      BY <1>2, <1>4, <2>2 DEF CacheIsReceived, TypeOK
    <3> QED BY <1>3, <1>4, <1>6, <2>2, <3>1 DEF CacheIsReceived
  <2> QED BY <2>1, <2>2
<1>11. LastIsKept'
  <2> SUFFICES ASSUME resolveTTL > 0, NEW u \in Tokens, receivedAt'[u] # Never
               PROVE  cached' # NoToken /\ receivedAt'[u] + resolveTTL <= expiresAt'
    BY <1>3 DEF LastIsKept
  <2>1. receivedAt'[u] <= now /\ receivedAt'[u] \in Int
    BY <1>1, <1>8, <1>5 DEF InOrder, TypeOK, Never
  <2> QED BY <1>3, <1>4, <1>5, <2>1
<1>12. FetchesStale'
  BY <1>1, TokenAssumption DEF Holder, FetchesStale, TypeOK
<1>13. OneFetchPerTTL'
  BY <1>1, <1>2, <1>3, <1>6 DEF OneFetchPerTTL
<1> QED BY <1>7, <1>8, <1>9, <1>10, <1>11, <1>12, <1>13

LEMMA NextInv == Inv /\ [Next]_vars => Inv'
<1> SUFFICES ASSUME Inv, [Next]_vars PROVE Inv'
  OBVIOUS
<1>1. CASE UNCHANGED vars
  BY <1>1 DEF vars, Cache, Server, Inv, TypeOK, Holder, InOrder, OnItsWay, CacheIsReceived,
              LastIsKept, FetchesStale, Fresh, OneFetchPerTTL, resolveTTL
<1>2. CASE Next
  <2>1. TypeOK'
    BY <1>2, NextType DEF Inv
  <2>2. CASE Tick
    BY <2>1, <2>2, TickStep
  <2>3. ASSUME NEW c \in Callers, Publish(c) \/ PublishStep(c) PROVE Inv'
    <3>1. CASE Locks(c)
      BY <2>1, <3>1, LocksStep
    <3>2. CASE Issues(c)
      BY <2>1, <3>2, IssuesStep
    <3>3. CASE FetchRetries(c)
      BY <2>1, <3>3, FetchRetriesStep
    <3>4. CASE FetchFails(c)
      BY <2>1, <3>4, FetchFailsStep
    <3>5. CASE Receives(c)
      BY <2>1, <3>5, ReceivesStep
    <3>6. CASE Publish(c) \/ FindsCached(c) \/ Accepted(c) \/ Refused(c) \/ SendsAgain(c)
               \/ SendFails(c)
      <4>1. /\ UNCHANGED <<cfg, now, mu, Cache, Server>>
            /\ pc[c] \notin {"fetching", "issued"} /\ pc'[c] \notin {"fetching", "issued"}
            /\ \A d \in Callers \ {c} : pc'[d] = pc[d] /\ token'[d] = token[d]
        BY <3>6 DEF Publish, FindsCached, Accepted, Refused, SendsAgain, SendFails, Returns, Inv,
                    TypeOK
      <4> QED BY <2>1, <4>1, QuietStep
    <3> QED BY <2>3, <3>1, <3>2, <3>3, <3>4, <3>5, <3>6 DEF PublishStep
  <2> QED BY <1>2, <2>2, <2>3 DEF Next
<1> QED BY <1>1, <1>2

LEMMA Invariance == Spec => []Inv
BY InitInv, NextInv, PTL DEF Spec

-----------------------------------------------------------------------------
(* Every variable keeps its type.                                           *)
THEOREM TypeCorrect == Spec => []TypeOK
<1>1. Inv => TypeOK
  BY DEF Inv
<1> QED BY Invariance, <1>1, PTL

(* The auth server is not asked for a token while one it gave is not due,   *)
(* for any number of callers, whatever fails between them (Token, which     *)
(* holds its lock across fetch).                                            *)
THEOREM OneFetch == Spec => []OneFetchPerTTL
<1>1. Inv => OneFetchPerTTL
  BY DEF Inv
<1> QED BY Invariance, <1>1, PTL

(* The cache gives no token for longer than the auth server said it lasts,  *)
(* whatever the CacheTTL and however long the lifetime: a duration that     *)
(* wraps falls short (Token, resolveTTL).                                   *)
THEOREM Served == Spec => []ServedWithinLifetime
<1>1. Inv => ServedWithinLifetime
  <2> SUFFICES ASSUME Inv, Fresh, cfg.reported, cfg.lifetime > 0
               PROVE  now < receivedAt[cached] + cfg.lifetime
    BY DEF ServedWithinLifetime
  <2>1. /\ expiresAt = receivedAt[cached] + resolveTTL
        /\ now < expiresAt
        /\ cached \in Tokens
    BY DEF Inv, CacheIsReceived, Fresh, TypeOK
  <2>2. /\ resolveTTL \in Int /\ resolveTTL <= cfg.lifetime
        /\ receivedAt[cached] \in Int /\ cfg.lifetime \in Int /\ now \in Int
    <3>1. TypeOK
      BY DEF Inv
    <3>2. resolveTTL \in Int /\ resolveTTL <= cfg.lifetime
      BY <3>1, TTLType
    <3>3. receivedAt[cached] \in Int /\ now \in Int
      BY <2>1, <3>1 DEF TypeOK, Never
    <3>4. cfg.lifetime \in Nat
      BY <3>1, TokenAssumption DEF TypeOK, Configs
    <3> QED BY <3>2, <3>3, <3>4
  <2> QED BY <2>1, <2>2
<1> QED BY Invariance, <1>1, PTL

=============================================================================
