--------------------------- MODULE TokenProvider ---------------------------
(***************************************************************************)
(* Callers of Publisher.Publish that share a token provider: the cache and  *)
(* its lock (eventhttp/token.go), the auth server behind it, and the        *)
(* destination that turns a request down when its token has expired.        *)
(*                                                                         *)
(* Time is a counter that passes between any two steps: while a caller      *)
(* waits for the lock, while the token is on its way, between two attempts. *)
(* The auth server and the destination are external.  What the destination  *)
(* makes of the event itself is HttpTransport's.                            *)
(***************************************************************************)
EXTENDS Integers, FiniteSets

CONSTANTS
  Callers,
  Nobody,
  Lifetimes,    \* how long the auth server's tokens may be valid, in seconds
  CacheTTLs,    \* TokenConfig.CacheTTL
  MaxDuration,  \* the longest time.Duration, in seconds
  Retries,      \* of the token's client and of the publisher's
  MaxPublishes, \* bound: calls of Publish, per caller
  MaxTime,      \* bound: seconds
  MaxFaults     \* bound: requests lost or answered 5xx

ASSUME TokenAssumption ==
  /\ IsFiniteSet(Callers) /\ Nobody \notin Callers
  /\ Lifetimes \subseteq Nat /\ CacheTTLs \subseteq Nat
  /\ MaxDuration \in Nat \ {0} /\ Retries \in Nat
  /\ MaxPublishes \in Nat /\ MaxTime \in Nat /\ MaxFaults \in Nat

VARIABLES
  cfg,        \* what was configured, and what the auth server says
  now,
  mu,         \* who holds the lock of the provider
  cached,     \* the token kept, and until when
  expiresAt,
  issuedAt,   \* when the auth server issued each token
  receivedAt, \* when the provider got it, if it did
  pc,         \* what each caller is doing
  token,      \* the token it has
  attempt,    \* the request it waits for: of a token, or of the event
  calls,      \* how many times it called Publish
  answer,     \* what the last one returned
  faults

vars == <<cfg, now, mu, cached, expiresAt, issuedAt, receivedAt, pc, token, attempt, calls,
          answer, faults>>

Cache == <<cached, expiresAt>>
Server == <<issuedAt, receivedAt>>

NoToken == 0
Never == -1
Tokens == 1 .. Cardinality(Callers) * MaxPublishes + MaxFaults

(* reported: ExpiresInField is set, and the response has a number there,    *)
(* the token's lifetime.                                                    *)
Configs == [reported : BOOLEAN, lifetime : Lifetimes, cacheTTL : CacheTTLs]

Init ==
  /\ cfg \in Configs
  /\ now = 0
  /\ mu = Nobody
  /\ cached = NoToken
  /\ expiresAt = 0
  /\ issuedAt = [t \in Tokens |-> Never]
  /\ receivedAt = [t \in Tokens |-> Never]
  /\ pc = [c \in Callers |-> "idle"]
  /\ token = [c \in Callers |-> NoToken]
  /\ attempt = [c \in Callers |-> 0]
  /\ calls = [c \in Callers |-> 0]
  /\ answer = [c \in Callers |-> "none"]
  /\ faults = 0

Fault == faults < MaxFaults /\ faults' = faults + 1

Returns(c, result) ==
  /\ pc' = [pc EXCEPT ![c] = "idle"]
  /\ token' = [token EXCEPT ![c] = NoToken]
  /\ attempt' = [attempt EXCEPT ![c] = 0]
  /\ answer' = [answer EXCEPT ![c] = result]

-----------------------------------------------------------------------------
(* Token                                                                    *)

(* time.Duration(v) * time.Second is an int64, and wraps.                   *)
Seconds(v) == ((v + MaxDuration) % (2 * MaxDuration)) - MaxDuration

(* Mutant: CacheTTL takes precedence. *)
TTLOfCache == IF cfg.cacheTTL > 0 THEN cfg.cacheTTL ELSE Seconds(cfg.lifetime)

resolveTTL ==
  IF cfg.reported /\ cfg.lifetime > 0
    THEN Seconds(cfg.lifetime) ELSE cfg.cacheTTL

Fresh == cached # NoToken /\ now < expiresAt

Publish(c) ==
  /\ pc[c] = "idle" /\ calls[c] < MaxPublishes
  /\ calls' = [calls EXCEPT ![c] = @ + 1]
  /\ pc' = [pc EXCEPT ![c] = "locking"]
  /\ answer' = [answer EXCEPT ![c] = "none"]
  /\ UNCHANGED <<cfg, now, mu, Cache, Server, token, attempt, faults>>

(* Mutant: the lock is not held across the fetch. *)
LocksForCacheOnly(c) ==
  /\ pc[c] = "locking" /\ mu = Nobody /\ ~Fresh
  /\ pc' = [pc EXCEPT ![c] = "fetching"]
  /\ attempt' = [attempt EXCEPT ![c] = 1]
  /\ UNCHANGED <<cfg, now, mu, Cache, Server, token, calls, answer, faults>>

(* The lock is had and the cache has no token to give.                      *)
Locks(c) ==
  /\ pc[c] = "locking" /\ mu = Nobody /\ ~Fresh
  /\ mu' = c
  /\ pc' = [pc EXCEPT ![c] = "fetching"]
  /\ attempt' = [attempt EXCEPT ![c] = 1]
  /\ UNCHANGED <<cfg, now, Cache, Server, token, calls, answer, faults>>

(* The lock is had, and the cache has one.                                  *)
FindsCached(c) ==
  /\ pc[c] = "locking" /\ mu = Nobody /\ Fresh
  /\ token' = [token EXCEPT ![c] = cached]
  /\ pc' = [pc EXCEPT ![c] = "sending"]
  /\ attempt' = [attempt EXCEPT ![c] = 1]
  /\ UNCHANGED <<cfg, now, mu, Cache, Server, calls, answer, faults>>

(* The auth server issues a token.                                          *)
Issues(c) ==
  /\ pc[c] = "fetching"
  /\ \E t \in Tokens :
       /\ issuedAt[t] = Never /\ \A u \in Tokens : u < t => issuedAt[u] # Never
       /\ issuedAt' = [issuedAt EXCEPT ![t] = now]
       /\ token' = [token EXCEPT ![c] = t]
  /\ pc' = [pc EXCEPT ![c] = "issued"]
  /\ UNCHANGED <<cfg, now, mu, Cache, receivedAt, attempt, calls, answer, faults>>

(* The request or its response is lost, or RetryConfig.RetryOn asks for     *)
(* another attempt, and the client tries again.                             *)
FetchRetries(c) ==
  /\ pc[c] \in {"fetching", "issued"} /\ attempt[c] <= Retries
  /\ pc' = [pc EXCEPT ![c] = "fetching"]
  /\ token' = [token EXCEPT ![c] = NoToken]
  /\ attempt' = [attempt EXCEPT ![c] = @ + 1]
  /\ Fault
  /\ UNCHANGED <<cfg, now, mu, Cache, Server, calls, answer>>

(* Mutant: a fetch that fails returns without the lock. *)
FetchFailsLocked(c) ==
  /\ pc[c] \in {"fetching", "issued"}
  /\ Returns(c, "retryable")
  /\ Fault
  /\ UNCHANGED <<cfg, now, mu, Cache, Server, calls>>

(* A failure status, a response without the field, the end of the context.  *)
FetchFails(c) ==
  /\ pc[c] \in {"fetching", "issued"}
  /\ mu' = Nobody
  /\ Returns(c, "retryable")
  /\ Fault
  /\ UNCHANGED <<cfg, now, Cache, Server, calls>>

(* The token arrives: its lifetime counts from here.                        *)
Receives(c) ==
  /\ pc[c] = "issued"
  /\ receivedAt' = [receivedAt EXCEPT ![token[c]] = now]
  /\ IF resolveTTL > 0
       THEN cached' = token[c] /\ expiresAt' = now + resolveTTL
       ELSE UNCHANGED Cache
  /\ mu' = Nobody
  /\ pc' = [pc EXCEPT ![c] = "sending"]
  /\ attempt' = [attempt EXCEPT ![c] = 1]
  /\ UNCHANGED <<cfg, now, issuedAt, token, calls, answer, faults>>

-----------------------------------------------------------------------------
(* The rest of Publish: every attempt has the same token.                   *)

Valid(t) == now < issuedAt[t] + cfg.lifetime

(* The destination takes the event.                                         *)
Accepted(c) ==
  /\ pc[c] = "sending" /\ Valid(token[c])
  /\ Returns(c, "nil")
  /\ UNCHANGED <<cfg, now, mu, Cache, Server, calls, faults>>

(* 401: permanentStatus.                                                    *)
Refused(c) ==
  /\ pc[c] = "sending" /\ ~Valid(token[c])
  /\ Returns(c, "nonretryable")
  /\ UNCHANGED <<cfg, now, mu, Cache, Server, calls, faults>>

(* A 5xx, a 429, no response, or a status RetryOn asks to repeat.           *)
SendsAgain(c) ==
  /\ pc[c] = "sending" /\ attempt[c] <= Retries
  /\ attempt' = [attempt EXCEPT ![c] = @ + 1]
  /\ Fault
  /\ UNCHANGED <<cfg, now, mu, Cache, Server, pc, token, calls, answer>>

(* The same after the last attempt, or when POST is not retried.            *)
SendFails(c) ==
  /\ pc[c] = "sending"
  /\ Returns(c, "retryable")
  /\ Fault
  /\ UNCHANGED <<cfg, now, mu, Cache, Server, calls>>

Tick ==
  /\ now < MaxTime
  /\ now' = now + 1
  /\ UNCHANGED <<cfg, mu, Cache, Server, pc, token, attempt, calls, answer, faults>>

-----------------------------------------------------------------------------
PublishStep(c) ==
  \/ Locks(c) \/ FindsCached(c) \/ Issues(c) \/ FetchRetries(c) \/ FetchFails(c) \/ Receives(c)
  \/ Accepted(c) \/ Refused(c) \/ SendsAgain(c) \/ SendFails(c)

Next == Tick \/ \E c \in Callers : Publish(c) \/ PublishStep(c)

Spec == Init /\ [][Next]_vars

(* The clients have timeouts, and a mutex that stays free is had.           *)
FairSpec == Spec /\ \A c \in Callers : WF_vars(PublishStep(c))

-----------------------------------------------------------------------------
TypeOK ==
  /\ cfg \in Configs
  /\ now \in 0 .. MaxTime
  /\ mu \in Callers \cup {Nobody}
  /\ cached \in Tokens \cup {NoToken} /\ expiresAt \in Int
  /\ issuedAt \in [Tokens -> Nat \cup {Never}]
  /\ receivedAt \in [Tokens -> Nat \cup {Never}]
  /\ pc \in [Callers -> {"idle", "locking", "fetching", "issued", "sending"}]
  /\ token \in [Callers -> Tokens \cup {NoToken}]
  /\ attempt \in [Callers -> Nat]
  /\ calls \in [Callers -> Nat]
  /\ answer \in [Callers -> {"none", "nil", "retryable", "nonretryable"}]
  /\ faults \in Nat

(* However many callers need a token at once, and whatever fails, the auth  *)
(* server is not asked again before the last token it gave is due: one      *)
(* fetch serves them all (Token, its lock held across fetch).               *)
OneFetchPerTTL ==
  \A t, u \in Tokens : t < u /\ receivedAt[t] # Never /\ issuedAt[u] # Never =>
    issuedAt[u] >= receivedAt[t] + resolveTTL

(* A token served from the cache is one the destination still takes, but    *)
(* for the time its own response needed, which the server's lifetime does   *)
(* not count; durations that wrap only shorten it.  A lifetime of zero is   *)
(* not believed: CacheTTL goes instead (resolveTTL).                        *)
ServedWithinLifetime ==
  Fresh /\ cfg.reported /\ cfg.lifetime > 0 =>
    now < receivedAt[cached] + cfg.lifetime

(* A Publish returns, however many wait for the token, whoever's fetch      *)
(* fails and whether or not the token is cached (Token's deferred unlock).  *)
PublishReturns == \A c \in Callers : pc[c] = "locking" ~> pc[c] = "idle"

-----------------------------------------------------------------------------
(* What the documentation says and the code does not keep.                  *)

(* publisher.go:159: a permanent status "describes the request itself, so   *)
(* retrying the same event cannot succeed".  401 describes a token that     *)
(* expired on the way, or between two attempts; the event is good.          *)
GivenUpCannotSucceed == \A c \in Callers : answer[c] # "nonretryable"

=============================================================================
