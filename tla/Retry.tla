------------------------------- MODULE Retry --------------------------------
(***************************************************************************)
(* The retry middleware (pkg/middleware/retry/retry.go) around a handler,   *)
(* over the successive deliveries of one message: the attempts of one       *)
(* delivery, the delay between two of them, and what SkipOnRedelivery does  *)
(* when the broker retries too.                                             *)
(*                                                                         *)
(* Durations are signed integers of Width bits (64 in the code); their      *)
(* arithmetic wraps.  The handler, the timer, the context and the broker    *)
(* are external.                                                            *)
(***************************************************************************)
EXTENDS Integers

CONSTANTS
  Width,          \* bits of a time.Duration
  MaxRetries,     \* bound: maxRetries of the middleware is at most this
  MaxDeliveries   \* bound: deliveries of the message

ASSUME RetryAssumption ==
  Width \in Nat \ {0, 1} /\ MaxRetries \in Nat /\ MaxDeliveries \in Nat \ {0}

VARIABLES
  cfg,       \* the middleware: base, maxDelay, retries, skipOnRedelivery;
             \* and whether the transport reports a delivery count
  delivery,  \* deliveries so far
  pc,        \* what run is doing
  attempt,   \* attempt of run
  delay,     \* the delay it waits for
  ended,     \* the context of the delivery has ended
  result,    \* what the last call of the handler, then run, returned
  calls      \* history: calls of the handler, over every delivery

vars == <<cfg, delivery, pc, attempt, delay, ended, result, calls>>

-----------------------------------------------------------------------------
(* time.Duration                                                            *)

MaxDuration == 2 ^ (Width - 1) - 1

(* A signed integer of Width bits.                                          *)
Wrap(d) == ((d + 2 ^ (Width - 1)) % 2 ^ Width) - 2 ^ (Width - 1)

(* Mutant: the cap is applied once the shift has wrapped. *)
DelayForShiftedFirst(base, maxDelay, k) ==
  LET shifted == Wrap(base * 2 ^ k) IN IF shifted > maxDelay THEN maxDelay ELSE shifted

delayFor(base, maxDelay, k) ==
  IF k >= Width - 2 \/ base > maxDelay \div 2 ^ k THEN maxDelay
  ELSE Wrap(base * 2 ^ k)

(* Whatever rand.Float64 draws, below one fifth of the delay, up to room.   *)
jittered(d, maxDelay) ==
  {Wrap(d + jitter) :
     jitter \in {IF j > maxDelay - d THEN maxDelay - d ELSE j : j \in 0 .. d \div 5}}

-----------------------------------------------------------------------------
(* Backoff panics on any other configuration.                               *)
Configs ==
  {c \in [base : 1 .. MaxDuration, maxDelay : 1 .. MaxDuration,
          retries : 0 .. MaxRetries, skip : BOOLEAN, counted : BOOLEAN] :
     c.base <= c.maxDelay}

Init ==
  /\ cfg \in Configs
  /\ delivery = 1
  /\ pc = "calling"
  /\ attempt = 0 /\ delay = 0
  /\ ended = FALSE
  /\ result = "none"
  /\ calls = 0

(* Mutant: every delivery is retried. *)
RetriesAlways == cfg.retries

Retries ==
  IF cfg.skip /\ cfg.counted /\ delivery > 1 THEN 0 ELSE cfg.retries

(* The handler returns, and so does run.                                    *)
HandlerSucceeds ==
  /\ pc = "calling"
  /\ calls' = calls + 1
  /\ result' = "nil" /\ pc' = "returned"
  /\ UNCHANGED <<cfg, delivery, attempt, delay, ended>>

HandlerFails(failure) ==
  /\ pc = "calling"
  /\ calls' = calls + 1
  /\ result' = failure
  /\ IF attempt = Retries \/ failure = "nonretryable"
       THEN pc' = "returned" /\ UNCHANGED delay
       ELSE pc' = "waiting" /\ delay' \in jittered(delayFor(cfg.base, cfg.maxDelay, attempt), cfg.maxDelay)
  /\ UNCHANGED <<cfg, delivery, attempt, ended>>

(* The select of wait takes either branch when both are ready.              *)
DelayPasses ==
  /\ pc = "waiting"
  /\ attempt' = attempt + 1
  /\ pc' = "calling"
  /\ UNCHANGED <<cfg, delivery, delay, ended, result, calls>>

WaitIsCancelled ==
  /\ pc = "waiting"
  /\ ended
  /\ result' = "ctx" /\ pc' = "returned"
  /\ UNCHANGED <<cfg, delivery, attempt, delay, ended, calls>>

ContextEnds ==
  /\ pc # "returned" /\ ~ended
  /\ ended' = TRUE
  /\ UNCHANGED <<cfg, delivery, pc, attempt, delay, result, calls>>

(* The mux nacked a retryable failure and the broker redelivers; or the     *)
(* decision was lost.                                                       *)
Redelivered ==
  /\ pc = "returned"
  /\ delivery < MaxDeliveries
  /\ delivery' = delivery + 1
  /\ pc' = "calling"
  /\ attempt' = 0 /\ delay' = 0 /\ ended' = FALSE /\ result' = "none"
  /\ UNCHANGED <<cfg, calls>>

Run ==
  \/ HandlerSucceeds
  \/ \E failure \in {"retryable", "nonretryable"} : HandlerFails(failure)
  \/ DelayPasses \/ WaitIsCancelled

Next == Run \/ ContextEnds \/ Redelivered

Spec == Init /\ [][Next]_vars

-----------------------------------------------------------------------------
(* What the delay before retry k is meant to be, in unbounded integers.     *)
Exponential(k) ==
  LET d == cfg.base * 2 ^ k IN IF d > cfg.maxDelay THEN cfg.maxDelay ELSE d

TypeOK ==
  /\ cfg \in Configs
  /\ delivery \in 1 .. MaxDeliveries
  /\ pc \in {"calling", "waiting", "returned"}
  /\ attempt \in 0 .. cfg.retries
  /\ delay \in 0 .. cfg.maxDelay
  /\ ended \in BOOLEAN
  /\ result \in {"none", "nil", "retryable", "nonretryable", "ctx"}
  /\ calls \in Nat

(* A wait lasts base doubled at every attempt, capped at maxDelay and with  *)
(* at most a fifth more, whatever the arithmetic of the delays overflows;   *)
(* attempts past the width of a Duration wait for maxDelay (delayFor,       *)
(* jittered).                                                               *)
DelayIsExponential ==
  pc = "waiting" =>
    IF attempt >= Width - 2 THEN delay = cfg.maxDelay
    ELSE delay \in Exponential(attempt) .. Exponential(attempt) + Exponential(attempt) \div 5

(* With SkipOnRedelivery and a delivery count, the retries of the process   *)
(* add to those of the broker; otherwise they multiply (SkipOnRedelivery).  *)
RetriesDoNotMultiply ==
  calls <= IF cfg.skip /\ cfg.counted THEN cfg.retries + delivery
           ELSE (cfg.retries + 1) * delivery

=============================================================================
