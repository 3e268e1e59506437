--------------------------- MODULE HttpTransport ----------------------------
(***************************************************************************)
(* One event published over HTTP (pkg/transport/eventhttp): Publish and the *)
(* retries of its client on one side, Subscriber.Handler and the router on  *)
(* the other, and between them a network that loses requests and responses. *)
(* An attempt that timed out leaves its request behind: the subscriber may  *)
(* be working on several requests for the same event at once.               *)
(*                                                                         *)
(* The router is what EventMux says of it: it acks, nacks or discards with  *)
(* a cause, or returns undecided.  The HTTP client library is external;     *)
(* whether it retries a POST at all is a default newClient does not set.    *)
(***************************************************************************)
EXTENDS Integers

CONSTANTS
  DefaultRetry,   \* the retries of a publisher with RetryConfig.Count = 0
  MaxCount,       \* bound: RetryConfig.Count is at most this
  RuleStatuses,   \* the StatusCodes of a caller's ErrorRules: nobody checks them
  RetryStatuses,  \* statuses a caller's RetryConfig.RetryOn asks to repeat
  MaxFaults       \* bound: messages lost, timeouts too short

ASSUME HttpAssumption ==
  /\ DefaultRetry \in Nat /\ MaxCount \in Nat
  /\ RuleStatuses \subseteq Int /\ RetryStatuses \subseteq Int
  /\ MaxFaults \in Nat

VARIABLES
  cfg,      \* what was configured, and whether the event is acceptable
  serving,  \* Subscriber.handler is set
  pc,       \* what Publish is doing
  attempt,  \* the request it waits for, or got an answer to
  heard,    \* what the client got for each attempt
  request,  \* each request and what the subscriber did with it
  answer,   \* what Publish returned
  faults

vars == <<cfg, serving, pc, attempt, heard, request, answer, faults>>

NoStatus == 0
Error == -1     \* what a client hears when no response comes

MostAttempts == 1 + (IF DefaultRetry > MaxCount THEN DefaultRetry ELSE MaxCount)
Attempts == 1 .. MostAttempts

(* Why the router did not ack: an error a caller's rule matches, one that a *)
(* default rule does, or any other.                                         *)
Causes == {"ruled", "client", "noroute", "decode", "other"}

(* The statuses net/http writes; it panics at any other.                    *)
Writable == 100 .. 999

(* What extractCloudEvent thinks of the event, by the status it answers.    *)
Verdicts == {NoStatus, 400, 413, 415}

Configs == [count : 0 .. MaxCount, negative : BOOLEAN, retriesPosts : BOOLEAN, verdict : Verdicts,
            retryOn : {{}, RetryStatuses}]

Outcomes == {"pending", "acked", "nacked", "discarded"}

Request ==
  [pc : {"none", "sent", "routing", "decided", "answered", "over", "lost"},
   outcome : Outcomes, cause : Causes, status : {NoStatus} \cup Writable]

NoRequest == [pc |-> "none", outcome |-> "pending", cause |-> "other", status |-> NoStatus]

Init ==
  /\ cfg \in Configs
  /\ serving \in BOOLEAN
  /\ pc = "preparing"
  /\ attempt = 0
  /\ heard = [a \in Attempts |-> NoStatus]
  /\ request = [a \in Attempts |-> NoRequest]
  /\ answer = "none"
  /\ faults = 0

Fault == faults < MaxFaults /\ faults' = faults + 1

Publisher == <<pc, attempt, heard, answer>>

-----------------------------------------------------------------------------
(* Publisher.Publish                                                        *)

Return(result) == pc' = "returned" /\ answer' = result

(* The event cannot be encoded, or there is no token; or the context ends   *)
(* between two attempts.                                                    *)
PreparationFails ==
  /\ pc = "preparing"
  /\ Return("retryable")
  /\ UNCHANGED <<cfg, serving, attempt, heard, request, faults>>

(* The request of the next attempt leaves.                                  *)
Send ==
  /\ pc = "preparing"
  /\ attempt' = attempt + 1
  /\ request' = [request EXCEPT ![attempt + 1].pc = "sent"]
  /\ pc' = "waiting"
  /\ UNCHANGED <<cfg, serving, heard, answer, faults>>

(* Mutant: anything but 200 is tried again. *)
RetryUnlessOk(status) == status # 200

defaultRetryCondition(status) == status = Error \/ status = 429 \/ status >= 500

(* A negative RetryConfig.Count disables retries.                           *)
RetryCount ==
  IF cfg.negative THEN 0 ELSE IF cfg.count = 0 THEN DefaultRetry ELSE cfg.count

Limit == IF cfg.retriesPosts THEN RetryCount ELSE 0

(* RetryConfig.RetryOn adds to the default condition.                       *)
Repeats(status) == defaultRetryCondition(status) \/ status \in cfg.retryOn

(* Mutant: every failure status is permanent. *)
AnyFailureIsPermanent(status) == status >= 400

permanentStatus(status) == status \in 400 .. 499 \ {408, 429}

(* The attempt got a response, or an error: another one, or Publish returns. *)
Hears(status) ==
  /\ pc = "waiting"
  /\ heard' = [heard EXCEPT ![attempt] = status]
  /\ IF Repeats(status) /\ attempt <= Limit
       THEN pc' = "preparing" /\ UNCHANGED answer
       ELSE Return(CASE status = Error -> "retryable"
                     [] permanentStatus(status) -> "nonretryable"
                     [] status >= 400 /\ ~permanentStatus(status) -> "retryable"
                     [] OTHER -> "nil")
  /\ UNCHANGED <<cfg, serving, attempt>>

HearsResponse ==
  /\ pc = "waiting" /\ request[attempt].pc = "answered"
  /\ Hears(request[attempt].status)
  /\ request' = [request EXCEPT ![attempt].pc = "over"]
  /\ UNCHANGED faults

(* The client's timeout, or the end of the context.  It takes a fault while *)
(* the answer is still to come.                                             *)
AttemptTimesOut ==
  /\ pc = "waiting"
  /\ Hears(Error)
  /\ IF request[attempt].pc = "lost" THEN UNCHANGED faults ELSE Fault
  /\ UNCHANGED request

-----------------------------------------------------------------------------
(* Subscriber.Handler, once per request.                                    *)

Responds(a, status) ==
  request' = [request EXCEPT ![a].pc = "answered", ![a].status = status]

(* No handler: before Start, or after Stop.                                 *)
Unavailable(a) ==
  /\ request[a].pc = "sent"
  /\ ~serving
  /\ Responds(a, 503)
  /\ UNCHANGED <<cfg, serving, Publisher, faults>>

(* extractCloudEvent refuses it before the router runs.                     *)
Rejects(a) ==
  /\ request[a].pc = "sent"
  /\ serving /\ cfg.verdict # NoStatus
  /\ Responds(a, cfg.verdict)
  /\ UNCHANGED <<cfg, serving, Publisher, faults>>

Accepts(a) ==
  /\ request[a].pc = "sent"
  /\ serving /\ cfg.verdict = NoStatus
  /\ request' = [request EXCEPT ![a].pc = "routing"]
  /\ UNCHANGED <<cfg, serving, Publisher, faults>>

(* Only a handler's error is nacked: never a missing route or a payload     *)
(* that does not decode.                                                    *)
RouterDecides(a, outcome, cause) ==
  /\ request[a].pc = "routing"
  /\ outcome = "nacked" => cause \in {"ruled", "client", "other"}
  /\ outcome \in {"pending", "acked"} => cause = "other"
  /\ cause = "ruled" => RuleStatuses # {}
  /\ request' = [request EXCEPT ![a].pc = "decided", ![a].outcome = outcome, ![a].cause = cause]
  /\ UNCHANGED <<cfg, serving, Publisher, faults>>

(* Response.JSON: an unset status is 202, and the body that follows an      *)
(* informational one makes it 200 (net/http).                               *)
Written(status) ==
  CASE status = NoStatus -> 202
    [] status \in 100 .. 199 \ {101} -> 200
    [] OTHER -> status

(* Mutant: an undecided message is answered like an accepted one. *)
StatusesUnlessRefused(outcome, cause) ==
  CASE outcome \in {"acked", "pending"} -> {202}
    [] outcome \in {"nacked", "discarded"} /\ cause = "ruled" ->
         {Written(s) : s \in RuleStatuses} \cup {500}
    [] outcome \in {"nacked", "discarded"} /\ cause = "client" -> {400, 500}
    [] outcome \in {"nacked", "discarded"} /\ cause \in {"noroute", "decode"} -> {400}
    [] OTHER -> {500}

(* The caller's rules come before the default ones; a detail that does not  *)
(* encode (a rule's, or a ClientError's own) turns the answer into a 500.   *)
Statuses(outcome, cause) ==
  CASE outcome = "acked" -> {202}
    [] outcome \in {"nacked", "discarded"} /\ cause = "ruled" ->
         {Written(s) : s \in RuleStatuses} \cup {500}
    [] outcome \in {"nacked", "discarded"} /\ cause = "client" -> {400, 500}
    [] outcome \in {"nacked", "discarded"} /\ cause \in {"noroute", "decode"} -> {400}
    [] OTHER -> {500}

(* Without a status it can write the server drops the connection.           *)
Answers(a) ==
  /\ request[a].pc = "decided"
  /\ \E status \in Statuses(request[a].outcome, request[a].cause) :
       IF status \in Writable
         THEN Responds(a, status)
         ELSE request' = [request EXCEPT ![a].pc = "lost"]
  /\ UNCHANGED <<cfg, serving, Publisher, faults>>

(* Start and Stop                                                           *)
Serve ==
  /\ serving' = ~serving
  /\ Fault
  /\ UNCHANGED <<cfg, Publisher, request>>

-----------------------------------------------------------------------------
(* The network and the process lose a request, or its response.             *)
Loses(a) ==
  /\ request[a].pc \notin {"none", "over", "lost"}
  /\ request' = [request EXCEPT ![a].pc = "lost"]
  /\ Fault
  /\ UNCHANGED <<cfg, serving, Publisher>>

PublishStep == PreparationFails \/ Send \/ HearsResponse \/ AttemptTimesOut

SubscriberStep(a) ==
  \/ Unavailable(a) \/ Rejects(a) \/ Accepts(a)
  \/ \E outcome \in Outcomes, cause \in Causes : RouterDecides(a, outcome, cause)
  \/ Answers(a)

Next ==
  \/ PublishStep
  \/ \E a \in Attempts : SubscriberStep(a) \/ Loses(a)
  \/ Serve

Spec == Init /\ [][Next]_vars

-----------------------------------------------------------------------------
TypeOK ==
  /\ cfg \in Configs /\ serving \in BOOLEAN
  /\ pc \in {"preparing", "waiting", "returned"}
  /\ attempt \in 0 .. MostAttempts
  /\ heard \in [Attempts -> {Error, NoStatus} \cup Writable]
  /\ request \in [Attempts -> Request]
  /\ answer \in {"none", "nil", "retryable", "nonretryable"}
  /\ faults \in 0 .. MaxFaults

(* Publish succeeds only on the answer to an event the router acked, so     *)
(* that with the mux's default order the handler has run and its result is  *)
(* out, or turned down for an error that a caller's rule answers with       *)
(* success: never on one that was rejected, left undecided, met a stopped   *)
(* subscriber or fell under the default rules (Publish, Handler, Respond).  *)
SuccessWasAcked ==
  answer = "nil" =>
    LET q == request[attempt] IN
    /\ heard[attempt] = q.status
    /\ \/ q.outcome = "acked"
       \/ /\ q.outcome \in {"nacked", "discarded"} /\ q.cause = "ruled"
          /\ q.status \in {Written(s) : s \in RuleStatuses}

(* Publish calls an event non-retryable, so that the mux that publishes it  *)
(* gives up, only when the subscriber turned the event itself down in the   *)
(* last attempt: never because it was stopped, because a request was lost   *)
(* or because it returned undecided (permanentStatus, Handler).             *)
GivenUpWasRefused ==
  answer = "nonretryable" =>
    /\ heard[attempt] = request[attempt].status
    /\ \/ cfg.verdict # NoStatus
       \/ request[attempt].outcome \in {"nacked", "discarded"}

(* An event the router acked is sent again only after its answer was lost   *)
(* or late, or when the caller's own RetryOn asks to repeat that answer:    *)
(* the default condition never repeats a success (defaultRetryCondition,    *)
(* newClient).                                                              *)
RepeatedOnlyUnheard ==
  \A a \in 1 .. attempt - 1 :
    request[a].outcome = "acked" => heard[a] = Error \/ heard[a] \in cfg.retryOn

=============================================================================
