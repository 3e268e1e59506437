------------------------------ MODULE EventMux ------------------------------
(***************************************************************************)
(* The path of one message through the mux (pkg/eventmux): Mux.handle and  *)
(* everything it calls, up to the decision (Ack, Nack or Discard) the      *)
(* broker is told, the report to the Observer and the return to the        *)
(* transport.  The broker SDK runs one goroutine per delivery: here a set  *)
(* of Workers, which may hold two deliveries of the same message at once.  *)
(*                                                                         *)
(* Every call out of the mux (filter, decoder, preflight, handler, result  *)
(* publisher, dead-letter publisher, Delivery callback) is a step that may *)
(* succeed, fail or panic.  The broker is external: it holds a message     *)
(* until an Ack or a Discard reaches it, and redelivers it otherwise.      *)
(***************************************************************************)
EXTENDS Naturals

CONSTANTS
  Msgs,           \* the messages in the broker
  Workers,        \* the goroutines the broker SDK runs handlers on
  NoMsg,          \* the message of an idle worker
  MaxRetries,     \* bound: Config.MaxRetries is at most this
  MaxDeliveries,  \* bound: deliveries of one message
  MaxFaults       \* bound: crashes, early redeliveries, lost or panicking calls

ASSUME ConstantsAssumption ==
  /\ NoMsg \notin Msgs
  /\ MaxRetries \in Nat
  /\ MaxDeliveries \in Nat
  /\ MaxFaults \in Nat

VARIABLES
  cfg,         \* Mux.cfg, whether the route publishes, and the transport
  held,        \* messages the broker still holds
  visible,     \* messages the broker may deliver now
  deliveries,  \* deliveries of each message so far
  job,         \* what each worker is doing
  faults       \* faults so far

vars == <<cfg, held, visible, deliveries, job, faults>>

-----------------------------------------------------------------------------
(* What a Delivery can do: core NATS has no Nack and keeps nothing, every   *)
(* other transport redelivers, and some of those report a delivery count.   *)
Transports == {"core", "uncounted", "counted"}

Configs == [maxRetries : 0 .. MaxRetries, deadLetter : BOOLEAN,
            publishAfterAck : BOOLEAN, publishes : BOOLEAN,
            transport : Transports]

Outcomes == {"pending", "acked", "nacked", "discarded"}

NoReason == ""

Reasons == {NoReason, "decode", "validation", "panic", "nonretryable",
            "noredelivery", "maxretries", "publish"}

(* Where a worker stands, named for the call it makes next.                 *)
Places == {"idle", "handling", "decoding", "invoking", "publishing", "copying",
           "settling", "observing", "afterAck", "recovering", "returned"}

Jobs == [pc : Places, msg : Msgs \cup {NoMsg}, count : Nat,
         ctx : {"live", "cancelled"},      \* the per-message context
         outcome : Outcomes,               \* Message.outcome
         plan : Outcomes,                  \* the decision settle will apply
         reason : Reasons,                 \* the dead-letter reason of the failure
         data : BOOLEAN,                   \* the handler returned data to publish
         rescued : BOOLEAN,                \* inside recoverOutsideHandler's fail
         \* History, read by the properties only:
         handled : BOOLEAN,                \* the handler returned without an error
         sent : BOOLEAN,                   \* the result was published
         copy : {"none", "out", "failed", "refused", "panicked"},
         callback : {"none", "called", "panicked"},
         reports : Nat,                    \* calls of Observer.OnMessage
         reported : Outcomes,              \* the outcome the last of them carried
         broken : BOOLEAN]                 \* a publisher failed of itself

Idle == [pc |-> "idle", msg |-> NoMsg, count |-> 0, ctx |-> "live",
         outcome |-> "pending", plan |-> "pending", reason |-> NoReason,
         data |-> FALSE, rescued |-> FALSE, handled |-> FALSE, sent |-> FALSE,
         copy |-> "none", callback |-> "none", reports |-> 0,
         reported |-> "pending", broken |-> FALSE]

Init ==
  /\ cfg \in Configs
  /\ held = Msgs
  /\ visible = Msgs
  /\ deliveries = [m \in Msgs |-> 0]
  /\ job = [w \in Workers |-> Idle]
  /\ faults = 0

Update(w, j) == job' = [job EXCEPT ![w] = j]

UnchangedBroker == UNCHANGED <<cfg, held, visible, deliveries>>

(* A failure of the environment, out of a finite supply.                    *)
Fault == faults < MaxFaults /\ faults' = faults + 1

-----------------------------------------------------------------------------
(* The failure policy: pkg/eventmux/failure.go.                             *)

CanNack == cfg.transport # "core"

CountKnown(j) == j.count > 0

(* Mutant: the limit is one delivery late. *)
PastMaxRetriesByTwo(j) ==
  cfg.maxRetries > 0 /\ CountKnown(j) /\ j.count > cfg.maxRetries + 1

PastMaxRetries(j) ==
  cfg.maxRetries > 0 /\ CountKnown(j) /\ j.count > cfg.maxRetries

(* Mutant: the last redelivery does not count as bounded. *)
RedeliveryBoundedBelow(j) ==
  CanNack /\ cfg.maxRetries > 0 /\ CountKnown(j) /\ j.count < cfg.maxRetries

RedeliveryBounded(j) ==
  CanNack /\ cfg.maxRetries > 0 /\ CountKnown(j) /\ ~PastMaxRetries(j)

Failures == {"panic", "preflight", "nonretryable", "retryable"}

(* Mutant: the transport is not asked whether it can redeliver. *)
ClassifyForAnyTransport(j, failure) ==
  CASE failure = "panic" -> "panic"
    [] failure = "preflight" -> "validation"
    [] failure = "nonretryable" -> "nonretryable"
    [] failure = "retryable" /\ PastMaxRetries(j) -> "maxretries"
    [] OTHER -> NoReason

(* Mutant: the delivery count is not looked at. *)
ClassifyUnlimited(j, failure) ==
  CASE failure = "panic" -> "panic"
    [] failure = "preflight" -> "validation"
    [] failure = "nonretryable" -> "nonretryable"
    [] failure = "retryable" /\ ~CanNack -> "noredelivery"
    [] OTHER -> NoReason

Classify(j, failure) ==
  CASE failure = "panic" -> "panic"
    [] failure = "preflight" -> "validation"
    [] failure = "nonretryable" -> "nonretryable"
    [] failure = "retryable" /\ ~CanNack -> "noredelivery"
    [] failure = "retryable" /\ CanNack /\ PastMaxRetries(j) -> "maxretries"
    [] OTHER -> NoReason

ClassifyPublish(j, failure) ==
  IF failure = "nonretryable" \/ ~CanNack \/ PastMaxRetries(j)
    THEN "publish" ELSE NoReason

(* settle is about to apply outcome o, reported with reason r.              *)
Settling(j, o, r) == [j EXCEPT !.pc = "settling", !.plan = o, !.reason = r]

Fail(j, r) ==
  IF r = NoReason THEN Settling(j, "nacked", NoReason)
  ELSE IF cfg.deadLetter THEN [j EXCEPT !.pc = "copying", !.reason = r]
  ELSE Settling(j, "discarded", r)

(* Mutant: the recovered panic is not settled. *)
PanickedSwallowed(j) == [j EXCEPT !.pc = "returned"]

(* A panic unwinds to handle's deferred recover, or to the one inside it.   *)
Panicked(j) == [j EXCEPT !.pc = IF j.rescued THEN "returned" ELSE "recovering"]

(* context.WithoutCancel: the values of a context, without its end.         *)
WithoutCancel(ctx) == "live"

(* The contexts the three publishes run with: the result's is the message's *)
(* own, the other two are detached from it.                                 *)
ResultContext(j) == j.ctx
(* Mutant: the late publish inherits the context the Ack cancelled. *)
LateContextInherited(j) == j.ctx

LateContext(j) == WithoutCancel(j.ctx)
CopyContext(j) == WithoutCancel(j.ctx)

(* A publish that failed: the publisher did of itself, or gave up because   *)
(* the context it was given had ended.                                      *)
Broken(j) == [j EXCEPT !.broken = TRUE]

Unpublished(j, ctx) == {Broken(j)} \cup (IF ctx = "cancelled" THEN {j} ELSE {})

-----------------------------------------------------------------------------
(* Mux.handle                                                               *)

At(w, place) == job[w].pc = place /\ UnchangedBroker

(* The transport could not decode the envelope.                             *)
Undecodable(w) ==
  /\ At(w, "handling")
  /\ Update(w, Fail(job[w], "decode"))
  /\ UNCHANGED faults

NoRouteFound(w) ==
  /\ At(w, "handling")
  /\ Update(w, Settling(job[w], "discarded", NoReason))
  /\ UNCHANGED faults

RouteMatches(w) ==
  /\ At(w, "handling")
  /\ Update(w, [job[w] EXCEPT !.pc = "decoding"])
  /\ UNCHANGED faults

(* Filter.Match or the route's decoder panics.                              *)
PanicsOutsideHandler(w) ==
  /\ At(w, "handling") \/ At(w, "decoding")
  /\ Update(w, Panicked(job[w]))
  /\ UNCHANGED faults

PayloadDecodes(w) ==
  /\ At(w, "decoding")
  /\ Update(w, [job[w] EXCEPT !.pc = "invoking"])
  /\ UNCHANGED faults

PayloadFails(w) ==
  /\ At(w, "decoding")
  /\ Update(w, Fail(job[w], "decode"))
  /\ UNCHANGED faults

(* Mutant: the Ack always comes first. *)
HandlerReturnsAckFirst(w, hasData) ==
  /\ At(w, "invoking")
  /\ Update(w, Settling([job[w] EXCEPT !.handled = TRUE, !.data = hasData], "acked", NoReason))
  /\ UNCHANGED faults

(* Preflight and handler succeed, with data to publish or without.          *)
HandlerReturns(w, hasData) ==
  LET j == [job[w] EXCEPT !.handled = TRUE, !.data = hasData]
  IN  /\ At(w, "invoking")
      /\ Update(w, IF ~cfg.publishAfterAck /\ cfg.publishes /\ hasData
                     THEN [j EXCEPT !.pc = "publishing"]
                     ELSE Settling(j, "acked", NoReason))
      /\ UNCHANGED faults

HandlerFails(w, failure) ==
  /\ At(w, "invoking")
  /\ Update(w, Fail(job[w], Classify(job[w], failure)))
  /\ UNCHANGED faults

(* The result, in the default order: before the Ack.                        *)
ResultPublished(w) ==
  /\ At(w, "publishing")
  /\ Update(w, Settling([job[w] EXCEPT !.sent = TRUE], "acked", NoReason))
  /\ UNCHANGED faults

ResultFails(w, failure) ==
  /\ At(w, "publishing")
  /\ \E j \in Unpublished(job[w], ResultContext(job[w])) :
       Update(w, Fail(j, ClassifyPublish(j, failure)))
  /\ UNCHANGED faults

ResultPanics(w) ==
  /\ At(w, "publishing")
  /\ Update(w, Panicked(Broken(job[w])))
  /\ UNCHANGED faults

(* fail's dead-letter copy.                                                 *)
CopyPublished(w) ==
  /\ At(w, "copying")
  /\ Update(w, Settling([job[w] EXCEPT !.copy = "out"], "discarded", job[w].reason))
  /\ UNCHANGED faults

CopyFails(w) ==
  /\ At(w, "copying")
  /\ \E j \in Unpublished([job[w] EXCEPT !.copy = "failed"], CopyContext(job[w])) :
       Update(w, IF RedeliveryBounded(j)
                   THEN Settling(j, "nacked", NoReason)
                   ELSE Settling(j, "discarded", j.reason))
  /\ UNCHANGED faults

CopyRefused(w) ==
  /\ At(w, "copying")
  /\ \E j \in Unpublished([job[w] EXCEPT !.copy = "refused"], CopyContext(job[w])) :
       Update(w, Settling(j, "discarded", j.reason))
  /\ UNCHANGED faults

CopyPanics(w) ==
  /\ At(w, "copying")
  /\ Update(w, Panicked(Broken([job[w] EXCEPT !.copy = "panicked"])))
  /\ Fault

-----------------------------------------------------------------------------
(* Mux.settle and Message.decide.                                           *)

(* sync.Once: the first decision is recorded and told, later ones are not.  *)
Decide(j) == IF j.outcome = "pending" THEN [j EXCEPT !.outcome = j.plan] ELSE j

(* What the broker does when the decision of j reaches it.                  *)
BrokerApplies(j) ==
  LET kept == IF j.outcome = "pending" /\ j.plan \in {"acked", "discarded"}
                THEN held \ {j.msg} ELSE held
      nacked == IF j.outcome = "pending" /\ j.plan = "nacked"
                THEN {j.msg} ELSE {}
  IN  /\ held' = kept
      /\ visible' = (visible \cup nacked) \cap kept

(* The callback returns nil, or there is none.                              *)
Settle(w) ==
  /\ job[w].pc = "settling"
  /\ BrokerApplies(job[w])
  /\ Update(w, [Decide(job[w]) EXCEPT !.pc = "observing", !.ctx = "cancelled",
                  !.callback = IF cfg.transport = "core" THEN "none" ELSE "called"])
  /\ UNCHANGED <<cfg, deliveries, faults>>

(* Mutant: a refused decision is not reported. *)
SettleFailsUnreported(w) ==
  /\ job[w].pc = "settling"
  /\ cfg.transport # "core"
  /\ BrokerApplies(job[w]) \/ UNCHANGED <<held, visible>>
  /\ Update(w, [Decide(job[w]) EXCEPT !.pc = "returned", !.ctx = "cancelled",
                  !.callback = "called"])
  /\ Fault
  /\ UNCHANGED <<cfg, deliveries>>

(* It returns an error (logged): the broker may have applied it all the same. *)
SettleFails(w) ==
  /\ job[w].pc = "settling"
  /\ cfg.transport # "core"
  /\ BrokerApplies(job[w]) \/ UNCHANGED <<held, visible>>
  /\ Update(w, [Decide(job[w]) EXCEPT !.pc = "observing", !.ctx = "cancelled",
                  !.callback = "called"])
  /\ Fault
  /\ UNCHANGED <<cfg, deliveries>>

(* It panics: decide has recorded the outcome, and unwinds before cancel(). *)
SettlePanics(w) ==
  /\ job[w].pc = "settling"
  /\ cfg.transport # "core"
  /\ BrokerApplies(job[w]) \/ UNCHANGED <<held, visible>>
  /\ Update(w, Panicked([Decide(job[w]) EXCEPT !.callback = "panicked"]))
  /\ Fault
  /\ UNCHANGED <<cfg, deliveries>>

(* Where processAndHandle goes on, and fail does not, after settle.         *)
AfterReport(j) ==
  IF j.plan = "acked" /\ cfg.publishAfterAck /\ cfg.publishes /\ j.data
    THEN "afterAck" ELSE "returned"

(* Observer.OnMessage; observe contains its panics.                         *)
Observe(w) ==
  /\ At(w, "observing")
  /\ Update(w, [job[w] EXCEPT !.reports = @ + 1, !.reported = job[w].plan,
                  !.pc = AfterReport(job[w])])
  /\ UNCHANGED faults

(* The result, with Config.PublishAfterAck: a failure is only logged.       *)
LateResultPublished(w) ==
  /\ At(w, "afterAck")
  /\ Update(w, [job[w] EXCEPT !.pc = "returned", !.sent = TRUE])
  /\ UNCHANGED faults

LateResultFails(w) ==
  /\ At(w, "afterAck")
  /\ \E j \in Unpublished(job[w], LateContext(job[w])) :
       Update(w, [j EXCEPT !.pc = "returned"])
  /\ UNCHANGED faults

LateResultPanics(w) ==
  /\ At(w, "afterAck")
  /\ Update(w, Panicked(Broken(job[w])))
  /\ UNCHANGED faults

(* recoverOutsideHandler: after the decision the panic is only logged.      *)
RecoverDecided(w) ==
  /\ At(w, "recovering")
  /\ job[w].outcome # "pending"
  /\ Update(w, [job[w] EXCEPT !.pc = "returned"])
  /\ UNCHANGED faults

(* Mutant: Message.Outcome is not looked at. *)
RecoverAnyway(w) ==
  /\ At(w, "recovering")
  /\ Update(w, Fail([job[w] EXCEPT !.rescued = TRUE], "panic"))
  /\ UNCHANGED faults

RecoverUndecided(w) ==
  /\ At(w, "recovering")
  /\ job[w].outcome = "pending"
  /\ Update(w, Fail([job[w] EXCEPT !.rescued = TRUE], "panic"))
  /\ UNCHANGED faults

TransportReturns(w) ==
  /\ At(w, "returned")
  /\ Update(w, Idle)
  /\ UNCHANGED faults

-----------------------------------------------------------------------------
(* The broker and the process (external).                                   *)

InFlight(m) == \E w \in Workers : job[w].msg = m

(* Core NATS forgets a message as it delivers it.                           *)
Deliver(w, m) ==
  /\ job[w].pc = "idle"
  /\ m \in visible
  /\ deliveries[m] < MaxDeliveries
  /\ deliveries' = [deliveries EXCEPT ![m] = @ + 1]
  /\ visible' = visible \ {m}
  /\ held' = IF CanNack THEN held ELSE held \ {m}
  /\ Update(w, [Idle EXCEPT !.pc = "handling", !.msg = m,
                  !.count = IF cfg.transport = "counted" THEN deliveries[m] + 1 ELSE 0])
  /\ UNCHANGED <<cfg, faults>>

(* An undecided or unconfirmed message comes back: visibility timeout,      *)
(* AckWait, ack deadline.                                                   *)
Redeliver(m) ==
  /\ m \in held \ visible
  /\ ~InFlight(m)
  /\ visible' = visible \cup {m}
  /\ UNCHANGED <<cfg, held, deliveries, job, faults>>

(* The timeout is shorter than the handler: two deliveries overlap.         *)
RedeliverEarly(m) ==
  /\ m \in held \ visible
  /\ InFlight(m)
  /\ visible' = visible \cup {m}
  /\ Fault
  /\ UNCHANGED <<cfg, held, deliveries, job>>

(* The parent context ends: an HTTP client gone, a drain deadline reached.  *)
CancelContext(w) ==
  /\ job[w].pc # "idle"
  /\ job[w].outcome = "pending"
  /\ job[w].ctx = "live"
  /\ Update(w, [job[w] EXCEPT !.ctx = "cancelled"])
  /\ UnchangedBroker
  /\ UNCHANGED faults

Crash ==
  /\ \E w \in Workers : job[w].pc # "idle"
  /\ job' = [w \in Workers |-> Idle]
  /\ UnchangedBroker
  /\ Fault

-----------------------------------------------------------------------------
HandleStep(w) ==
  \/ Undecodable(w) \/ NoRouteFound(w) \/ RouteMatches(w) \/ PanicsOutsideHandler(w)
  \/ PayloadDecodes(w) \/ PayloadFails(w)
  \/ \E hasData \in BOOLEAN : HandlerReturns(w, hasData)
  \/ \E failure \in Failures : HandlerFails(w, failure)
  \/ ResultPublished(w) \/ ResultPanics(w)
  \/ \E failure \in {"nonretryable", "retryable"} : ResultFails(w, failure)
  \/ CopyPublished(w) \/ CopyFails(w) \/ CopyRefused(w) \/ CopyPanics(w)

SettleStep(w) ==
  \/ Settle(w) \/ SettleFails(w) \/ SettlePanics(w)
  \/ Observe(w)
  \/ LateResultPublished(w) \/ LateResultFails(w) \/ LateResultPanics(w)
  \/ RecoverDecided(w) \/ RecoverUndecided(w)
  \/ TransportReturns(w)

Work(w) == HandleStep(w) \/ SettleStep(w)

Next ==
  \/ \E w \in Workers : Work(w) \/ CancelContext(w)
  \/ \E w \in Workers, m \in Msgs : Deliver(w, m)
  \/ \E m \in Msgs : Redeliver(m) \/ RedeliverEarly(m)
  \/ Crash

Spec == Init /\ [][Next]_vars

(* Goroutines run and the broker keeps redelivering what it holds; nothing  *)
(* makes it cancel, redeliver early, fail or crash.                         *)
Fairness ==
  /\ \A w \in Workers : WF_vars(Work(w))
  /\ \A m \in Msgs : WF_vars(Redeliver(m)) /\ WF_vars(\E w \in Workers : Deliver(w, m))

FairSpec == Spec /\ Fairness

-----------------------------------------------------------------------------
TypeOK ==
  /\ cfg \in Configs
  /\ held \subseteq Msgs
  /\ visible \subseteq held
  /\ deliveries \in [Msgs -> Nat]
  /\ job \in [Workers -> Jobs]
  /\ faults \in 0 .. MaxFaults

-----------------------------------------------------------------------------
(* The history fields of a job outlive its decision until TransportReturns, *)
(* so each property below speaks of everything one delivery went through.   *)

(* Once the broker has been told, no dead-letter copy goes out and no       *)
(* second decision is attempted, whatever panics: recoverOutsideHandler     *)
(* looks at Message.Outcome before it calls fail.                           *)
DecidedOnce ==
  \A w \in Workers :
    job[w].pc \in {"handling", "decoding", "invoking", "publishing", "copying", "settling"}
      => job[w].outcome = "pending"

(* In the default order an Ack is never told before the result is out, on   *)
(* every path through publishResult and its failures (processAndHandle).    *)
AckedAfterResult ==
  \A w \in Workers :
    job[w].outcome = "acked" =>
      /\ job[w].handled
      /\ ~cfg.publishAfterAck /\ cfg.publishes /\ job[w].data => job[w].sent

(* With a dead-letter publisher, a failed message is discarded without a    *)
(* copy only when the publisher refused it for good, or failed while no     *)
(* bound on redeliveries was in force (fail).                               *)
DiscardedAfterCopy ==
  \A w \in Workers :
    LET j == job[w] IN
    j.outcome = "discarded" /\ j.reason # NoReason /\ cfg.deadLetter =>
      \/ j.copy \in {"out", "refused"}
      \/ /\ j.copy = "failed"
         /\ \/ cfg.transport # "counted"
            \/ j.count \notin 1 .. cfg.maxRetries

(* A Nack always leads somewhere: the transport can redeliver, the delivery *)
(* is within MaxRetries when that is enforceable, and a broken dead-letter  *)
(* topic nacks only under an enforceable limit (classify, fail).            *)
NackedWithinLimit ==
  \A w \in Workers :
    LET j == job[w] IN
    j.outcome = "nacked" =>
      /\ cfg.transport # "core"
      /\ cfg.maxRetries > 0 /\ cfg.transport = "counted" => j.count <= cfg.maxRetries
      /\ j.copy = "failed" => cfg.maxRetries > 0 /\ cfg.transport = "counted"

(* The Observer hears of every decision once, and hears the decision the    *)
(* message records, even when the broker refuses it; the exception is a     *)
(* Delivery callback that panics (settle, observe).                         *)
ReportedAsDecided ==
  \A w \in Workers :
    job[w].pc \in {"afterAck", "returned"} =>
      IF job[w].outcome = "pending" \/ job[w].callback = "panicked"
        THEN job[w].reports = 0
        ELSE job[w].reports = 1 /\ job[w].reported = job[w].outcome

(* The end of a context alone, a client gone, a drain deadline or the Ack's *)
(* own cancel, never costs a result or a copy: when no publisher failed of  *)
(* itself, an acknowledged message has its result out, in either order, and *)
(* a failed one that is discarded its copy (processAndHandle, fail,         *)
(* publishDeadLetter).  A Delivery callback that panics skips the result of *)
(* PublishAfterAck.                                                         *)
WorkingPublishersSuffice ==
  \A w \in Workers :
    LET j == job[w] IN
    j.pc = "returned" /\ ~j.broken =>
      /\ j.outcome = "acked" /\ cfg.publishes /\ j.data =>
           j.sent \/ (cfg.publishAfterAck /\ j.callback = "panicked")
      /\ j.outcome = "discarded" /\ j.reason # NoReason /\ cfg.deadLetter => j.copy = "out"

(* handle returns to the transport without a decision only when the         *)
(* dead-letter publisher itself panicked; every other panic, in a filter, a *)
(* decoder, a handler or a result publisher, ends in a decision.            *)
UndecidedOnlyByCopyPanic ==
  \A w \in Workers :
    job[w].pc = "returned" /\ job[w].outcome = "pending" =>
      cfg.deadLetter /\ job[w].copy = "panicked"

(* With a limit and a delivery count, every message eventually leaves the   *)
(* broker even if it fails on every delivery: Config.MaxRetries.            *)
EventuallySettled ==
  cfg.maxRetries > 0 /\ cfg.transport = "counted" => <>(held = {})

(* The mux keeps the promise of Settlement to the broker.                   *)
Item == [w \in Workers |-> job[w].msg]

Phase == [w \in Workers |->
            IF job[w].pc = "idle" THEN "free"
            ELSE IF job[w].outcome = "pending" THEN "open" ELSE job[w].outcome]

Promise == INSTANCE Settlement WITH forgets <- ~CanNack, item <- Item, phase <- Phase

KeepsPromise == Promise!Spec

=============================================================================
