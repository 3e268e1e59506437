---------------------------- MODULE MuxLifecycle ----------------------------
(***************************************************************************)
(* The life of a Mux (pkg/eventmux/mux.go): routes and middlewares are      *)
(* registered, Start freezes them and starts the subscription, Stop ends    *)
(* it, and the mux may start again.  Handlers read the routes and their     *)
(* chains without the lock, and some may be in flight from an earlier run.  *)
(*                                                                         *)
(* The subscription is known by its contract only, Subscription, which the  *)
(* subscribers of Subscribers keep.  A call is one goroutine inside one     *)
(* call of Start or Stop; Mux.mu is held across Subscription.Start and      *)
(* Subscription.Stop.  A registration that panics changes nothing and has   *)
(* no action.                                                               *)
(***************************************************************************)
EXTENDS Naturals, Sequences

CONSTANTS
  Filters,       \* filters a route can be registered with
  Uncomparable,  \* those without an identity, such as functions
  Starts,        \* calls of Start
  Stops,         \* calls of Stop, from onError or from anywhere else
  Nobody,        \* the holder of a free mutex
  MaxRoutes,     \* bound: routes
  MaxUses,       \* bound: middlewares, and preflight middlewares
  MaxMessages,   \* bound: messages received
  MaxFaults      \* bound: failures to start, contexts of Stop that end

Calls == Starts \cup Stops

ASSUME MuxLifecycleAssumption ==
  /\ Uncomparable \subseteq Filters
  /\ Starts \cap Stops = {} /\ Nobody \notin Calls
  /\ MaxRoutes \in Nat /\ MaxUses \in Nat /\ MaxMessages \in Nat /\ MaxFaults \in Nat

VARIABLES
  routes,     \* Mux.routes, with the chain and the publisher of each
  uses,       \* how many middlewares, and preflight middlewares
  preflight,  \* Mux.preflight
  frozen,     \* Mux.frozen
  started,    \* Mux.started
  mu,         \* who holds Mux.mu across a call of the subscription
  call,       \* where each call stands
  messages,   \* messages received so far
  faults,
  run, phase, busy, died, told, loose  \* the subscription

Sub == INSTANCE Subscription

subscription == <<run, phase, busy, died, told, loose>>
registered == <<routes, uses, preflight, frozen>>
vars == <<registered, started, mu, call, messages, faults, subscription>>

Stages == {"handler", "preflight"}

(* A chain not built is nil: calling it panics.                             *)
Unbuilt == [built |-> FALSE, uses |-> 0]
BuiltWith(n) == [built |-> TRUE, uses |-> n]

Init ==
  /\ routes = <<>>
  /\ uses = [stage \in Stages |-> 0]
  /\ preflight = Unbuilt
  /\ frozen = FALSE /\ started = FALSE /\ mu = Nobody
  /\ call = [c \in Calls |-> "ready"]
  /\ messages = 0 /\ faults = 0
  /\ Sub!Init

Set(c, place) == call' = [call EXCEPT ![c] = place]

Fault == faults < MaxFaults /\ faults' = faults + 1

-----------------------------------------------------------------------------
(* Mutant: registration is open whenever the mux is not running. *)
MustBeOpenUnlessStarted == ~started

mustBeOpen == ~frozen

identical(a, b) == a = b /\ a \notin Uncomparable

Handle(filter) ==
  /\ mu = Nobody
  /\ mustBeOpen
  /\ \A i \in 1 .. Len(routes) : ~identical(routes[i].filter, filter)
  /\ Len(routes) < MaxRoutes
  /\ routes' = Append(routes, [filter |-> filter, chain |-> Unbuilt, wraps |-> 0])
  /\ UNCHANGED <<uses, preflight, frozen, started, mu, call, messages, faults, subscription>>

(* Use and UsePreflight                                                     *)
Use(stage) ==
  /\ mu = Nobody
  /\ mustBeOpen
  /\ uses[stage] < MaxUses
  /\ uses' = [uses EXCEPT ![stage] = @ + 1]
  /\ UNCHANGED <<routes, preflight, frozen, started, mu, call, messages, faults, subscription>>

-----------------------------------------------------------------------------
(* Mutant: a restart builds everything again. *)
FreezeAgain ==
  /\ frozen' = TRUE
  /\ preflight' = BuiltWith(uses["preflight"])
  /\ routes' = [i \in 1 .. Len(routes) |->
       [routes[i] EXCEPT !.chain = BuiltWith(uses["handler"]), !.wraps = @ + 1]]

(* The chains are built, and the publishers wrapped for the Observer, once. *)
Freeze ==
  IF frozen THEN UNCHANGED <<frozen, preflight, routes>>
  ELSE /\ frozen' = TRUE
       /\ preflight' = BuiltWith(uses["preflight"])
       /\ routes' = [i \in 1 .. Len(routes) |->
            [routes[i] EXCEPT !.chain = BuiltWith(uses["handler"]), !.wraps = @ + 1]]

StartRefused(c) ==
  /\ call[c] = "ready" /\ mu = Nobody
  /\ started
  /\ Set(c, "done")
  /\ UNCHANGED <<registered, started, mu, messages, faults, subscription>>

StartBegins(c) ==
  /\ call[c] = "ready" /\ mu = Nobody
  /\ ~started
  /\ mu' = c
  /\ Freeze
  /\ Set(c, "subscribing")
  /\ UNCHANGED <<uses, started, messages, faults, subscription>>

(* Messages flow from here on, before the mux is started.                   *)
SubscriptionStarts(c) ==
  /\ call[c] = "subscribing"
  /\ Sub!Start
  /\ Set(c, "subscribed")
  /\ UNCHANGED <<registered, started, mu, messages, faults>>

(* It fails to set up, or is started already.                               *)
SubscriptionStartFails(c) ==
  /\ call[c] = "subscribing"
  /\ IF phase = "stopped" THEN Fault ELSE UNCHANGED faults
  /\ mu' = Nobody
  /\ Set(c, "done")
  /\ UNCHANGED <<registered, started, messages, subscription>>

StartReturns(c) ==
  /\ call[c] = "subscribed"
  /\ started' = TRUE
  /\ mu' = Nobody
  /\ Set(c, "done")
  /\ UNCHANGED <<registered, messages, faults, subscription>>

StopIdle(c) ==
  /\ call[c] = "ready" /\ mu = Nobody
  /\ ~started
  /\ Set(c, "done")
  /\ UNCHANGED <<registered, started, mu, messages, faults, subscription>>

(* An earlier Stop may have begun to end the run already.                   *)
StopBegins(c) ==
  /\ call[c] = "ready" /\ mu = Nobody
  /\ started
  /\ mu' = c
  /\ Sub!StopBegins \/ (phase = "stopping" /\ UNCHANGED subscription)
  /\ Set(c, "stopping")
  /\ UNCHANGED <<registered, started, messages, faults>>

(* Mutant: the lock is kept. *)
StopSucceedsLocked(c) ==
  /\ call[c] = "stopping"
  /\ Sub!StopEnds
  /\ started' = FALSE
  /\ Set(c, "done")
  /\ UNCHANGED <<registered, mu, messages, faults>>

StopSucceeds(c) ==
  /\ call[c] = "stopping"
  /\ Sub!StopEnds
  /\ started' = FALSE
  /\ mu' = Nobody
  /\ Set(c, "done")
  /\ UNCHANGED <<registered, messages, faults>>

(* Mutant: the mux counts as stopped. *)
StopFailsCleared(c) ==
  /\ call[c] = "stopping"
  /\ started' = FALSE
  /\ mu' = Nobody
  /\ Set(c, "done")
  /\ Fault
  /\ UNCHANGED <<registered, messages, subscription>>

(* The context of Stop ends first, or the subscription cannot be drained.   *)
StopFails(c) ==
  /\ call[c] = "stopping"
  /\ mu' = Nobody
  /\ Set(c, "done")
  /\ Fault
  /\ UNCHANGED <<registered, started, messages, subscription>>

-----------------------------------------------------------------------------
(* The subscription, on its own.                                            *)

HandlerCalled ==
  /\ messages < MaxMessages
  /\ messages' = messages + 1
  /\ Sub!HandlerCalled
  /\ UNCHANGED <<registered, started, mu, call, faults>>

HandlerReturns ==
  /\ Sub!HandlerReturns
  /\ UNCHANGED <<registered, started, mu, call, messages, faults>>

(* Delivery ends for good, and onError is told.                             *)
Fails ==
  /\ Sub!Die \/ \E r \in died : Sub!Tell(r)
  /\ UNCHANGED <<registered, started, mu, call, messages, faults>>

-----------------------------------------------------------------------------
StartStep(c) ==
  \/ StartRefused(c) \/ StartBegins(c)
  \/ SubscriptionStarts(c) \/ SubscriptionStartFails(c) \/ StartReturns(c)

StopStep(c) == StopIdle(c) \/ StopBegins(c) \/ StopSucceeds(c)

Next ==
  \/ \E filter \in Filters : Handle(filter)
  \/ \E stage \in Stages : Use(stage)
  \/ \E c \in Starts : StartStep(c)
  \/ \E c \in Stops : StopStep(c) \/ StopFails(c)
  \/ HandlerCalled \/ HandlerReturns \/ Fails

Spec == Init /\ [][Next]_vars

(* Goroutines run, handlers return, and the subscription ends a run it was  *)
(* told to end (StopReturns of Subscribers).  No context of a Stop has to   *)
(* end.                                                                     *)
FairSpec ==
  /\ Spec
  /\ \A c \in Starts : WF_vars(StartStep(c))
  /\ \A c \in Stops : WF_vars(StopStep(c))
  /\ WF_vars(HandlerReturns)

-----------------------------------------------------------------------------
Chains == [built : BOOLEAN, uses : Nat]

TypeOK ==
  /\ routes \in Seq([filter : Filters, chain : Chains, wraps : Nat])
  /\ uses \in [Stages -> Nat] /\ preflight \in Chains
  /\ frozen \in BOOLEAN /\ started \in BOOLEAN
  /\ mu \in Calls \cup {Nobody}
  /\ call \in [Calls -> {"ready", "subscribing", "subscribed", "stopping", "done"}]
  /\ messages \in Nat /\ faults \in Nat
  /\ run \in Nat /\ phase \in {"stopped", "running", "stopping"} /\ busy \in Nat
  /\ died \subseteq Nat /\ told \subseteq died /\ loose \in BOOLEAN

(* Whatever a handler can read is complete: every route has a chain with    *)
(* every middleware, the preflight chain has every middleware, and every    *)
(* publisher is wrapped once.  Also for a handler of a run after a failed   *)
(* Start or a Stop (Start, mustBeOpen).                                     *)
HandlersFindChains ==
  busy > 0 =>
    /\ preflight = BuiltWith(uses["preflight"])
    /\ \A i \in 1 .. Len(routes) :
         routes[i].chain = BuiltWith(uses["handler"]) /\ routes[i].wraps = 1

(* No handler reads what is being written: neither routes nor chains change *)
(* while a handler is in flight, one left behind by an earlier run          *)
(* included (Start: "rebuilding would race with a handler still running").  *)
NothingRebuilt ==
  [][busy > 0 \/ busy' > 0 => UNCHANGED registered]_vars

(* When no call is inside, the mux is started exactly when its subscription *)
(* is: after a Stop that failed too, so that a later Stop tries again and a *)
(* Start is refused (Start, Stop).                                          *)
StartedAgrees ==
  mu = Nobody => (started <=> phase # "stopped")

(* Every Start returns, and every Stop once the handlers have, although the *)
(* lock is held across both: a Stop from onError is safe.                   *)
CallsReturn == \A c \in Calls : <>(call[c] = "done")

=============================================================================
