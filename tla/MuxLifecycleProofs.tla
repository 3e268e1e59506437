------------------------- MODULE MuxLifecycleProofs -------------------------
(***************************************************************************)
(* Proofs about MuxLifecycle, for every set of filters and calls and every *)
(* bound: types, and that handlers, which read routes and chains without   *)
(* the lock, find them complete and unchanging over any number of starts,  *)
(* stops and failures of both.                                             *)
(***************************************************************************)
EXTENDS MuxLifecycle, SequenceTheorems, TLAPS

Route == [filter : Filters, chain : Chains, wraps : Nat]
Places == {"ready", "subscribing", "subscribed", "stopping", "done"}

(* The call that holds Mux.mu is the one inside the subscription, and what  *)
(* the subscription is doing follows from where it stands.                  *)
Holder ==
  \A c \in Calls :
    /\ c \in Starts => call[c] # "stopping"
    /\ c \in Stops => call[c] \notin {"subscribing", "subscribed"}
    /\ mu = c <=> call[c] \in {"subscribing", "subscribed", "stopping"}
    /\ call[c] = "subscribing" => ~started /\ phase = "stopped"
    /\ call[c] = "subscribed" => ~started /\ phase # "stopped"
    /\ call[c] = "stopping" => started /\ phase # "stopped"

(* Registration is open only while nothing was ever started.                *)
OpenIsIdle == ~frozen => mu = Nobody /\ ~started /\ busy = 0

(* Once frozen everything is built; until then no publisher is wrapped.     *)
Built ==
  /\ frozen => preflight = BuiltWith(uses["preflight"])
  /\ \A i \in 1 .. Len(routes) :
       IF frozen THEN routes[i].chain = BuiltWith(uses["handler"]) /\ routes[i].wraps = 1
       ELSE routes[i].wraps = 0

IInv == Holder /\ StartedAgrees /\ OpenIsIdle /\ Built

-----------------------------------------------------------------------------
LEMMA InitKeeps == Init => TypeOK /\ IInv
<1> SUFFICES ASSUME Init PROVE TypeOK /\ IInv
  OBVIOUS
<1>1. TypeOK
  <2>1. routes \in Seq(Route)
    BY EmptySeq DEF Init
  <2>2. preflight \in Chains /\ uses \in [Stages -> Nat]
    BY DEF Init, Chains, Unbuilt
  <2> QED  BY <2>1, <2>2 DEF Init, Sub!Init, TypeOK, Route
<1>2. Holder /\ StartedAgrees /\ OpenIsIdle
  BY MuxLifecycleAssumption DEF Init, Sub!Init, Holder, StartedAgrees, OpenIsIdle, Calls
<1>3. Built
  BY EmptySeq DEF Init, Built
<1> QED  BY <1>1, <1>2, <1>3 DEF IInv

(* The subscription's own steps keep its types.                             *)
SubType ==
  /\ run \in Nat /\ phase \in {"stopped", "running", "stopping"} /\ busy \in Nat
  /\ died \subseteq Nat /\ told \subseteq died /\ loose \in BOOLEAN

LEMMA SubscriptionType == SubType /\ Sub!Next => SubType'
<1> SUFFICES ASSUME SubType, Sub!Next PROVE SubType'
  OBVIOUS
<1>1. CASE Sub!Start \/ Sub!HandlerCalled \/ Sub!HandlerReturns \/ Sub!StopBegins \/ Sub!StopEnds
  <2>1. UNCHANGED <<died, told, loose>>
    BY <1>1 DEF Sub!Start, Sub!HandlerCalled, Sub!HandlerReturns, Sub!StopBegins, Sub!StopEnds
  <2>2. run' \in Nat /\ phase' \in {"stopped", "running", "stopping"} /\ busy' \in Nat
    BY <1>1 DEF SubType, Sub!Start, Sub!HandlerCalled, Sub!HandlerReturns, Sub!StopBegins, Sub!StopEnds
  <2> QED  BY <2>1, <2>2 DEF SubType
<1>2. CASE Sub!Die
  BY <1>2 DEF SubType, Sub!Die
<1>3. ASSUME NEW r \in died, Sub!Tell(r) PROVE SubType'
  BY <1>3 DEF SubType, Sub!Tell
<1> QED  BY <1>1, <1>2, <1>3 DEF Sub!Next

(* A function on 1 .. n is a sequence of length n.                          *)
LEMMA FunctionIsSequence ==
  ASSUME NEW S, NEW n \in Nat, NEW f \in [1 .. n -> S]
  PROVE  f \in Seq(S) /\ Len(f) = n
  OBVIOUS

-----------------------------------------------------------------------------
(* TypeOK is preserved.                                                     *)

LEMMA SubscriptionSteps ==
  ASSUME TypeOK, [Next]_vars
  PROVE  SubType'
<1>1. SubType
  BY DEF TypeOK, SubType
<1>2. CASE UNCHANGED subscription
  BY <1>1, <1>2 DEF subscription, SubType
<1>3. CASE Sub!Next
  BY <1>1, <1>3, SubscriptionType
<1>4. UNCHANGED subscription \/ Sub!Next
  BY DEF Next, vars, Handle, Use, StartStep, StopStep, StartRefused, StartBegins,
         SubscriptionStarts, SubscriptionStartFails, StartReturns, StopIdle, StopBegins,
         StopSucceeds, StopFails, HandlerCalled, HandlerReturns, Fails, Sub!Next
<1> QED  BY <1>2, <1>3, <1>4

(* mustBeOpen and the duplicate check decide whether a route is added; what *)
(* is added is a route that was not built.                                  *)
LEMMA HandleRoutes ==
  ASSUME TypeOK, NEW filter \in Filters, Handle(filter)
  PROVE  /\ routes' \in Seq(Route)
         /\ Len(routes') = Len(routes) + 1
         /\ \A i \in 1 .. Len(routes) : routes'[i] = routes[i]
         /\ routes'[Len(routes) + 1].wraps = 0
<1>1. [filter |-> filter, chain |-> Unbuilt, wraps |-> 0] \in Route
  BY DEF Route, Chains, Unbuilt
<1>2. routes \in Seq(Route)
  BY DEF TypeOK, Route
<1> QED  BY <1>1, <1>2 DEF Handle

(* What Freeze makes of one route.                                          *)
LEMMA BuiltRoute ==
  ASSUME NEW r \in Route, r.wraps = 0, NEW b \in Chains
  PROVE  LET q == [r EXCEPT !.chain = b, !.wraps = @ + 1]
         IN  q \in Route /\ q.chain = b /\ q.wraps = 1
<1> DEFINE q == [r EXCEPT !.chain = b, !.wraps = @ + 1]
<1> DEFINE p == [r EXCEPT !.chain = b]
<1>1. p \in Route /\ p.chain = b /\ p.wraps = 0
  BY DEF Route
<1>2. q = [p EXCEPT !.wraps = 1]
  OBVIOUS
<1> HIDE DEF p, q
<1>3. q \in Route /\ q.chain = b /\ q.wraps = 1
  BY <1>1, <1>2 DEF Route
<1> QED  BY <1>3 DEF q

(* Freeze builds every chain and wraps every publisher once more than it    *)
(* was, which was never.                                                    *)
LEMMA FreezeRoutes ==
  ASSUME TypeOK, Built, Freeze, uses' = uses
  PROVE  /\ routes' \in Seq(Route)
         /\ preflight' \in Chains
         /\ frozen' = TRUE
         /\ Built'
<1>1. routes \in Seq(Route) /\ uses \in [Stages -> Nat] /\ preflight \in Chains /\ frozen \in BOOLEAN
  BY DEF TypeOK, Route
<1>2. CASE frozen
  BY <1>1, <1>2 DEF Freeze, Built
<1>3. CASE ~frozen
  <2>1. \A n \in Nat : BuiltWith(n) \in Chains
    BY DEF BuiltWith, Chains
  <2>2. uses["handler"] \in Nat /\ uses["preflight"] \in Nat
    BY <1>1 DEF Stages
  <2> DEFINE f == [i \in 1 .. Len(routes) |->
                    [routes[i] EXCEPT !.chain = BuiltWith(uses["handler"]), !.wraps = @ + 1]]
  <2>3. Len(routes) \in Nat /\ \A i \in 1 .. Len(routes) : routes[i] \in Route
    BY <1>1
  <2>4. \A i \in 1 .. Len(routes) :
          f[i] \in Route /\ f[i].chain = BuiltWith(uses["handler"]) /\ f[i].wraps = 1
    <3> SUFFICES ASSUME NEW i \in 1 .. Len(routes)
                 PROVE  f[i] \in Route /\ f[i].chain = BuiltWith(uses["handler"]) /\ f[i].wraps = 1
      OBVIOUS
    <3>1. f[i] = [routes[i] EXCEPT !.chain = BuiltWith(uses["handler"]), !.wraps = @ + 1]
      OBVIOUS
    <3>2. routes[i] \in Route /\ routes[i].wraps = 0
      BY <1>3, <2>3 DEF Built
    <3>3. BuiltWith(uses["handler"]) \in Chains
      BY <2>1, <2>2
    <3> HIDE DEF f
    <3>4. LET q == [routes[i] EXCEPT !.chain = BuiltWith(uses["handler"]), !.wraps = @ + 1]
          IN  q \in Route /\ q.chain = BuiltWith(uses["handler"]) /\ q.wraps = 1
      BY <3>2, <3>3, BuiltRoute
    <3> QED  BY <3>1, <3>4
  <2>5. routes' = f /\ frozen' = TRUE /\ preflight' = BuiltWith(uses["preflight"])
    BY <1>3 DEF Freeze
  <2>6. f \in [1 .. Len(routes) -> Route]
    BY <2>4
  <2> HIDE DEF f
  <2>7. f \in Seq(Route) /\ Len(f) = Len(routes)
    BY <2>3, <2>6, FunctionIsSequence
  <2> QED  BY <2>1, <2>2, <2>4, <2>5, <2>7 DEF Built
<1> QED  BY <1>1, <1>2, <1>3

LEMMA NextKeepsType == TypeOK /\ IInv /\ [Next]_vars => TypeOK'
<1> SUFFICES ASSUME TypeOK, IInv, [Next]_vars PROVE TypeOK'
  OBVIOUS
<1>1. SubType'
  BY SubscriptionSteps
<1>2. routes' \in Seq(Route) /\ preflight' \in Chains /\ frozen' \in BOOLEAN
  <2>1. CASE \E filter \in Filters : Handle(filter)
    BY <2>1, HandleRoutes DEF Handle, TypeOK
  <2>2. CASE \E c \in Starts : StartBegins(c)
    BY <2>2, FreezeRoutes DEF StartBegins, IInv
  <2>3. CASE UNCHANGED <<routes, preflight, frozen>>
    BY <2>3 DEF TypeOK, Route
  <2> QED
    BY <2>1, <2>2, <2>3
       DEF Next, vars, registered, Use, StartStep, StopStep, StartRefused,
           SubscriptionStarts, SubscriptionStartFails, StartReturns, StopIdle, StopBegins,
           StopSucceeds, StopFails, HandlerCalled, HandlerReturns, Fails
<1>3. uses' \in [Stages -> Nat]
  <2>1. ASSUME NEW stage \in Stages, Use(stage) PROVE uses' \in [Stages -> Nat]
    BY <2>1 DEF Use, TypeOK
  <2>2. CASE UNCHANGED uses
    BY <2>2 DEF TypeOK
  <2> QED
    BY <2>1, <2>2
       DEF Next, vars, registered, Handle, StartStep, StopStep, StartRefused, StartBegins,
           SubscriptionStarts, SubscriptionStartFails, StartReturns, StopIdle, StopBegins,
           StopSucceeds, StopFails, HandlerCalled, HandlerReturns, Fails
<1>4. started' \in BOOLEAN /\ mu' \in Calls \cup {Nobody}
  <2>1. started' \in {started, TRUE, FALSE} /\ mu' \in {mu, Nobody} \cup Calls
    BY DEF Calls, Next, vars, registered, Handle, Use, StartStep, StopStep, StartRefused,
         StartBegins, SubscriptionStarts, SubscriptionStartFails, StartReturns, StopIdle,
         StopBegins, StopSucceeds, StopFails, HandlerCalled, HandlerReturns, Fails
  <2> QED  BY <2>1 DEF TypeOK
<1>5. messages' \in Nat /\ faults' \in Nat
  <2>1. messages' \in {messages, messages + 1} /\ faults' \in {faults, faults + 1}
    BY DEF Fault, Next, vars, registered, Handle, Use, StartStep, StopStep, StartRefused,
         StartBegins, SubscriptionStarts, SubscriptionStartFails, StartReturns, StopIdle,
         StopBegins, StopSucceeds, StopFails, HandlerCalled, HandlerReturns, Fails
  <2> QED  BY <2>1 DEF TypeOK
<1>6. call' \in [Calls -> Places]
  <2>1. call' = call \/ \E c \in Calls, place \in Places : Set(c, place)
    BY DEF Calls, Places, Next, vars, registered, Handle, Use, StartStep, StopStep, StartRefused,
         StartBegins, SubscriptionStarts, SubscriptionStartFails, StartReturns, StopIdle,
         StopBegins, StopSucceeds, StopFails, HandlerCalled, HandlerReturns, Fails
  <2> QED  BY <2>1 DEF TypeOK, Set, Places
<1> QED  BY <1>1, <1>2, <1>3, <1>4, <1>5, <1>6 DEF TypeOK, SubType, Route, Places

-----------------------------------------------------------------------------
(* IInv is preserved.                                                       *)

(* The steps of Holder and StartedAgrees look at the lock, the calls, and   *)
(* whether the subscription is stopped.                                     *)
Lock == <<started, mu, call, phase>>

LEMMA HolderUnchanged == IInv /\ UNCHANGED Lock => Holder' /\ StartedAgrees'
  BY DEF IInv, Holder, StartedAgrees, Lock

(* A step of a call that ends outside the lock.                             *)
LEMMA CallEnds ==
  ASSUME TypeOK, Holder, NEW c \in Calls, Set(c, "done"), mu' = Nobody,
         mu \in {c, Nobody}, started' <=> phase' # "stopped"
  PROVE  Holder' /\ StartedAgrees'
<1>1. call' = [call EXCEPT ![c] = "done"] /\ call \in [Calls -> Places]
  BY DEF Set, TypeOK, Places
<1>2. \A d \in Calls : call'[d] \notin {"subscribing", "subscribed", "stopping"}
  BY <1>1, MuxLifecycleAssumption DEF Holder
<1> QED  BY <1>2, MuxLifecycleAssumption DEF Holder, StartedAgrees

(* A step of a call that holds the lock when it is over.                    *)
LEMMA CallHolds ==
  ASSUME TypeOK, Holder, NEW c \in Calls, mu' = c, mu \in {c, Nobody},
         NEW place \in {"subscribing", "subscribed", "stopping"}, Set(c, place),
         c \in Starts => place # "stopping",
         c \in Stops => place = "stopping",
         place = "subscribing" => ~started' /\ phase' = "stopped",
         place = "subscribed" => ~started' /\ phase' # "stopped",
         place = "stopping" => started' /\ phase' # "stopped"
  PROVE  Holder' /\ StartedAgrees'
<1>1. call' = [call EXCEPT ![c] = place] /\ call \in [Calls -> Places]
  BY DEF Set, TypeOK, Places
<1>2. \A d \in Calls \ {c} : call'[d] \notin {"subscribing", "subscribed", "stopping"}
  BY <1>1, MuxLifecycleAssumption DEF Holder
<1>3. call'[c] = place
  BY <1>1
<1> QED  BY <1>2, <1>3, MuxLifecycleAssumption DEF Holder, StartedAgrees

LEMMA BuiltUnchanged == IInv /\ UNCHANGED registered => Built'
<1> SUFFICES ASSUME IInv, UNCHANGED registered PROVE Built'
  OBVIOUS
<1>1. Built /\ routes' = routes /\ uses' = uses /\ preflight' = preflight /\ frozen' = frozen
  BY DEF IInv, registered
<1> QED  BY <1>1 DEF Built

(* Who is inside a call of the subscription has frozen the mux.             *)
LEMMA HolderHasFrozen ==
  ASSUME IInv, NEW c \in Calls, mu = c \/ started
  PROVE  frozen
  BY MuxLifecycleAssumption DEF IInv, OpenIsIdle

(* Registration                                                             *)
LEMMA HandleKeeps ==
  ASSUME TypeOK, IInv, NEW filter \in Filters, Handle(filter)
  PROVE  IInv'
<1>1. Holder' /\ StartedAgrees'
  BY HolderUnchanged DEF Handle, Lock, subscription
<1>2. OpenIsIdle'
  BY DEF IInv, OpenIsIdle, Handle, subscription
<1>3. Built'
  <2>1. ~frozen' /\ ~frozen /\ Len(routes) \in Nat
    BY DEF Handle, mustBeOpen, TypeOK
  <2>2. \A i \in 1 .. Len(routes') : routes'[i].wraps = 0
    BY <2>1, HandleRoutes DEF IInv, Built
  <2> QED  BY <2>1, <2>2 DEF Built
<1> QED  BY <1>1, <1>2, <1>3 DEF IInv

LEMMA UseKeeps ==
  ASSUME TypeOK, IInv, NEW stage \in Stages, Use(stage)
  PROVE  IInv'
<1>1. Holder' /\ StartedAgrees'
  BY HolderUnchanged DEF Use, Lock, subscription
<1>2. OpenIsIdle' /\ Built'
  BY DEF IInv, OpenIsIdle, Built, Use, mustBeOpen, subscription
<1> QED  BY <1>1, <1>2 DEF IInv

(* Start                                                                    *)
LEMMA StartKeeps ==
  ASSUME TypeOK, IInv, NEW c \in Starts, StartStep(c)
  PROVE  IInv'
<1> USE DEF Calls
<1>1. CASE StartRefused(c)
  <2>1. Holder' /\ StartedAgrees'
    BY <1>1, CallEnds DEF StartRefused, IInv, StartedAgrees, subscription
  <2>2. OpenIsIdle'
    BY <1>1 DEF StartRefused, IInv, OpenIsIdle, registered, subscription
  <2> QED  BY <1>1, <2>1, <2>2, BuiltUnchanged DEF StartRefused, IInv
<1>2. CASE StartBegins(c)
  <2>1. phase = "stopped" /\ phase' = phase /\ started' = started
    BY <1>2 DEF StartBegins, IInv, StartedAgrees, subscription
  <2>2. Holder' /\ StartedAgrees'
    BY <1>2, <2>1, CallHolds, MuxLifecycleAssumption DEF StartBegins, IInv
  <2>3. frozen' /\ Built'
    BY <1>2, FreezeRoutes DEF StartBegins, IInv
  <2> QED  BY <2>2, <2>3 DEF IInv, OpenIsIdle
<1>3. CASE SubscriptionStarts(c)
  <2>1. mu = c /\ ~started
    BY <1>3 DEF SubscriptionStarts, IInv, Holder
  <2>2. phase' # "stopped" /\ mu' = c /\ ~started'
    BY <1>3, <2>1 DEF SubscriptionStarts, Sub!Start
  <2>3. Holder' /\ StartedAgrees'
    BY <1>3, <2>1, <2>2, CallHolds, MuxLifecycleAssumption DEF SubscriptionStarts, IInv
  <2>4. frozen'
    BY <1>3, <2>1, HolderHasFrozen DEF SubscriptionStarts, registered
  <2> QED  BY <1>3, <2>3, <2>4, BuiltUnchanged DEF SubscriptionStarts, IInv, OpenIsIdle
<1>4. CASE SubscriptionStartFails(c)
  <2>1. mu = c /\ ~started /\ phase = "stopped"
    BY <1>4 DEF SubscriptionStartFails, IInv, Holder
  <2>2. Holder' /\ StartedAgrees'
    BY <1>4, <2>1, CallEnds DEF SubscriptionStartFails, IInv, subscription
  <2>3. frozen'
    BY <1>4, <2>1, HolderHasFrozen DEF SubscriptionStartFails, registered
  <2> QED  BY <1>4, <2>2, <2>3, BuiltUnchanged DEF SubscriptionStartFails, IInv, OpenIsIdle
<1>5. CASE StartReturns(c)
  <2>1. mu = c /\ phase # "stopped"
    BY <1>5 DEF StartReturns, IInv, Holder
  <2>2. Holder' /\ StartedAgrees'
    BY <1>5, <2>1, CallEnds DEF StartReturns, IInv, subscription
  <2>3. frozen'
    BY <1>5, <2>1, HolderHasFrozen DEF StartReturns, registered
  <2> QED  BY <1>5, <2>2, <2>3, BuiltUnchanged DEF StartReturns, IInv, OpenIsIdle
<1> QED  BY <1>1, <1>2, <1>3, <1>4, <1>5 DEF StartStep

(* Stop                                                                     *)
LEMMA StopKeeps ==
  ASSUME TypeOK, IInv, NEW c \in Stops, StopStep(c) \/ StopFails(c)
  PROVE  IInv'
<1> USE DEF Calls
<1>1. CASE StopIdle(c)
  <2>1. Holder' /\ StartedAgrees'
    BY <1>1, CallEnds DEF StopIdle, IInv, StartedAgrees, subscription
  <2>2. OpenIsIdle'
    BY <1>1 DEF StopIdle, IInv, OpenIsIdle, registered, subscription
  <2> QED  BY <1>1, <2>1, <2>2, BuiltUnchanged DEF StopIdle, IInv
<1>2. CASE StopBegins(c)
  <2>1. phase' # "stopped" /\ started /\ started'
    BY <1>2 DEF StopBegins, Sub!StopBegins, subscription
  <2>2. Holder' /\ StartedAgrees'
    BY <1>2, <2>1, CallHolds, MuxLifecycleAssumption DEF StopBegins, IInv
  <2>3. frozen'
    BY <1>2, <2>1, HolderHasFrozen DEF StopBegins, registered
  <2> QED  BY <1>2, <2>2, <2>3, BuiltUnchanged DEF StopBegins, IInv, OpenIsIdle
<1>3. CASE StopSucceeds(c)
  <2>1. mu = c /\ phase' = "stopped" /\ ~started'
    BY <1>3 DEF StopSucceeds, Sub!StopEnds, IInv, Holder
  <2>2. Holder' /\ StartedAgrees'
    BY <1>3, <2>1, CallEnds DEF StopSucceeds, IInv
  <2>3. frozen'
    BY <1>3, <2>1, HolderHasFrozen DEF StopSucceeds, registered
  <2> QED  BY <1>3, <2>2, <2>3, BuiltUnchanged DEF StopSucceeds, IInv, OpenIsIdle
<1>4. CASE StopFails(c)
  <2>1. mu = c /\ started /\ phase # "stopped"
    BY <1>4 DEF StopFails, IInv, Holder
  <2>2. Holder' /\ StartedAgrees'
    BY <1>4, <2>1, CallEnds DEF StopFails, IInv, subscription
  <2>3. frozen'
    BY <1>4, <2>1, HolderHasFrozen DEF StopFails, registered
  <2> QED  BY <1>4, <2>2, <2>3, BuiltUnchanged DEF StopFails, IInv, OpenIsIdle
<1> QED  BY <1>1, <1>2, <1>3, <1>4 DEF StopStep

(* The subscription calls no handler before the mux was frozen.             *)
LEMMA SubscriptionKeeps ==
  ASSUME TypeOK, IInv, HandlerCalled \/ HandlerReturns \/ Fails
  PROVE  IInv'
<1>1. UNCHANGED Lock /\ UNCHANGED registered
  BY DEF HandlerCalled, HandlerReturns, Fails, Lock,
         Sub!HandlerCalled, Sub!HandlerReturns, Sub!Die, Sub!Tell
<1>2. ~frozen => busy' = 0
  <2>1. CASE HandlerCalled
    BY <2>1 DEF HandlerCalled, Sub!HandlerCalled, IInv, OpenIsIdle, StartedAgrees
  <2>2. CASE HandlerReturns
    BY <2>2 DEF HandlerReturns, Sub!HandlerReturns, IInv, OpenIsIdle
  <2>3. CASE Fails
    BY <2>3 DEF Fails, Sub!Die, Sub!Tell, IInv, OpenIsIdle
  <2> QED  BY <2>1, <2>2, <2>3
<1>3. OpenIsIdle'
  BY <1>1, <1>2 DEF IInv, OpenIsIdle, Lock, registered
<1> QED  BY <1>1, <1>3, HolderUnchanged, BuiltUnchanged DEF IInv

LEMMA NextKeeps == TypeOK /\ IInv /\ [Next]_vars => IInv'
<1> SUFFICES ASSUME TypeOK, IInv, [Next]_vars PROVE IInv'
  OBVIOUS
<1>1. CASE UNCHANGED vars
  <2>1. OpenIsIdle'
    BY <1>1 DEF vars, registered, subscription, IInv, OpenIsIdle
  <2>2. UNCHANGED Lock /\ UNCHANGED registered
    BY <1>1 DEF vars, Lock, subscription
  <2> QED  BY <2>1, <2>2, HolderUnchanged, BuiltUnchanged DEF IInv
<1>2. CASE Next
  BY <1>2, HandleKeeps, UseKeeps, StartKeeps, StopKeeps, SubscriptionKeeps DEF Next
<1> QED  BY <1>1, <1>2

-----------------------------------------------------------------------------
(* The properties of MuxLifecycle                                           *)

(* The lock is held by the one call inside the subscription, registration   *)
(* is open only before the first Start, and what is frozen is built.        *)
THEOREM Invariant == Spec => [](TypeOK /\ IInv)
<1>1. Init => TypeOK /\ IInv
  BY InitKeeps
<1>2. TypeOK /\ IInv /\ [Next]_vars => TypeOK' /\ IInv'
  BY NextKeepsType, NextKeeps
<1> QED  BY <1>1, <1>2, PTL DEF Spec

(* Every variable keeps its type under any number of starts and stops.      *)
THEOREM TypeCorrect == Spec => []TypeOK
  BY Invariant, PTL

(* A handler finds every chain built and every publisher wrapped once.      *)
THEOREM ChainsComplete == Spec => []HandlersFindChains
<1>1. TypeOK /\ IInv => HandlersFindChains
  BY DEF TypeOK, IInv, OpenIsIdle, Built, HandlersFindChains
<1> QED  BY <1>1, Invariant, PTL

(* Outside its lock the mux is started exactly when its subscription is.    *)
THEOREM StartedIsSubscribed == Spec => []StartedAgrees
<1>1. IInv => StartedAgrees
  BY DEF IInv
<1> QED  BY <1>1, Invariant, PTL

(* No route, chain or middleware changes under a handler in flight.         *)
THEOREM NeverRebuilt == Spec => NothingRebuilt
<1>1. TypeOK /\ IInv /\ [Next]_vars => [busy > 0 \/ busy' > 0 => UNCHANGED registered]_vars
  <2> SUFFICES ASSUME TypeOK, IInv, Next, busy > 0 \/ busy' > 0
               PROVE  UNCHANGED registered
    OBVIOUS
  <2>1. frozen \/ busy = 0
    BY DEF IInv, OpenIsIdle
  <2>2. ASSUME NEW filter \in Filters, Handle(filter) PROVE FALSE
    BY <2>1, <2>2 DEF Handle, mustBeOpen, subscription
  <2>3. ASSUME NEW stage \in Stages, Use(stage) PROVE FALSE
    BY <2>1, <2>3 DEF Use, mustBeOpen, subscription
  <2>4. ASSUME NEW c \in Starts, StartBegins(c) PROVE UNCHANGED registered
    <3>1. frozen
      BY <2>1, <2>4 DEF StartBegins, subscription
    <3> QED  BY <2>4, <3>1 DEF StartBegins, Freeze, registered
  <2> QED
    BY <2>2, <2>3, <2>4
       DEF Next, StartStep, StopStep, StartRefused, SubscriptionStarts, SubscriptionStartFails,
           StartReturns, StopIdle, StopBegins, StopSucceeds, StopFails, HandlerCalled,
           HandlerReturns, Fails
<1> QED  BY <1>1, Invariant, PTL DEF Spec, NothingRebuilt

=============================================================================
