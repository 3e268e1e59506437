------------------------------ MODULE Service ------------------------------
(***************************************************************************)
(* A whole service, as example/nats/main.go puts it together: a group that  *)
(* Run runs, with a NATS connection (natsconn.Conn) added before a mux.     *)
(* The mux publishes its results over the connection, and subscribes over   *)
(* it or at another broker.                                                 *)
(*                                                                         *)
(* The steps of LifecycleGroup are joined with what its two components do:  *)
(* a Component.Stop takes as long as its drain, and a component that fails  *)
(* is a subscription that died.  The mux and its subscriber are known by    *)
(* what MuxLifecycle and Subscribers say of them, the message path by what  *)
(* EventMux says: the result first, then the Ack.  The connection of the    *)
(* SDK, its buffer and its reconnects are external.                         *)
(***************************************************************************)
EXTENDS LifecycleGroup

CONSTANTS
  Events,         \* what the mux may receive
  Subscriptions,  \* "jetstream" and "core" over the connection, or "other"
  MaxOutages      \* bound: disconnects

Connection == 1
Mux == 2

(* What this program puts together.  It is asked of the initial state, not  *)
(* assumed, so that beside it groups of any size can be spoken of.          *)
ServiceShape ==
  /\ N = 2 /\ Starts = {} /\ Stops = {}
  /\ \E r \in Runs : Runs = {r}
  /\ Subscriptions \subseteq {"jetstream", "core", "other"}
  /\ MaxOutages \in Nat

VARIABLES
  wiring,   \* the subscription, and whether a publish waits for the server
  conn,
  sub,
  event,    \* where each event is
  result,   \* the result of its handler
  told,     \* the mux was told that its subscription died
  expired,  \* the context of Stop has ended
  outages,
  abrupt,   \* history: the connection closed without a drain
  late      \* history: a publish found the connection draining or closed

serviceVars == <<wiring, conn, sub, event, result, told, expired, outages, abrupt, late>>
allVars == <<vars, serviceVars>>
groupVars == vars

ServiceInit ==
  /\ ServiceShape
  /\ Init /\ size = N
  /\ wiring \in [subscription : Subscriptions, confirmed : BOOLEAN]
  /\ conn = "open" /\ sub = "idle"
  /\ event = [m \in Events |-> "held"]
  /\ result = [m \in Events |-> "none"]
  /\ told = FALSE /\ expired = FALSE /\ outages = 0 /\ abrupt = FALSE /\ late = FALSE

(* When Run has returned the process exits.                                 *)
Alive == \E r \in Runs : call[r].pc # "done"

OverConnection == wiring.subscription # "other"
InFlight == {m \in Events : event[m] \in {"handling", "settling"}}

-----------------------------------------------------------------------------
(* A worker of the mux: handle, the publisher, the Delivery.                *)

(* NATS runs one callback at a time.  What the SDK has already still arrives *)
(* while the subscription drains.                                           *)
Delivered(m) ==
  /\ Alive /\ sub \in {"running", "ending"} /\ event[m] = "held"
  /\ OverConnection => conn # "closed" /\ InFlight = {}
  /\ event' = [event EXCEPT ![m] = "handling"]
  /\ UNCHANGED <<groupVars, wiring, conn, sub, result, told, expired, outages, abrupt, late>>

(* A publish that waits for the server needs it; any other is in the buffer *)
(* of the connection.  While it drains it may take one or not.              *)
Published(m) ==
  /\ Alive /\ event[m] = "handling"
  /\ conn \in {"open", "draining"} \/ (conn = "reconnecting" /\ ~wiring.confirmed)
  /\ result' = [result EXCEPT ![m] = IF wiring.confirmed THEN "sent" ELSE "buffered"]
  /\ event' = [event EXCEPT ![m] = "settling"]
  /\ UNCHANGED <<groupVars, wiring, conn, sub, told, expired, outages, abrupt, late>>

(* Nack, and the broker has it back; core NATS has no broker to have it.    *)
PublishFails(m) ==
  /\ Alive /\ event[m] = "handling"
  /\ conn \in {"draining", "closed"} \/ (conn = "reconnecting" /\ wiring.confirmed)
  /\ late' = (late \/ conn # "reconnecting")
  /\ event' = [event EXCEPT ![m] = IF wiring.subscription = "core" THEN "gone" ELSE "held"]
  /\ UNCHANGED <<groupVars, wiring, conn, sub, result, told, expired, outages, abrupt>>

(* The Ack of JetStream goes over the connection too.                       *)
Acks(m) ==
  /\ Alive /\ event[m] = "settling"
  /\ event' = [event EXCEPT ![m] =
       CASE wiring.subscription # "jetstream" -> "acked"
         [] wiring.subscription = "jetstream" /\ conn # "closed" -> "acking"
         [] OTHER -> "held"]
  /\ UNCHANGED <<groupVars, wiring, conn, sub, result, told, expired, outages, abrupt, late>>

-----------------------------------------------------------------------------
(* The connection.                                                          *)

(* The buffer is written in order: a result before the Ack that follows it. *)
Flushed(m) ==
  /\ Alive /\ conn \in {"open", "draining"}
  /\ \/ /\ result[m] = "buffered" /\ result' = [result EXCEPT ![m] = "sent"]
        /\ UNCHANGED event
     \/ /\ result[m] # "buffered" /\ event[m] = "acking"
        /\ event' = [event EXCEPT ![m] = "acked"] /\ UNCHANGED result
  /\ UNCHANGED <<groupVars, wiring, conn, sub, told, expired, outages, abrupt, late>>

Disconnects ==
  /\ Alive /\ conn = "open" /\ outages < MaxOutages
  /\ conn' = "reconnecting" /\ outages' = outages + 1
  /\ UNCHANGED <<groupVars, wiring, sub, event, result, told, expired, abrupt, late>>

Reconnects ==
  /\ Alive /\ conn = "reconnecting"
  /\ conn' = "open"
  /\ UNCHANGED <<groupVars, wiring, sub, event, result, told, expired, outages, abrupt, late>>

(* What is in the buffer is lost; an Ack that is, is a redelivery.          *)
ClosesAbruptly ==
  /\ conn' = "closed" /\ abrupt' = TRUE
  /\ result' = [m \in Events |-> IF result[m] = "buffered" THEN "lost" ELSE result[m]]
  /\ event' = [m \in Events |-> IF event[m] = "acking" THEN "held" ELSE event[m]]

(* MaxReconnects, an authentication error, a drain that times out.          *)
ClosesForGood ==
  /\ Alive /\ conn \in {"reconnecting", "draining"}
  /\ ClosesAbruptly
  /\ UNCHANGED <<groupVars, wiring, sub, told, expired, outages, late>>

(* It drains the subscriptions it has, and then its buffer.                 *)
DrainEnds ==
  /\ Alive /\ conn = "draining"
  /\ OverConnection => InFlight = {}
  /\ \A m \in Events : result[m] # "buffered" /\ event[m] # "acking"
  /\ conn' = "closed"
  /\ UNCHANGED <<groupVars, wiring, sub, event, result, told, expired, outages, abrupt, late>>

-----------------------------------------------------------------------------
(* The subscription.                                                        *)

(* Its failure: the connection closed, the consumer was deleted, the SDK of *)
(* another broker gave up.  But for core NATS, its callbacks have returned. *)
SubscriptionDies ==
  /\ Alive /\ sub = "running"
  /\ \/ OverConnection /\ conn = "closed" /\ UNCHANGED faults
     \/ wiring.subscription # "core" /\ Fault
  /\ wiring.subscription # "core" => InFlight = {}
  /\ sub' = "died"
  /\ UNCHANGED <<GroupFields, mu, Components, call, Failures, wiring, conn, event, result, told,
                 expired, outages, abrupt, late>>

(* A drain is over when the callbacks have returned; that of core NATS also *)
(* when the connection is closed.                                           *)
SubscriptionEnds ==
  /\ Alive /\ sub = "ending"
  /\ InFlight = {} \/ (wiring.subscription = "core" /\ conn = "closed")
  /\ sub' = "ended"
  /\ UNCHANGED <<groupVars, wiring, conn, event, result, told, expired, outages, abrupt, late>>

(* Mutant: the failure gets no further than the mux. *)
TellsTheMuxOnly(r) ==
  /\ Alive /\ sub = "died" /\ ~told /\ wiring.subscription # "core"
  /\ told' = TRUE
  /\ UNCHANGED <<groupVars, wiring, conn, sub, event, result, expired, outages, abrupt, late>>

(* onError, Mux.subscriptionFailed and the closure of the group, which has  *)
(* fired when OnFatal is done.  Core NATS tells nobody.                     *)
Tells(r) ==
  /\ Alive /\ sub = "died" /\ ~told /\ wiring.subscription # "core"
  /\ r \in given[Mux]
  /\ told' = TRUE
  /\ reports' = IF stopping THEN reports ELSE reports \cup {r}
  /\ UNCHANGED <<GroupFields, mu, Components, call, fired, ended, faults, wiring, conn, sub, event,
                 result, expired, outages, abrupt, late>>

-----------------------------------------------------------------------------
(* The components, as the group calls them.                                 *)

CanSubscribe ==
  CASE wiring.subscription = "jetstream" -> conn = "open"
    [] wiring.subscription = "core" -> conn # "closed"
    [] OTHER -> TRUE

(* Conn.Start does nothing; Mux.Start subscribes.                           *)
Starting(r) ==
  /\ ComponentStarts(r)
  /\ IF call[r].at = Mux THEN CanSubscribe /\ sub' = "running" ELSE UNCHANGED sub
  /\ UNCHANGED <<wiring, conn, event, result, told, expired, outages, abrupt, late>>

CannotStart(r) ==
  /\ call[r].pc = "starting" /\ call[r].at = Mux /\ ~CanSubscribe
  /\ Set(r, [call[r] EXCEPT !.pc = "aborting", !.result = "startFailed"])
  /\ UNCHANGED <<GroupFields, mu, Components, Failures, faults, serviceVars>>

Stopping(r, i) == call[r].pc = "walking" /\ call[r].at = i

(* Mux.Stop, which drains the subscription.                                 *)
MuxStopBegins(r) ==
  /\ Stopping(r, Mux)
  /\ \/ sub = "running" /\ sub' = "ending"
     \/ sub = "died" /\ wiring.subscription # "core" /\ sub' = "ended"
  /\ UNCHANGED <<groupVars, wiring, conn, event, result, told, expired, outages, abrupt, late>>

(* Mutant: it does not wait for the drain. *)
MuxStopsAtOnce(r) ==
  /\ Stopping(r, Mux) /\ sub # "running"
  /\ WalkStep(r)
  /\ Mux \in up' => expired \/ sub = "died"
  /\ UNCHANGED serviceVars

(* It fails when its context ends, and when core NATS has nothing to drain. *)
MuxStops(r) ==
  /\ Stopping(r, Mux) /\ sub # "running"
  /\ WalkStep(r)
  /\ IF Mux \in up' THEN expired \/ sub = "died" ELSE sub = "ended"
  /\ UNCHANGED serviceVars

(* Conn.Stop, which drains the connection.  One that is reconnecting closes *)
(* instead, and one that is closed has nothing to drain.                    *)
ConnStopBegins(r) ==
  /\ Stopping(r, Connection)
  /\ \/ conn = "open" /\ conn' = "draining" /\ UNCHANGED <<event, result, abrupt>>
     \/ conn = "reconnecting" /\ ClosesAbruptly
  /\ UNCHANGED <<groupVars, wiring, sub, told, expired, outages, late>>

(* Mutant: Drain returns before the drain is over. *)
ConnStopsAtOnce(r) ==
  /\ Stopping(r, Connection) /\ conn \in {"draining", "closed"}
  /\ WalkStep(r)
  /\ Connection \in up' => expired
  /\ UNCHANGED serviceVars

(* waitClosed.                                                              *)
ConnStops(r) ==
  /\ Stopping(r, Connection) /\ conn \in {"draining", "closed"}
  /\ WalkStep(r)
  /\ IF Connection \in up' THEN expired ELSE conn = "closed"
  /\ UNCHANGED serviceVars

(* shutdownTimeout, of all the Stops together.                              *)
TimeRunsOut ==
  /\ ~expired /\ \E r \in Runs : call[r].pc = "walking"
  /\ expired' = TRUE
  /\ UNCHANGED <<groupVars, wiring, conn, sub, event, result, told, outages, abrupt, late>>

-----------------------------------------------------------------------------
RunStep(r) ==
  \/ Starting(r) \/ CannotStart(r)
  \/ MuxStopBegins(r) \/ MuxStops(r) \/ ConnStopBegins(r) \/ ConnStops(r)
  \/ /\ \/ StartBegins(r) \/ ComponentStartFails(r) \/ Account(r) \/ AbortStart(r)
        \/ Stop(r) \/ WalkEnds(r) \/ RunWaits(r) \/ RunStartFailed(r) \/ RunReturns(r)
     /\ UNCHANGED serviceVars

Handle(m) == Published(m) \/ PublishFails(m) \/ Acks(m)

ServiceNext ==
  \/ \E r \in Runs : RunStep(r) \/ Tells(r)
  \/ \E r \in Runs : (OnFatal(r) \/ ContextEnds(r)) /\ UNCHANGED serviceVars
  \/ \E m \in Events : Delivered(m) \/ Handle(m) \/ Flushed(m)
  \/ Disconnects \/ Reconnects \/ ClosesForGood \/ DrainEnds
  \/ SubscriptionDies \/ SubscriptionEnds \/ TimeRunsOut

ServiceSpec == ServiceInit /\ [][ServiceNext]_allVars

(* Every goroutine runs on, handlers return, and a connection that is up    *)
(* writes what it has.  Nothing makes a connection come back.               *)
ServiceFairSpec ==
  /\ ServiceSpec
  /\ \A r \in Runs :
       /\ WF_allVars(RunStep(r)) /\ WF_allVars(Tells(r))
       /\ WF_allVars(OnFatal(r) /\ UNCHANGED serviceVars)
  /\ \A m \in Events : WF_allVars(Handle(m)) /\ WF_allVars(Flushed(m))
  /\ WF_allVars(DrainEnds) /\ WF_allVars(SubscriptionEnds)

-----------------------------------------------------------------------------
ServiceTypeOK ==
  /\ TypeOK /\ size = N
  /\ wiring \in [subscription : Subscriptions, confirmed : BOOLEAN]
  /\ conn \in {"open", "reconnecting", "draining", "closed"}
  /\ sub \in {"idle", "running", "ending", "ended", "died"}
  /\ event \in [Events -> {"held", "handling", "settling", "acking", "acked", "gone"}]
  /\ result \in [Events -> {"none", "buffered", "sent", "lost"}]
  /\ told \in BOOLEAN /\ expired \in BOOLEAN /\ abrupt \in BOOLEAN /\ late \in BOOLEAN
  /\ outages \in 0 .. MaxOutages

(* A Run that started everything and answers nil left nothing behind: the   *)
(* connection is closed and, when it could be drained, no handler runs, and *)
(* the result of every event the broker let go of is at the server.  It is  *)
(* the order of Add, and that both Stops wait for their drain.              *)
CleanShutdown ==
  \A r \in Runs : call[r].answer = "nil" /\ call[r].result = "ok" =>
    /\ conn = "closed"
    /\ ~abrupt => InFlight = {} /\ \A m \in Events : event[m] = "acked" => result[m] = "sent"

(* No handler finds the connection gone because of a shutdown that was in   *)
(* time, whatever the workers are at when it begins (Group.stopLocked).     *)
PublishFindsConnection == late => abrupt \/ expired

(* A subscription that died ends the process, through the mux and the group *)
(* and in the middle of whatever they are doing, so that somebody restarts  *)
(* it (Mux.subscriptionFailed, Group.run).  Core NATS does not say so.      *)
DeadSubscriptionEndsRun ==
  \A r \in Runs : sub = "died" /\ wiring.subscription # "core" ~> call[r].pc = "done"

=============================================================================
