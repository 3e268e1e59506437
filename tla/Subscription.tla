---------------------------- MODULE Subscription ----------------------------
(***************************************************************************)
(* What eventmux.Subscription promises the mux (pkg/eventmux/interfaces.go) *)
(* once Start has returned: messages reach the handler from the start of a  *)
(* run to its end; the run ends only when no handler is left in flight,     *)
(* unless the transport is loose: HTTP leaves its requests to the server,   *)
(* and a lost connection its callbacks to the SDK.  A failure that ends     *)
(* delivery, and is not a Stop, is told to onError at most once per run,    *)
(* and may be told late.                                                    *)
(***************************************************************************)
EXTENDS Naturals

VARIABLES
  run,     \* the runs started so far; the last one is the current one
  phase,   \* the current run: "stopped", "running" or "stopping"
  busy,    \* the handlers in flight
  died,    \* the runs whose delivery ended without a Stop
  told,    \* those onError was called for
  loose    \* a Stop may leave handlers in flight

vars == <<run, phase, busy, died, told, loose>>

Init ==
  /\ run = 0 /\ phase = "stopped" /\ busy = 0
  /\ died = {} /\ told = {} /\ loose \in BOOLEAN

Start ==
  /\ phase = "stopped"
  /\ run' = run + 1 /\ phase' = "running"
  /\ UNCHANGED <<busy, died, told, loose>>

HandlerCalled ==
  /\ phase # "stopped"
  /\ busy' = busy + 1
  /\ UNCHANGED <<run, phase, died, told, loose>>

HandlerReturns ==
  /\ busy > 0
  /\ busy' = busy - 1
  /\ UNCHANGED <<run, phase, died, told, loose>>

Die ==
  /\ phase # "stopped" /\ run \notin died
  /\ died' = died \cup {run}
  /\ loose' \in BOOLEAN /\ (loose => loose')
  /\ UNCHANGED <<run, phase, busy, told>>

Tell(r) ==
  /\ r \in died \ told
  /\ told' = told \cup {r}
  /\ UNCHANGED <<run, phase, busy, died, loose>>

StopBegins ==
  /\ phase = "running"
  /\ phase' = "stopping"
  /\ UNCHANGED <<run, busy, died, told, loose>>

(* A Stop that waits for no handler may be over as it begins.               *)
StopEnds ==
  /\ (phase = "stopping" /\ busy = 0) \/ (phase # "stopped" /\ loose)
  /\ phase' = "stopped"
  /\ UNCHANGED <<run, busy, died, told, loose>>

Next ==
  \/ Start \/ HandlerCalled \/ HandlerReturns \/ Die
  \/ \E r \in died : Tell(r)
  \/ StopBegins \/ StopEnds

Spec == Init /\ [][Next]_vars
=============================================================================
