--------------------------- MODULE LifecycleGroup ---------------------------
(***************************************************************************)
(* lifecycle.Group (pkg/kit/lifecycle/group.go): components started in Add  *)
(* order and stopped in reverse, by any number of goroutines at once.      *)
(*                                                                         *)
(* A call is one goroutine inside one call of Start, Stop or Run.  Group.mu *)
(* is held for the whole of a walk that stops components, and released      *)
(* while a component starts: a Stop can run in the middle of a Start.      *)
(* Components are external: Component.Start and Component.Stop return, with *)
(* or without an error, and a component may report a failure to the closure *)
(* its Start was given for as long as it keeps it.                          *)
(***************************************************************************)
EXTENDS Integers, FiniteSets

CONSTANTS
  N,          \* bound: members of the group, numbered in Add order
  Starts,     \* calls of Start
  Stops,      \* calls of Stop
  Runs,       \* calls of Run: Start, a wait, Stop
  Nobody,     \* the holder of a free mutex
  Overlap,    \* may a Start begin before an earlier one has returned?
  MaxFaults   \* bound: component calls that fail, failures reported

Calls == Starts \cup Stops \cup Runs
Starters == Starts \cup Runs

ASSUME GroupAssumption ==
  /\ N \in Nat \ {0}
  /\ Nobody \notin Calls
  /\ Starts \cap Stops = {} /\ Starts \cap Runs = {} /\ Stops \cap Runs = {}
  /\ Overlap \in BOOLEAN
  /\ MaxFaults \in Nat

VARIABLES
  size,      \* len(Group.members)
  started,   \* Group.started
  running,   \* Group.running
  stopping,  \* Group.stopping
  mu,        \* who holds Group.mu while components stop
  up,        \* the components that are up
  stuck,     \* those whose last Stop returned an error
  given,     \* closures of Start a component keeps
  call,      \* where each call stands
  reports,   \* closures past the check of stopping, about to call onFatal
  fired,     \* closures whose sync.Once is spent: onFatal was called
  ended,     \* calls of Run whose context has ended
  faults

vars == <<size, started, running, stopping, mu, up, stuck, given, call, reports,
          fired, ended, faults>>

Members == 1 .. N

Places == {"ready", "starting", "accounting", "unaccounted", "aborting",
           "walking", "returned", "waiting", "stopped", "done"}

Results == {"none", "ok", "alreadyStarted", "startFailed", "stoppedDuringStart"}

Call == [pc : Places,
         of : 0 .. N,            \* the members Start cloned
         at : Nat,               \* the member being started or stopped
         result : Results,       \* what Start returned
         stopErr : BOOLEAN,      \* a Component.Stop it called failed
         answer : {"none", "nil", "error", "failure"},  \* what Run returned
         cut : BOOLEAN]          \* history: a Stop ran while a member was starting

Ready == [pc |-> "ready", of |-> 0, at |-> 0, result |-> "none", stopErr |-> FALSE,
          answer |-> "none", cut |-> FALSE]

Init ==
  /\ size \in 0 .. N
  /\ started = FALSE /\ running = 0 /\ stopping = FALSE
  /\ mu = Nobody
  /\ up = {} /\ stuck = {}
  /\ given = [i \in Members |-> {}]
  /\ call = [c \in Calls |-> Ready]
  /\ reports = {} /\ fired = {} /\ ended = {}
  /\ faults = 0

Set(c, new) == call' = [call EXCEPT ![c] = new]

GroupFields == <<size, started, running, stopping>>
Components == <<up, stuck, given>>
Failures == <<reports, fired, ended>>

Fault == faults < MaxFaults /\ faults' = faults + 1

StartReturns(k, result) == [k EXCEPT !.pc = "returned", !.result = result]

-----------------------------------------------------------------------------
(* Add panics once the group is started.                                    *)
Add ==
  /\ ~started /\ mu = Nobody
  /\ size < N
  /\ size' = size + 1
  /\ UNCHANGED <<started, running, stopping, mu, Components, call, Failures, faults>>

(* Start                                                                    *)

InStart(c) == call[c].pc \in {"starting", "accounting", "unaccounted", "aborting"}

StartRefused(c) ==
  /\ call[c].pc = "ready" /\ mu = Nobody
  /\ started
  /\ Set(c, StartReturns(call[c], "alreadyStarted"))
  /\ UNCHANGED <<GroupFields, mu, Components, Failures, faults>>

(* The loop over the members cloned: the next one, or Start has returned.   *)
NextMember(k) ==
  IF k.at = k.of THEN StartReturns(k, "ok")
  ELSE [k EXCEPT !.pc = "starting", !.at = @ + 1]

(* Overlap is up to the callers: nothing in the code forbids it.            *)
StartBegins(c) ==
  /\ call[c].pc = "ready" /\ mu = Nobody
  /\ ~started
  /\ Overlap \/ \A d \in Calls : ~InStart(d)
  /\ started' = TRUE /\ running' = 0 /\ stopping' = FALSE
  /\ Set(c, NextMember([call[c] EXCEPT !.of = size]))
  /\ UNCHANGED <<size, mu, Components, Failures, faults>>

(* Component.Start, outside the lock.  It is handed report(m.name).         *)
ComponentStarts(c) ==
  LET i == call[c].at
  IN  /\ call[c].pc = "starting"
      /\ up' = up \cup {i}
      /\ given' = [given EXCEPT ![i] = @ \cup {c}]
      /\ Set(c, [call[c] EXCEPT !.pc = "accounting"])
      /\ UNCHANGED <<GroupFields, mu, stuck, Failures, faults>>

(* One that is still up may answer ErrAlreadyStarted; a Closer never does.  *)
ComponentStartFails(c) ==
  /\ call[c].pc = "starting"
  /\ IF call[c].at \in up THEN UNCHANGED faults ELSE Fault
  /\ Set(c, [call[c] EXCEPT !.pc = "aborting", !.result = "startFailed"])
  /\ UNCHANGED <<GroupFields, mu, Components, Failures>>

(* Mutant: started is not read again. *)
AccountBlindly(c) ==
  /\ call[c].pc = "accounting" /\ mu = Nobody
  /\ running' = running + 1
  /\ Set(c, NextMember(call[c]))
  /\ UNCHANGED <<size, started, stopping, mu, Components, Failures, faults>>

Account(c) ==
  /\ call[c].pc = "accounting" /\ mu = Nobody
  /\ started
  /\ running' = running + 1
  /\ Set(c, NextMember(call[c]))
  /\ UNCHANGED <<size, started, stopping, mu, Components, Failures, faults>>

(* Stop ran while the member was starting.                                  *)
FoundStopped(c) ==
  /\ call[c].pc = "accounting" /\ mu = Nobody
  /\ ~started
  /\ Set(c, [call[c] EXCEPT !.pc = "unaccounted"])
  /\ UNCHANGED <<GroupFields, mu, Components, Failures, faults>>

(* Component.Stop: it ends down, or returns an error and stays up.          *)
ComponentStops(i) == up' = up \ {i} /\ stuck' = stuck \ {i} /\ UNCHANGED faults
ComponentStopFails(i) == i \in up /\ stuck' = stuck \cup {i} /\ UNCHANGED up /\ Fault

StopUnaccounted(c) ==
  LET i == call[c].at
      k == StartReturns(call[c], "stoppedDuringStart")
  IN  /\ call[c].pc = "unaccounted"
      /\ \/ ComponentStops(i) /\ Set(c, k)
         \/ ComponentStopFails(i) /\ Set(c, [k EXCEPT !.stopErr = TRUE])
      /\ UNCHANGED <<GroupFields, mu, given, Failures>>

-----------------------------------------------------------------------------
(* stopLocked: every member counted in running, last first, under the lock. *)

(* A Start in the middle of a Component.Start is cut short.                 *)
WalkBegins(c) ==
  /\ mu = Nobody
  /\ mu' = c
  /\ stopping' = TRUE
  /\ call' = [d \in Calls |->
       IF d = c THEN [call[c] EXCEPT !.pc = "walking", !.at = running]
       ELSE IF call[d].pc = "starting" THEN [call[d] EXCEPT !.cut = TRUE]
       ELSE call[d]]
  /\ UNCHANGED <<size, started, running, Components, Failures, faults>>

AbortStart(c) == call[c].pc = "aborting" /\ WalkBegins(c)

(* Mutant: it starts with the first member. *)
WalkStepForwards(c) ==
  LET i == running + 1 - call[c].at
  IN  /\ call[c].pc = "walking" /\ call[c].at > 0
      /\ \/ ComponentStops(i) /\ Set(c, [call[c] EXCEPT !.at = @ - 1])
         \/ ComponentStopFails(i) /\ Set(c, [call[c] EXCEPT !.at = @ - 1, !.stopErr = TRUE])
      /\ UNCHANGED <<GroupFields, mu, given, Failures>>

WalkStep(c) ==
  LET i == call[c].at
  IN  /\ call[c].pc = "walking" /\ i > 0
      /\ \/ ComponentStops(i) /\ Set(c, [call[c] EXCEPT !.at = i - 1])
         \/ ComponentStopFails(i) /\ Set(c, [call[c] EXCEPT !.at = i - 1, !.stopErr = TRUE])
      /\ UNCHANGED <<GroupFields, mu, given, Failures>>

AfterWalk(c) ==
  CASE call[c].result = "startFailed" -> "returned"
    [] call[c].result # "startFailed" /\ c \in Runs -> "stopped"
    [] OTHER -> "done"

(* Mutant: the lock is kept. *)
WalkEndsLocked(c) ==
  /\ call[c].pc = "walking" /\ call[c].at = 0
  /\ started' = FALSE /\ running' = 0
  /\ Set(c, [call[c] EXCEPT !.pc = AfterWalk(c)])
  /\ UNCHANGED <<size, mu, stopping, Components, Failures, faults>>

WalkEnds(c) ==
  /\ call[c].pc = "walking" /\ call[c].at = 0
  /\ started' = FALSE /\ running' = 0
  /\ mu' = Nobody
  /\ Set(c, [call[c] EXCEPT !.pc = AfterWalk(c)])
  /\ UNCHANGED <<size, stopping, Components, Failures, faults>>

(* Stop, called by a Stop or by a Run whose wait is over.                   *)
StopCalled(c) ==
  \/ c \in Stops /\ call[c].pc = "ready"
  \/ c \in Runs /\ call[c].pc = "waiting" /\ (c \in ended \/ c \in fired)

StopIdle(c) ==
  /\ StopCalled(c) /\ mu = Nobody
  /\ ~started
  /\ Set(c, [call[c] EXCEPT !.pc = AfterWalk(c)])
  /\ UNCHANGED <<GroupFields, mu, Components, Failures, faults>>

Stop(c) == StopCalled(c) /\ started /\ WalkBegins(c)

-----------------------------------------------------------------------------
(* The closure report(m.name): it reads stopping, then spends the once.     *)

Report(i, c) ==
  /\ c \in given[i] /\ c \notin reports /\ c \notin fired
  /\ ~stopping
  /\ reports' = reports \cup {c}
  /\ Fault
  /\ UNCHANGED <<GroupFields, mu, Components, call, fired, ended>>

OnFatal(c) ==
  /\ c \in reports
  /\ reports' = reports \ {c}
  /\ fired' = fired \cup {c}
  /\ UNCHANGED <<GroupFields, mu, Components, call, ended, faults>>

-----------------------------------------------------------------------------
(* run, around Start and Stop.                                              *)

StartDone(c) ==
  /\ c \in Starts /\ call[c].pc = "returned"
  /\ Set(c, [call[c] EXCEPT !.pc = "done"])
  /\ UNCHANGED <<GroupFields, mu, Components, Failures, faults>>

Answer(k, a) == [k EXCEPT !.pc = "done", !.answer = a]

RunWaits(c) ==
  /\ c \in Runs /\ call[c].pc = "returned"
  /\ call[c].result = "ok"
  /\ Set(c, [call[c] EXCEPT !.pc = "waiting"])
  /\ UNCHANGED <<GroupFields, mu, Components, Failures, faults>>

(* Mutant: the end of the context is looked at first. *)
RunStartFailedQuietly(c) ==
  /\ c \in Runs /\ call[c].pc = "returned"
  /\ call[c].result # "ok"
  /\ Set(c, Answer(call[c], IF c \in ended THEN "nil"
                            ELSE IF c \in fired THEN "failure" ELSE "error"))
  /\ UNCHANGED <<GroupFields, mu, Components, Failures, faults>>

RunStartFailed(c) ==
  /\ c \in Runs /\ call[c].pc = "returned"
  /\ call[c].result # "ok"
  /\ Set(c, Answer(call[c], IF c \in fired THEN "failure"
                            ELSE IF c \in ended THEN "nil" ELSE "error"))
  /\ UNCHANGED <<GroupFields, mu, Components, Failures, faults>>

RunReturns(c) ==
  /\ c \in Runs /\ call[c].pc = "stopped"
  /\ Set(c, Answer(call[c], IF c \in fired THEN "failure"
                            ELSE IF call[c].stopErr THEN "error" ELSE "nil"))
  /\ UNCHANGED <<GroupFields, mu, Components, Failures, faults>>

(* SIGINT, SIGTERM or the end of the context Run was given.                 *)
ContextEnds(c) ==
  /\ c \in Runs \ ended
  /\ ended' = ended \cup {c}
  /\ UNCHANGED <<GroupFields, mu, Components, call, reports, fired, faults>>

-----------------------------------------------------------------------------
StartStep(c) ==
  /\ c \in Starters
  /\ \/ StartRefused(c) \/ StartBegins(c)
     \/ ComponentStarts(c) \/ ComponentStartFails(c)
     \/ Account(c) \/ FoundStopped(c) \/ StopUnaccounted(c) \/ AbortStart(c)

Step(c) ==
  \/ StartStep(c)
  \/ Stop(c) \/ StopIdle(c) \/ WalkStep(c) \/ WalkEnds(c)
  \/ StartDone(c) \/ RunWaits(c) \/ RunStartFailed(c) \/ RunReturns(c)

Next ==
  \/ \E c \in Calls : Step(c) \/ OnFatal(c)
  \/ \E i \in Members, c \in Starters : Report(i, c)
  \/ \E c \in Runs : ContextEnds(c)
  \/ Add

Spec == Init /\ [][Next]_vars

(* Every goroutine runs on, and Component.Start and Stop return.            *)
FairSpec == Spec /\ \A c \in Calls : WF_vars(Step(c)) /\ WF_vars(OnFatal(c))

-----------------------------------------------------------------------------
TypeOK ==
  /\ size \in 0 .. N
  /\ started \in BOOLEAN /\ running \in Nat /\ stopping \in BOOLEAN
  /\ mu \in Calls \cup {Nobody}
  /\ up \subseteq Members /\ stuck \subseteq up
  /\ given \in [Members -> SUBSET Starters]
  /\ call \in [Calls -> Call]
  /\ reports \subseteq Starters /\ fired \subseteq Starters /\ ended \subseteq Runs
  /\ faults \in 0 .. MaxFaults

(* A call of Start between a Component.Start and the lock, where it finds   *)
(* out whether the member is to be stopped.                                 *)
InHand(i) == \E c \in Starters :
               call[c].pc \in {"accounting", "unaccounted"} /\ call[c].at = i

(* No component is left up with nobody to stop it: it is counted in running *)
(* for the next Stop, or in the hands of a Start that will stop it, or its  *)
(* own Stop failed.  Whatever the order of Start, Stop and failures (Start, *)
(* abortStart, stopUnaccounted, stopLocked).                                *)
Accounted ==
  \A i \in up : i \in stuck \/ InHand(i) \/ (started /\ i <= running)

(* A component is up only while everything added before it is: started      *)
(* after it and stopped before it (the package comment of lifecycle.go).    *)
(* The exceptions are a failed Stop, and the member that finished starting  *)
(* after a Stop, until stopUnaccounted.                                     *)
DependenciesUp ==
  \A j \in up : \A i \in 1 .. j - 1 : i \in up \/ j \in stuck \/ InHand(j)

(* A Start during which a Stop ran never reports success.                   *)
StopSeenByStart ==
  \A c \in Starters : call[c].cut => call[c].result # "ok"

(* Run answers with the failure a component reported, whatever ended it:    *)
(* its context, a Start that failed, or a Stop that failed.                 *)
FailureNotSwallowed ==
  [][\A c \in Runs :
       call[c].pc # "done" /\ call'[c].pc = "done" /\ c \in fired
         => call'[c].answer = "failure"]_vars

(* Every call of Start and Stop returns, and so does a Run whose context    *)
(* ended or one of whose components failed.                                 *)
CallsReturn ==
  /\ \A c \in Starts \cup Stops : <>(call[c].pc = "done")
  /\ \A c \in Runs : (c \in ended \cup reports \cup fired) ~> (call[c].pc = "done")

-----------------------------------------------------------------------------
(* What the comments say and the code does not keep.                        *)

(* group.go:183-185, 212: Run returns nil on a clean shutdown, a shutdown   *)
(* requested during startup included: Start stopped what it began.  That    *)
(* nil also hides a component whose Stop failed.                            *)
CleanRunStoppedAll ==
  \A c \in Runs : call[c].answer = "nil" => up = {}

=============================================================================
