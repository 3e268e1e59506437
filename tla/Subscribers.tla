---------------------------- MODULE Subscribers -----------------------------
(***************************************************************************)
(* The Start, Stop and receive goroutines of the broker subscribers         *)
(* (pkg/transport): SQS, Pub/Sub, JetStream, core NATS and HTTP, one of     *)
(* which is chosen in the initial state.                                    *)
(*                                                                         *)
(* A call is one goroutine inside one call of Start or Stop.  A run is what *)
(* a successful Start set up; its handle (cancel and done, the              *)
(* ConsumeContext and stopping, the NATS subscription, or the HTTP handler) *)
(* stays in the subscriber until a Stop has waited for the run to be done;  *)
(* HTTP does not wait.  A run calls the handler from its slots: the polling *)
(* workers of SQS, the callbacks of the SDK or the requests of the server   *)
(* otherwise.  The SDKs and the HTTP server are external.                   *)
(***************************************************************************)
EXTENDS Naturals, FiniteSets

CONSTANTS
  Kinds,       \* the subscribers to choose from
  Starts,      \* calls of Start
  Stops,       \* calls of Stop
  Slots,       \* concurrent handlers of a run: SQS ConsumeWorkers
  Nobody,      \* no call
  MaxRuns,     \* bound: runs
  MaxMessages, \* bound: messages of a run
  MaxFaults    \* bound: failures of a set-up, a receive or a connection

Calls == Starts \cup Stops
Runs == 1 .. MaxRuns

ASSUME SubscribersAssumption ==
  /\ Kinds \subseteq {"sqs", "pubsub", "jetstream", "core", "http"}
  /\ Starts \cap Stops = {} /\ Nobody \notin Calls
  /\ IsFiniteSet(Slots)
  /\ MaxRuns \in Nat /\ MaxMessages \in Nat /\ MaxFaults \in Nat

VARIABLES
  kind,
  handle,    \* the run the subscriber holds, 0 for none
  draining,  \* core: Subscriber.draining
  ending,    \* runs told to end: cancel(), close(stopping) and Drain(), Drain()
  done,      \* runs that are done: done closed, Closed(), not IsValid()
  runs,      \* runs so far
  slot,      \* what each slot of each run does
  got,       \* messages each run received
  watcher,   \* the goroutine of a run that may call onError
  asks,      \* the Stop an onError is inside of
  call,      \* where each call stands
  died,      \* history: runs that ended without having been told to
  told,      \* history: runs onError was called for
  loose,     \* history: runs nobody waits for: HTTP, a closed connection
  faults

vars == <<kind, handle, draining, ending, done, runs, slot, got, watcher, asks,
          call, died, told, loose, faults>>

SlotStates == {"off", "idle", "polling", "handling", "sleeping"}
WatcherStates == {"off", "receiving", "closing", "checking", "telling", "over"}

Call == [pc : {"ready", "cancelling", "waiting", "clearing", "done"},
         run : 0 .. MaxRuns,
         answer : {"none", "nil", "error"}]

Init ==
  /\ kind \in Kinds
  /\ handle = 0 /\ draining = FALSE /\ ending = {} /\ done = {} /\ runs = 0
  /\ slot = [r \in Runs |-> [s \in Slots |-> [pc |-> "off", hand |-> 0]]]
  /\ got = [r \in Runs |-> 0]
  /\ watcher = [r \in Runs |-> "off"]
  /\ asks = [r \in Runs |-> Nobody]
  /\ call = [c \in Calls |-> [pc |-> "ready", run |-> 0, answer |-> "none"]]
  /\ died = {} /\ told = {} /\ loose = {}
  /\ faults = 0

Set(c, pc, r, answer) ==
  call' = [call EXCEPT ![c] = [pc |-> pc, run |-> r, answer |-> answer]]

SetSlot(r, s, pc, hand) == slot' = [slot EXCEPT ![r][s] = [pc |-> pc, hand |-> hand]]

SetWatcher(r, state) == watcher' = [watcher EXCEPT ![r] = state]

Fault == faults < MaxFaults /\ faults' = faults + 1

Subscriber == <<handle, draining>>
RunFields == <<ending, done, runs, slot, got, watcher, asks>>
History == <<died, told, loose>>

-----------------------------------------------------------------------------
(* Start, under the lock from beginning to end.                             *)

StartRefused(c) ==
  /\ call[c].pc = "ready"
  /\ handle # 0
  /\ Set(c, "done", 0, "error")
  /\ UNCHANGED <<kind, Subscriber, RunFields, History, faults>>

(* GetQueueUrl, GetSubscription, CreateConsumer or Subscribe fails.         *)
StartFails(c) ==
  /\ call[c].pc = "ready"
  /\ handle = 0
  /\ Set(c, "done", 0, "error")
  /\ Fault
  /\ UNCHANGED <<kind, Subscriber, RunFields, History>>

StartSucceeds(c) ==
  LET r == runs + 1
  IN  /\ call[c].pc = "ready"
      /\ handle = 0
      /\ r <= MaxRuns
      /\ runs' = r /\ handle' = r
      /\ slot' = [slot EXCEPT ![r] = [s \in Slots |-> [pc |-> "idle", hand |-> 0]]]
      /\ SetWatcher(r, IF kind \in {"pubsub", "jetstream"} THEN "receiving" ELSE "off")
      /\ Set(c, "done", r, "nil")
      /\ loose' = IF kind = "http" THEN loose \cup {r} ELSE loose
      /\ UNCHANGED <<kind, draining, ending, done, got, asks, died, told, faults>>

-----------------------------------------------------------------------------
(* Stop.  It reads the handle under the lock, ends the run, waits for it    *)
(* without the lock, and clears the handle under the lock.                  *)

(* Core NATS writes draining in the same breath.                            *)
StopWithoutStart(c) ==
  /\ call[c].pc = "ready"
  /\ handle = 0
  /\ Set(c, "done", 0, "nil")
  /\ draining' = FALSE
  /\ UNCHANGED <<kind, handle, RunFields, History, faults>>

(* HTTP swaps the handler out: requests that loaded it go on.               *)
StopSwaps(c) ==
  /\ kind = "http"
  /\ call[c].pc = "ready"
  /\ handle # 0
  /\ handle' = 0 /\ ending' = ending \cup {handle} /\ done' = done \cup {handle}
  /\ Set(c, "done", handle, "nil")
  /\ UNCHANGED <<kind, draining, runs, slot, got, watcher, asks, History, faults>>

(* SQS and Pub/Sub read cancel and done, and cancel without the lock.       *)
StopReads(c) ==
  /\ kind \in {"sqs", "pubsub"}
  /\ call[c].pc = "ready"
  /\ handle # 0
  /\ Set(c, "cancelling", handle, "none")
  /\ UNCHANGED <<kind, Subscriber, RunFields, History, faults>>

StopCancels(c) ==
  /\ kind \in {"sqs", "pubsub"}
  /\ call[c].pc = "cancelling"
  /\ ending' = ending \cup {call[c].run}
  /\ Set(c, "waiting", call[c].run, "none")
  /\ UNCHANGED <<kind, Subscriber, done, runs, slot, got, watcher, asks, History, faults>>

(* JetStream closes stopping and drains with the lock held.                 *)
StopDrainsConsumer(c) ==
  /\ kind = "jetstream"
  /\ call[c].pc = "ready"
  /\ handle # 0
  /\ ending' = ending \cup {handle}
  /\ Set(c, "waiting", handle, "none")
  /\ UNCHANGED <<kind, Subscriber, done, runs, slot, got, watcher, asks, History, faults>>

(* Core NATS drains once, without the lock; a later Stop only waits.        *)
StopMarksDraining(c) ==
  /\ kind = "core"
  /\ call[c].pc = "ready"
  /\ handle # 0
  /\ draining' = TRUE
  /\ Set(c, IF draining THEN "waiting" ELSE "cancelling", handle, "none")
  /\ UNCHANGED <<kind, handle, RunFields, History, faults>>

StopDrains(c) ==
  /\ kind = "core"
  /\ call[c].pc = "cancelling"
  /\ call[c].run \notin done
  /\ ending' = ending \cup {call[c].run}
  /\ Set(c, "waiting", call[c].run, "none")
  /\ UNCHANGED <<kind, Subscriber, done, runs, slot, got, watcher, asks, History, faults>>

(* The SDK refuses to drain what is closed already.                         *)
StopDrainRefused(c) ==
  /\ kind = "core"
  /\ call[c].pc = "cancelling"
  /\ call[c].run \in done
  /\ Set(c, "done", call[c].run, "error")
  /\ UNCHANGED <<kind, Subscriber, RunFields, History, faults>>

StopWaited(c) ==
  /\ call[c].pc = "waiting"
  /\ call[c].run \in done
  /\ Set(c, "clearing", call[c].run, "none")
  /\ UNCHANGED <<kind, Subscriber, RunFields, History, faults>>

(* Mutant: the handle is cleared although the run goes on. *)
StopExpiresCleared(c) ==
  /\ call[c].pc = "waiting"
  /\ Set(c, "done", call[c].run, "error")
  /\ handle' = 0
  /\ UNCHANGED <<kind, draining, RunFields, History, faults>>

(* The context of Stop ends first: the subscriber stays started.            *)
StopExpires(c) ==
  /\ call[c].pc = "waiting"
  /\ Set(c, "done", call[c].run, "error")
  /\ UNCHANGED <<kind, Subscriber, RunFields, History, faults>>

(* Mutant: the handle is cleared whatever run it stands for by now. *)
StopClearsAnyRun(c) ==
  /\ call[c].pc = "clearing"
  /\ handle' = 0 /\ draining' = FALSE
  /\ Set(c, "done", call[c].run, "nil")
  /\ UNCHANGED <<kind, RunFields, History, faults>>

(* Another Stop may have cleared it, and another Start replaced it.         *)
StopClears(c) ==
  /\ call[c].pc = "clearing"
  /\ IF handle = call[c].run THEN handle' = 0 /\ draining' = FALSE
     ELSE UNCHANGED Subscriber
  /\ Set(c, "done", call[c].run, "nil")
  /\ UNCHANGED <<kind, RunFields, History, faults>>

-----------------------------------------------------------------------------
(* The SQS workers.                                                         *)

SlotStep(r, s, from, to, hand) ==
  /\ slot[r][s].pc = from
  /\ SetSlot(r, s, to, hand)
  /\ UNCHANGED <<kind, Subscriber, ending, done, runs, watcher, asks, call, History>>

(* worker, at the top of its loop and while it backs off.                   *)
WorkerExits(r, s) ==
  /\ kind = "sqs" /\ r \in ending
  /\ SlotStep(r, s, "idle", "off", 0) \/ SlotStep(r, s, "sleeping", "off", 0)
  /\ UNCHANGED <<got, faults>>

WorkerPolls(r, s) ==
  /\ kind = "sqs" /\ r \notin ending
  /\ SlotStep(r, s, "idle", "polling", 0)
  /\ UNCHANGED <<got, faults>>

(* receiveBatch: nothing arrived, or the run was cancelled.                 *)
PollIsEmpty(r, s) ==
  /\ kind = "sqs"
  /\ SlotStep(r, s, "polling", "idle", 0)
  /\ UNCHANGED <<got, faults>>

PollFails(r, s) ==
  /\ kind = "sqs"
  /\ SlotStep(r, s, "polling", "sleeping", 0)
  /\ Fault /\ UNCHANGED got

WorkerWakes(r, s) ==
  /\ kind = "sqs"
  /\ SlotStep(r, s, "sleeping", "idle", 0)
  /\ UNCHANGED <<got, faults>>

(* A batch may arrive although the run was just cancelled.                  *)
BatchArrives(r, s, n) ==
  /\ kind = "sqs"
  /\ got[r] + n <= MaxMessages
  /\ got' = [got EXCEPT ![r] = @ + n]
  /\ SlotStep(r, s, "polling", "handling", n)
  /\ UNCHANGED faults

(* The handler returns: the next message of the batch, or the next poll.    *)
HandlerReturns(r, s) ==
  LET hand == slot[r][s].hand - 1
  IN  /\ SlotStep(r, s, "handling", IF hand > 0 THEN "handling" ELSE "idle", hand)
      /\ UNCHANGED <<got, faults>>

WorkersGone(r) ==
  /\ kind = "sqs"
  /\ r \in 1 .. runs \ done
  /\ \A s \in Slots : slot[r][s].pc = "off"
  /\ done' = done \cup {r}
  /\ UNCHANGED <<kind, Subscriber, ending, runs, slot, got, watcher, asks, call,
                 History, faults>>

-----------------------------------------------------------------------------
(* The SDKs (external).                                                     *)

Sdk(r) == kind # "sqs" /\ r \in 1 .. runs \ done

Handling(r) == {s \in Slots : slot[r][s].pc = "handling"}

(* JetStream and core NATS run one callback at a time.  Buffered messages   *)
(* still arrive while a subscription drains.                                *)
MessageArrives(r, s) ==
  /\ Sdk(r) /\ watcher[r] \in {"off", "receiving"}
  /\ kind \in {"jetstream", "core"} => Handling(r) = {}
  /\ got[r] < MaxMessages
  /\ got' = [got EXCEPT ![r] = @ + 1]
  /\ SlotStep(r, s, "idle", "handling", 1)
  /\ UNCHANGED faults

(* Nothing ends a run but a Stop, or a failure of the broker.               *)
EndsOrFails(r) ==
  IF r \in ending THEN UNCHANGED <<died, faults>>
  ELSE died' = died \cup {r} /\ Fault

(* Pub/Sub: Receive returns, after the last callback.                       *)
ReceiveReturns(r) ==
  /\ kind = "pubsub" /\ Sdk(r) /\ watcher[r] = "receiving"
  /\ Handling(r) = {}
  /\ EndsOrFails(r)
  /\ SetWatcher(r, "closing")
  /\ UNCHANGED <<kind, Subscriber, ending, done, runs, slot, got, asks, call, told, loose>>

(* JetStream: the ConsumeContext closes, after the last callback.           *)
ConsumerCloses(r) ==
  /\ kind = "jetstream" /\ Sdk(r)
  /\ Handling(r) = {}
  /\ EndsOrFails(r)
  /\ done' = done \cup {r}
  /\ SetWatcher(r, "checking")
  /\ UNCHANGED <<kind, Subscriber, ending, runs, slot, got, asks, call, told, loose>>

(* Core NATS: the drain is over.                                            *)
DrainEnds(r) ==
  /\ kind = "core" /\ Sdk(r)
  /\ r \in ending /\ Handling(r) = {}
  /\ done' = done \cup {r}
  /\ UNCHANGED <<kind, Subscriber, ending, runs, slot, got, watcher, asks, call,
                 History, faults>>

(* Core NATS: whoever owns the connection closes it, or it is loose.         *)
ConnectionCloses(r) ==
  /\ kind = "core" /\ Sdk(r)
  /\ done' = done \cup {r}
  /\ loose' = loose \cup {r}
  /\ died' = died \cup {r}
  /\ Fault
  /\ UNCHANGED <<kind, Subscriber, ending, runs, slot, got, watcher, asks, call, told>>

-----------------------------------------------------------------------------
(* The goroutine that reports a failure.                                    *)

WatcherStep(r, from, to) ==
  /\ watcher[r] = from
  /\ SetWatcher(r, to)
  /\ UNCHANGED <<kind, Subscriber, ending, runs, slot, got, call, died, loose, faults>>

(* Mutant: done is closed once onError has returned. *)
ClosesDoneLate(r) ==
  /\ kind = "pubsub"
  /\ WatcherStep(r, "closing", "checking")
  /\ UNCHANGED <<done, asks, told>>

(* Pub/Sub: close(done), before onError.                                    *)
ClosesDone(r) ==
  /\ kind = "pubsub"
  /\ WatcherStep(r, "closing", "checking")
  /\ done' = done \cup {r}
  /\ UNCHANGED <<asks, told>>

(* Mutant: the cancelled context is not looked at. *)
FindsStopAsFailure(r) ==
  /\ r \in ending
  /\ WatcherStep(r, "checking", "telling")
  /\ told' = told \cup {r}
  /\ UNCHANGED <<done, asks>>

(* receiveOutcome, and the select on stopping: a Stop is not a failure.     *)
FindsStop(r) ==
  /\ r \in ending
  /\ WatcherStep(r, "checking", "over")
  /\ UNCHANGED <<done, asks, told>>

(* Mutant: the failure is dropped. *)
FindsFailureQuietly(r) ==
  /\ r \notin ending
  /\ WatcherStep(r, "checking", "over")
  /\ UNCHANGED <<done, asks, told>>

FindsFailure(r) ==
  /\ r \notin ending
  /\ WatcherStep(r, "checking", "telling")
  /\ told' = told \cup {r}
  /\ UNCHANGED <<done, asks>>

(* onError returns, at once or after a Stop of its own has returned.        *)
OnErrorReturns(r) ==
  /\ IF asks[r] = Nobody THEN TRUE ELSE call[asks[r]].pc = "done"
  /\ WatcherStep(r, "telling", "over")
  /\ UNCHANGED <<asks, done, told>>

OnErrorStops(r, c) ==
  /\ watcher[r] = "telling" /\ asks[r] = Nobody
  /\ call[c].pc = "ready"
  /\ asks' = [asks EXCEPT ![r] = c]
  /\ UNCHANGED <<kind, Subscriber, ending, done, runs, slot, got, watcher, call,
                 History, faults>>

-----------------------------------------------------------------------------
StartStep(c) == StartRefused(c) \/ StartFails(c) \/ StartSucceeds(c)

(* Every step of a Stop but the end of its context.                         *)
StopStep(c) ==
  \/ StopWithoutStart(c) \/ StopSwaps(c) \/ StopReads(c) \/ StopCancels(c)
  \/ StopDrainsConsumer(c) \/ StopMarksDraining(c) \/ StopDrains(c) \/ StopDrainRefused(c)
  \/ StopWaited(c) \/ StopClears(c)

SlotWork(r, s) ==
  \/ WorkerExits(r, s) \/ WorkerPolls(r, s) \/ WorkerWakes(r, s)
  \/ PollIsEmpty(r, s) \/ PollFails(r, s)
  \/ \E n \in 1 .. 2 : BatchArrives(r, s, n)
  \/ HandlerReturns(r, s)

RunWork(r) ==
  \/ WorkersGone(r) \/ DrainEnds(r)
  \/ ClosesDone(r) \/ FindsStop(r) \/ FindsFailure(r) \/ OnErrorReturns(r)

RunEnds(r) == ReceiveReturns(r) \/ ConsumerCloses(r)

Next ==
  \/ \E c \in Starts : StartStep(c)
  \/ \E c \in Stops : StopStep(c) \/ StopExpires(c)
  \/ \E r \in Runs, s \in Slots : SlotWork(r, s) \/ MessageArrives(r, s)
  \/ \E r \in Runs : RunWork(r) \/ RunEnds(r) \/ ConnectionCloses(r)
  \/ \E r \in Runs, c \in Stops : OnErrorStops(r, c)

Spec == Init /\ [][Next]_vars

(* Goroutines run, handlers return, and an SDK ends a run it was told to    *)
(* end.  Nothing makes the context of a Stop end.                           *)
FairSpec ==
  /\ Spec
  /\ \A c \in Stops : WF_vars(StopStep(c))
  /\ \A r \in Runs : WF_vars(RunWork(r)) /\ WF_vars(r \in ending /\ RunEnds(r))
  /\ \A r \in Runs, s \in Slots : WF_vars(SlotWork(r, s))

-----------------------------------------------------------------------------
TypeOK ==
  /\ kind \in Kinds
  /\ handle \in 0 .. runs /\ draining \in BOOLEAN /\ runs \in 0 .. MaxRuns
  /\ ending \subseteq 1 .. runs /\ done \subseteq 1 .. runs
  /\ slot \in [Runs -> [Slots -> [pc : SlotStates, hand : 0 .. MaxMessages]]]
  /\ got \in [Runs -> 0 .. MaxMessages]
  /\ watcher \in [Runs -> WatcherStates]
  /\ asks \in [Runs -> Stops \cup {Nobody}]
  /\ call \in [Calls -> Call]
  /\ died \subseteq 1 .. runs /\ told \subseteq 1 .. runs /\ loose \subseteq 1 .. runs
  /\ faults \in 0 .. MaxFaults

(* A run the subscriber no longer holds is over: it receives nothing and no *)
(* handler of it is in flight, so two runs never deliver at once and a Stop *)
(* that returned nil has drained.  Whatever the order of Stops, expired or  *)
(* not, and Starts.  Two kinds of run may leave handlers behind: HTTP's,    *)
(* and a core NATS one whose connection closed, which the SDK calls invalid *)
(* at once.                                                                 *)
QuietOnceReleased ==
  \A r \in 1 .. runs \ {handle} :
    r \in done /\ (Handling(r) = {} \/ r \in loose)

(* onError hears of runs that failed, never of a run a Stop ended, however  *)
(* the failure and the Stop race (receiveOutcome; the JetStream watcher).   *)
OnlyFailuresTold == told \subseteq died

(* A Stop returns once the handlers in flight have, without its context     *)
(* ending: also one called from inside onError, and also one that follows a *)
(* Stop whose context had ended (Stop; "close it before onError").          *)
StopReturns ==
  \A c \in Stops :
    (call[c].pc # "ready" \/ \E r \in Runs : asks[r] = c) ~> (call[c].pc = "done")

(* A failure is told to onError unless a Stop came first.                   *)
FailuresTold ==
  kind \in {"pubsub", "jetstream"} =>
    \A r \in Runs : (r \in died) ~> (r \in told \cup ending)

(* All five are a Subscription.                                             *)
Phase ==
  IF handle = 0 THEN "stopped"
  ELSE IF handle \in ending \/ draining THEN "stopping" ELSE "running"

InFlight == {rs \in Runs \X Slots : rs[2] \in Handling(rs[1])}

Contract == INSTANCE Subscription WITH
  run <- runs, phase <- Phase, busy <- Cardinality(InFlight),
  loose <- kind = "http" \/ loose # {}

KeepsContract == Contract!Spec

=============================================================================
