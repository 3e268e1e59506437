------------------------- MODULE SubscribersProofs --------------------------
(***************************************************************************)
(* Subscribers keeps its invariants, and is a Subscription, for any number  *)
(* of calls, runs, concurrent handlers, messages and faults.                *)
(*                                                                         *)
(* The argument: a run is done only when no handler of it is in flight, or  *)
(* when it is loose; a Stop clears the handle of a run only once it is      *)
(* done; and so whatever is not done is the run the subscriber holds.       *)
(***************************************************************************)
EXTENDS Subscribers, FiniteSetTheorems, TLAPS

(* The runs that calls, slots and watchers are about have been started.     *)
Numbered ==
  /\ handle \in {0, runs}
  /\ \A c \in Calls : call[c].pc \in {"cancelling", "waiting", "clearing"} =>
       call[c].run \in 1 .. runs
  /\ \A r \in Runs : r > runs =>
       watcher[r] = "off" /\ \A s \in Slots : slot[r][s].pc = "off"
  /\ \A r \in Runs, s \in Slots : slot[r][s].pc = "handling" => slot[r][s].hand >= 1

(* A run that is done has no handler left, unless it is loose.              *)
DoneIsQuiet ==
  /\ \A r \in done : Handling(r) = {} \/ r \in loose
  /\ kind = "sqs" => \A r \in done, s \in Slots : slot[r][s].pc = "off"
  /\ kind = "http" => 1 .. runs \subseteq loose

(* The watcher gets past the receive once the last handler has returned,    *)
(* and when nobody told the run to end it has died.                         *)
Watched ==
  /\ kind = "sqs" => \A r \in Runs : watcher[r] = "off"
  /\ \A r \in Runs : watcher[r] = "closing" => Handling(r) = {}
  /\ \A r \in Runs : watcher[r] \in {"closing", "checking"} => r \in ending \cup died
  /\ kind = "core" => died \subseteq done

(* A Stop that is about to clear the handle has waited for its run.         *)
Waited ==
  \A c \in Calls : call[c].pc = "clearing" => call[c].run \in done

(* The run that a Stop waits for has been told to end.                      *)
Ending ==
  /\ draining => kind = "core" /\ handle # 0
  /\ \A c \in Calls : call[c].run = handle =>
       /\ call[c].pc \in {"waiting", "clearing"} => handle \in ending \/ draining
       /\ call[c].pc = "cancelling" /\ kind = "core" => draining

Typed == TypeOK /\ Numbered

Inv ==
  /\ Typed
  /\ DoneIsQuiet /\ Watched /\ Waited /\ Ending
  /\ QuietOnceReleased /\ OnlyFailuresTold

-----------------------------------------------------------------------------
(* Types.                                                                   *)

LEMMA InitTyped == Init => Typed
<1> SUFFICES ASSUME Init PROVE Typed
  OBVIOUS
<1>1. slot \in [Runs -> [Slots -> [pc : SlotStates, hand : 0 .. MaxMessages]]]
  BY SubscribersAssumption DEF Init, SlotStates
<1>2. call \in [Calls -> Call] /\ \A c \in Calls : call[c].pc = "ready"
  BY SubscribersAssumption DEF Init, Call
<1>3. TypeOK
  <2>1. handle = 0 /\ runs = 0 /\ handle \in 0 .. runs /\ runs \in 0 .. MaxRuns /\ faults \in 0 .. MaxFaults
    BY SubscribersAssumption DEF Init
  <2>2. /\ got \in [Runs -> 0 .. MaxMessages] /\ watcher \in [Runs -> WatcherStates]
        /\ asks \in [Runs -> Stops \cup {Nobody}]
    BY SubscribersAssumption DEF Init, WatcherStates
  <2>3. kind \in Kinds /\ draining = FALSE
        /\ ending = {} /\ done = {} /\ died = {} /\ told = {} /\ loose = {}
    BY DEF Init
  <2> QED BY <1>1, <1>2, <2>1, <2>2, <2>3 DEF TypeOK
<1>4. Numbered
  BY <1>2 DEF Init, Numbered, Runs
<1> QED BY <1>3, <1>4 DEF Typed

(* What Set leaves and what it changes.                                     *)
LEMMA SetCall ==
  ASSUME TypeOK, NEW c \in Calls, NEW r \in 0 .. MaxRuns,
         NEW pc \in {"ready", "cancelling", "waiting", "clearing", "done"},
         NEW a \in {"none", "nil", "error"}, Set(c, pc, r, a)
  PROVE  /\ call' \in [Calls -> Call]
         /\ call'[c].pc = pc /\ call'[c].run = r
         /\ \A d \in Calls \ {c} : call'[d] = call[d]
BY DEF TypeOK, Set, Call

LEMMA StartTyped ==
  ASSUME Typed, NEW c \in Starts, StartStep(c)
  PROVE  Typed'
<1> USE SubscribersAssumption DEF Typed, TypeOK, Numbered, Runs, Set, Call, Calls, Fault,
        Subscriber, RunFields, History, SetWatcher
<1>1. CASE StartRefused(c)
  BY <1>1 DEF StartRefused
<1>2. CASE StartFails(c)
  BY <1>2 DEF StartFails
<1>3. CASE StartSucceeds(c)
  <2>1. runs + 1 \in Runs /\ runs' = runs + 1
    BY <1>3 DEF StartSucceeds
  <2>2. slot' \in [Runs -> [Slots -> [pc : SlotStates, hand : 0 .. MaxMessages]]]
    BY <1>3, <2>1 DEF StartSucceeds, SlotStates
  <2>3. watcher' \in [Runs -> WatcherStates]
    BY <1>3 DEF StartSucceeds, WatcherStates
  <2>4. TypeOK'
    BY <1>3, <2>1, <2>2, <2>3 DEF StartSucceeds
  <2>5. Numbered'
    BY <1>3, <2>1 DEF StartSucceeds
  <2> QED BY <2>4, <2>5
<1> QED BY <1>1, <1>2, <1>3 DEF StartStep

(* Every step of a Stop sets its own call, to a run that has been started.  *)
LEMMA StopSets ==
  ASSUME Typed, NEW c \in Stops, StopStep(c) \/ StopExpires(c)
  PROVE  /\ UNCHANGED <<kind, runs, slot, got, watcher, asks, History, faults>>
         /\ call' \in [Calls -> Call]
         /\ call'[c].pc \in {"cancelling", "waiting", "clearing"} => call'[c].run \in 1 .. runs
         /\ \A d \in Calls \ {c} : call'[d] = call[d]
<1>1. c \in Calls /\ call[c] \in Call /\ call[c].run \in 0 .. MaxRuns /\ handle \in 0 .. MaxRuns
      /\ 0 \in 0 .. MaxRuns
  BY SubscribersAssumption DEF Typed, TypeOK, Calls, Call
<1>2. UNCHANGED <<kind, runs, slot, got, watcher, asks, History, faults>>
  BY DEF StopStep, StopWithoutStart, StopSwaps, StopReads, StopCancels, StopDrainsConsumer,
         StopMarksDraining, StopDrains, StopDrainRefused, StopWaited, StopClears, StopExpires,
         RunFields
<1>3. CASE StopWithoutStart(c) \/ StopSwaps(c) \/ StopDrainRefused(c) \/ StopExpires(c) \/ StopClears(c)
  <2>1. PICK r \in 0 .. MaxRuns, a \in {"none", "nil", "error"} : Set(c, "done", r, a)
    BY <1>1, <1>3 DEF StopWithoutStart, StopSwaps, StopDrainRefused, StopExpires, StopClears
  <2>2. call' \in [Calls -> Call] /\ call'[c].pc = "done" /\ \A d \in Calls \ {c} : call'[d] = call[d]
    BY <1>1, <2>1, SetCall DEF Typed
  <2> QED BY <1>2, <2>2
<1>4. CASE StopReads(c) \/ StopDrainsConsumer(c) \/ StopMarksDraining(c)
  <2>1. PICK pc \in {"cancelling", "waiting"} : Set(c, pc, handle, "none")
    BY <1>4 DEF StopReads, StopDrainsConsumer, StopMarksDraining
  <2>2. call' \in [Calls -> Call] /\ call'[c].run = handle /\ \A d \in Calls \ {c} : call'[d] = call[d]
    BY <1>1, <2>1, SetCall DEF Typed
  <2>3. handle \in 1 .. runs
    BY <1>4, SubscribersAssumption
       DEF StopReads, StopDrainsConsumer, StopMarksDraining, Typed, TypeOK
  <2> QED BY <1>2, <2>2, <2>3
<1>5. CASE StopCancels(c) \/ StopDrains(c) \/ StopWaited(c)
  <2>1. PICK pc \in {"waiting", "clearing"} : Set(c, pc, call[c].run, "none")
    BY <1>5 DEF StopCancels, StopDrains, StopWaited
  <2>2. call' \in [Calls -> Call] /\ call'[c].run = call[c].run
        /\ \A d \in Calls \ {c} : call'[d] = call[d]
    BY <1>1, <2>1, SetCall DEF Typed
  <2>3. call[c].run \in 1 .. runs
    BY <1>1, <1>5 DEF StopCancels, StopDrains, StopWaited, Typed, Numbered
  <2> QED BY <1>2, <2>2, <2>3
<1> QED BY <1>3, <1>4, <1>5 DEF StopStep

LEMMA StopTyped ==
  ASSUME Typed, NEW c \in Stops, StopStep(c) \/ StopExpires(c)
  PROVE  Typed'
<1>1. handle' \in {0, handle} /\ draining' \in BOOLEAN
  BY DEF StopStep, StopWithoutStart, StopSwaps, StopReads, StopCancels, StopDrainsConsumer,
         StopMarksDraining, StopDrains, StopDrainRefused, StopWaited, StopClears, StopExpires,
         RunFields, Subscriber, Typed, TypeOK
<1>2. ending' \subseteq 1 .. runs /\ done' \subseteq 1 .. runs
  <2>1. \/ ending' = ending
        \/ handle # 0 /\ ending' = ending \cup {handle}
        \/ call[c].pc = "cancelling" /\ ending' = ending \cup {call[c].run}
    BY DEF StopStep, StopWithoutStart, StopSwaps, StopReads, StopCancels, StopDrainsConsumer,
           StopMarksDraining, StopDrains, StopDrainRefused, StopWaited, StopClears, StopExpires,
           RunFields
  <2>2. \/ done' = done
        \/ handle # 0 /\ done' = done \cup {handle}
    BY DEF StopStep, StopWithoutStart, StopSwaps, StopReads, StopCancels, StopDrainsConsumer,
           StopMarksDraining, StopDrains, StopDrainRefused, StopWaited, StopClears, StopExpires,
           RunFields
  <2>3. handle # 0 => handle \in 1 .. runs
    BY SubscribersAssumption DEF Typed, TypeOK
  <2>4. call[c].pc = "cancelling" => call[c].run \in 1 .. runs
    BY DEF Typed, Numbered, Calls
  <2> QED BY <2>1, <2>2, <2>3, <2>4 DEF Typed, TypeOK
<1>3. TypeOK'
  <2>1. handle' \in 0 .. runs /\ runs \in 0 .. MaxRuns
    BY <1>1, SubscribersAssumption DEF Typed, TypeOK
  <2>2. UNCHANGED <<kind, runs, slot, got, watcher, asks, died, told, loose, faults>>
        /\ call' \in [Calls -> Call]
    BY StopSets DEF History
  <2> QED BY <1>1, <1>2, <2>1, <2>2 DEF Typed, TypeOK
<1>4. Numbered'
  BY <1>1, StopSets DEF Typed, Numbered
<1> QED BY <1>3, <1>4 DEF Typed

(* The steps of a slot change nothing but that slot, and got and faults.    *)
OnlySlot(r, s) ==
  /\ UNCHANGED <<kind, handle, draining, ending, done, runs, watcher, asks, call, died, told, loose>>
  /\ slot' \in [Runs -> [Slots -> [pc : SlotStates, hand : 0 .. MaxMessages]]]
  /\ \A q \in Runs, t \in Slots : q # r \/ t # s => slot'[q][t] = slot[q][t]

LEMMA SlotSets ==
  ASSUME Typed, NEW r \in Runs, NEW s \in Slots, NEW from, NEW to \in SlotStates,
         NEW hand \in 0 .. MaxMessages, SlotStep(r, s, from, to, hand)
  PROVE  /\ OnlySlot(r, s)
         /\ slot[r][s].pc = from /\ slot'[r][s].pc = to /\ slot'[r][s].hand = hand
<1> DEFINE new == [pc |-> to, hand |-> hand]
<1>1. new \in [pc : SlotStates, hand : 0 .. MaxMessages] /\ new.pc = to /\ new.hand = hand
  OBVIOUS
<1>2. slot' = [slot EXCEPT ![r][s] = new]
  BY DEF SlotStep, SetSlot
<1> HIDE DEF new
<1>3. slot \in [Runs -> [Slots -> [pc : SlotStates, hand : 0 .. MaxMessages]]]
  BY DEF Typed, TypeOK
<1>4. slot'[r][s] = new
  BY <1>2, <1>3
<1>5. \A q \in Runs, t \in Slots : q # r \/ t # s => slot'[q][t] = slot[q][t]
  BY <1>2, <1>3
<1>6. slot' \in [Runs -> [Slots -> [pc : SlotStates, hand : 0 .. MaxMessages]]]
  BY <1>1, <1>2, <1>3
<1>7. UNCHANGED <<kind, handle, draining, ending, done, runs, watcher, asks, call, died, told, loose>>
  BY DEF SlotStep, Subscriber, History
<1> QED BY <1>1, <1>4, <1>5, <1>6, <1>7 DEF SlotStep, OnlySlot

(* What a slot may do: work of its own, take messages, or return from a     *)
(* handler.                                                                 *)
Works(r, s) ==
  kind = "sqs" /\ slot[r][s].pc # "handling" /\ slot'[r][s].pc # "handling"

Takes(r, s) ==
  /\ slot[r][s].pc # "handling" /\ slot'[r][s].pc = "handling" /\ slot'[r][s].hand >= 1
  /\ kind = "sqs" \/ (r \in 1 .. runs \ done /\ watcher[r] \in {"off", "receiving"})

Returns(r, s) ==
  /\ slot[r][s].pc = "handling" /\ slot'[r][s].pc \in {"handling", "idle"}
  /\ slot'[r][s].pc = "handling" => slot'[r][s].hand >= 1

LEMMA SlotSteps ==
  ASSUME Typed, NEW r \in Runs, NEW s \in Slots, SlotWork(r, s) \/ MessageArrives(r, s)
  PROVE  /\ OnlySlot(r, s) /\ slot[r][s].pc # "off"
         /\ got' \in [Runs -> 0 .. MaxMessages] /\ faults' \in 0 .. MaxFaults
         /\ Works(r, s) \/ Takes(r, s) \/ Returns(r, s)
<1>0. /\ got \in [Runs -> 0 .. MaxMessages] /\ faults \in 0 .. MaxFaults /\ 0 \in 0 .. MaxMessages
      /\ slot[r][s].hand \in 0 .. MaxMessages
  BY SubscribersAssumption DEF Typed, TypeOK
<1>1. CASE WorkerExits(r, s) \/ WorkerPolls(r, s) \/ PollIsEmpty(r, s) \/ WorkerWakes(r, s)
           \/ PollFails(r, s)
  <2>1. PICK from \in {"idle", "sleeping", "polling"}, to \in {"off", "polling", "idle", "sleeping"} :
          SlotStep(r, s, from, to, 0)
    BY <1>1 DEF WorkerExits, WorkerPolls, PollIsEmpty, WorkerWakes, PollFails
  <2>2. kind = "sqs" /\ got' = got /\ faults' \in 0 .. MaxFaults
    BY <1>0, <1>1, SubscribersAssumption
       DEF WorkerExits, WorkerPolls, PollIsEmpty, WorkerWakes, PollFails, Fault
  <2>3. to \in SlotStates
    BY DEF SlotStates
  <2>4. OnlySlot(r, s) /\ slot[r][s].pc = from /\ slot'[r][s].pc = to
    BY <1>0, <2>1, <2>3, SlotSets
  <2> QED BY <1>0, <2>2, <2>4 DEF Works
<1>2. ASSUME NEW n \in 1 .. 2, BatchArrives(r, s, n)
      PROVE  /\ OnlySlot(r, s) /\ slot[r][s].pc = "polling" /\ Takes(r, s)
             /\ got' \in [Runs -> 0 .. MaxMessages] /\ faults' = faults
  <2>1. /\ SlotStep(r, s, "polling", "handling", n) /\ n \in 0 .. MaxMessages
        /\ got' \in [Runs -> 0 .. MaxMessages] /\ faults' = faults /\ kind = "sqs"
    BY <1>0, <1>2, SubscribersAssumption DEF BatchArrives
  <2>2. OnlySlot(r, s) /\ slot[r][s].pc = "polling" /\ slot'[r][s].pc = "handling"
        /\ slot'[r][s].hand = n
    <3>1. "handling" \in SlotStates
      BY DEF SlotStates
    <3>2. SlotStep(r, s, "polling", "handling", n) /\ n \in 0 .. MaxMessages
      BY <2>1
    <3> QED BY <3>1, <3>2, SlotSets
  <2> QED BY <2>1, <2>2 DEF Takes
<1>3. CASE HandlerReturns(r, s)
  <2> DEFINE hand == slot[r][s].hand - 1
  <2>1. PICK to \in {"handling", "idle"} :
          /\ SlotStep(r, s, "handling", to, hand) /\ UNCHANGED <<got, faults>>
          /\ to = "handling" => hand > 0
    BY <1>3 DEF HandlerReturns
  <2>2. slot[r][s].pc = "handling"
    BY <2>1 DEF SlotStep
  <2>3. hand \in 0 .. MaxMessages
    <3>1. slot[r][s].hand >= 1
      BY <2>2 DEF Typed, Numbered
    <3> QED BY <1>0, <3>1, SubscribersAssumption
  <2> HIDE DEF hand
  <2>4. OnlySlot(r, s) /\ slot'[r][s].pc = to /\ slot'[r][s].hand = hand
    <3>1. to \in SlotStates
      BY DEF SlotStates
    <3>2. SlotStep(r, s, "handling", to, hand)
      BY <2>1
    <3> QED BY <2>3, <3>1, <3>2, SlotSets
  <2> QED BY <1>0, <2>1, <2>2, <2>3, <2>4 DEF Returns
<1>4. CASE MessageArrives(r, s)
  <2>1. /\ SlotStep(r, s, "idle", "handling", 1) /\ 1 \in 0 .. MaxMessages
        /\ got' \in [Runs -> 0 .. MaxMessages] /\ faults' = faults
        /\ r \in 1 .. runs \ done /\ watcher[r] \in {"off", "receiving"}
    BY <1>0, <1>4, SubscribersAssumption DEF MessageArrives, Sdk
  <2>2. OnlySlot(r, s) /\ slot[r][s].pc = "idle" /\ slot'[r][s].pc = "handling"
        /\ slot'[r][s].hand = 1
    <3>1. "handling" \in SlotStates
      BY DEF SlotStates
    <3>2. SlotStep(r, s, "idle", "handling", 1) /\ 1 \in 0 .. MaxMessages
      BY <2>1
    <3> QED BY <3>1, <3>2, SlotSets
  <2> QED BY <1>0, <2>1, <2>2 DEF Takes
<1> QED BY <1>0, <1>1, <1>2, <1>3, <1>4 DEF SlotWork

LEMMA SlotTyped ==
  ASSUME Typed, NEW r \in Runs, NEW s \in Slots, SlotWork(r, s) \/ MessageArrives(r, s)
  PROVE  Typed'
<1>1. TypeOK'
  BY SlotSteps DEF Typed, TypeOK, OnlySlot
<1>2. Numbered'
  <2>1. ASSUME NEW q \in Runs, q > runs, NEW t \in Slots
        PROVE  slot'[q][t].pc = "off"
    <3>1. slot[q][t].pc = "off"
      BY <2>1 DEF Typed, Numbered
    <3>2. q # r \/ t # s
      BY <3>1, SlotSteps
    <3> QED BY <3>1, <3>2, SlotSteps DEF OnlySlot
  <2>2. ASSUME NEW q \in Runs, NEW t \in Slots, slot'[q][t].pc = "handling"
        PROVE  slot'[q][t].hand >= 1
    <3>1. CASE q = r /\ t = s
      BY <2>2, <3>1, SlotSteps DEF Works, Takes, Returns
    <3>2. CASE q # r \/ t # s
      BY <2>2, <3>2, SlotSteps DEF Typed, Numbered, OnlySlot
    <3> QED BY <3>1, <3>2
  <2> QED BY <2>1, <2>2, SlotSteps DEF Typed, Numbered, OnlySlot
<1> QED BY <1>1, <1>2 DEF Typed

(* The steps that end a run and tell of it.                                 *)
RunStep(r) ==
  RunWork(r) \/ RunEnds(r) \/ ConnectionCloses(r) \/ \E c \in Stops : OnErrorStops(r, c)

LEMMA EndsOrFailsTyped ==
  ASSUME Typed, NEW r \in 1 .. runs, EndsOrFails(r)
  PROVE  died' \subseteq 1 .. runs /\ faults' \in 0 .. MaxFaults
<1>1. died \subseteq 1 .. runs /\ faults \in 0 .. MaxFaults /\ MaxFaults \in Nat
  BY SubscribersAssumption DEF Typed, TypeOK
<1>2. CASE r \in ending
  BY <1>1, <1>2 DEF EndsOrFails
<1>3. CASE r \notin ending
  <2>1. died' = died \cup {r} /\ faults < MaxFaults /\ faults' = faults + 1
    BY <1>3 DEF EndsOrFails, Fault
  <2> QED BY <1>1, <2>1
<1> QED BY <1>2, <1>3

LEMMA RunTyped ==
  ASSUME Typed, NEW r \in Runs, RunStep(r)
  PROVE  /\ Typed'
         /\ UNCHANGED <<kind, handle, draining, ending, runs, slot, got, call>>
         /\ watcher'[r] # watcher[r] \/ died' # died \/ done' # done => r \in 1 .. runs
         /\ \A q \in Runs \ {r} : watcher'[q] = watcher[q]
<1> USE SubscribersAssumption DEF Typed, TypeOK, Numbered, Subscriber, RunFields, History,
        SetWatcher, WatcherStates, WatcherStep, Runs
<1>1. CASE WorkersGone(r)
  BY <1>1 DEF WorkersGone
<1>2. CASE DrainEnds(r)
  BY <1>2 DEF DrainEnds, Sdk
<1>3. CASE ClosesDone(r)
  BY <1>3 DEF ClosesDone
<1>4. CASE FindsStop(r)
  BY <1>4 DEF FindsStop
<1>5. CASE FindsFailure(r)
  BY <1>5 DEF FindsFailure
<1>6. CASE OnErrorReturns(r)
  BY <1>6 DEF OnErrorReturns
<1>7. CASE ReceiveReturns(r)
  <2>1. r \in 1 .. runs /\ EndsOrFails(r)
    BY <1>7 DEF ReceiveReturns, Sdk
  <2>2. died' \subseteq 1 .. runs /\ faults' \in 0 .. MaxFaults
    BY <2>1, EndsOrFailsTyped
  <2> QED BY <1>7, <2>1, <2>2 DEF ReceiveReturns
<1>8. CASE ConsumerCloses(r)
  <2>1. r \in 1 .. runs /\ EndsOrFails(r)
    BY <1>8 DEF ConsumerCloses, Sdk
  <2>2. died' \subseteq 1 .. runs /\ faults' \in 0 .. MaxFaults
    BY <2>1, EndsOrFailsTyped
  <2> QED BY <1>8, <2>1, <2>2 DEF ConsumerCloses
<1>9. CASE ConnectionCloses(r)
  BY <1>9 DEF ConnectionCloses, Sdk, Fault
<1>10. ASSUME NEW c \in Stops, OnErrorStops(r, c)
       PROVE  /\ Typed' /\ UNCHANGED <<kind, handle, draining, ending, runs, slot, got, call>>
              /\ UNCHANGED <<watcher, died, done>>
  BY <1>10 DEF OnErrorStops
<1> QED BY <1>1, <1>2, <1>3, <1>4, <1>5, <1>6, <1>7, <1>8, <1>9, <1>10 DEF RunStep, RunWork, RunEnds

LEMMA NextTyped ==
  ASSUME Typed, Next
  PROVE  Typed'
BY StartTyped, StopTyped, SlotTyped, RunTyped DEF Next, RunStep

(* Every variable keeps its type.                                           *)
THEOREM TypeCorrect == Spec => []TypeOK
<1>1. Typed /\ UNCHANGED vars => Typed'
  BY DEF Typed, TypeOK, Numbered, vars
<1>2. Typed => TypeOK
  BY DEF Typed
<1> QED BY InitTyped, NextTyped, <1>1, <1>2, PTL DEF Spec

-----------------------------------------------------------------------------
(* The invariant.                                                           *)

LEMMA InitInv == Init => Inv
<1> SUFFICES ASSUME Init PROVE Inv
  OBVIOUS
<1>1. DoneIsQuiet /\ Watched /\ Waited /\ Ending
  BY DEF Init, DoneIsQuiet, Watched, Waited, Ending
<1>2. QuietOnceReleased /\ OnlyFailuresTold
  BY DEF Init, QuietOnceReleased, OnlyFailuresTold
<1> QED BY <1>1, <1>2, InitTyped DEF Inv

(* What is not done is the run the subscriber holds.                        *)
LEMMA ActiveIsHeld ==
  ASSUME Inv, NEW r \in 1 .. runs, r \notin done
  PROVE  handle = r /\ handle = runs /\ handle # 0
BY SubscribersAssumption DEF Inv, Typed, TypeOK, Numbered, QuietOnceReleased

LEMMA StartInv ==
  ASSUME Inv, Typed', NEW c \in Starts, StartStep(c)
  PROVE  Inv'
<1>0. Typed /\ TypeOK /\ c \in Calls /\ 0 \in 0 .. MaxRuns
  BY SubscribersAssumption DEF Inv, Typed, Calls
<1>1. CASE StartRefused(c) \/ StartFails(c)
  <2>1. UNCHANGED <<kind, handle, draining, ending, done, runs, slot, watcher, died, told, loose>>
        /\ Set(c, "done", 0, "error")
    BY <1>1 DEF StartRefused, StartFails, Subscriber, RunFields, History
  <2>2. call'[c].pc = "done" /\ \A d \in Calls \ {c} : call'[d] = call[d]
    BY <1>0, <2>1, SetCall
  <2>3. DoneIsQuiet' /\ Watched' /\ QuietOnceReleased' /\ OnlyFailuresTold'
    BY <2>1 DEF Inv, DoneIsQuiet, Watched, QuietOnceReleased, OnlyFailuresTold, Handling
  <2>4. Waited' /\ Ending'
    BY <2>1, <2>2 DEF Inv, Waited, Ending
  <2> QED BY <2>3, <2>4 DEF Inv
<1>2. CASE StartSucceeds(c)
  <2>0. PICK r : r = runs + 1
    OBVIOUS
  <2>1. /\ r \in Runs /\ r \notin 1 .. runs /\ 1 .. r = 1 .. runs \cup {r} /\ runs' = r
        /\ handle = 0 /\ handle' = r /\ runs \in Nat /\ r # 0
    BY <1>0, <1>2, <2>0, SubscribersAssumption DEF StartSucceeds, TypeOK, Runs
  <2>2. /\ slot' = [slot EXCEPT ![r] = [s \in Slots |-> [pc |-> "idle", hand |-> 0]]]
        /\ watcher' = [watcher EXCEPT ![r] = IF kind \in {"pubsub", "jetstream"}
                                              THEN "receiving" ELSE "off"]
        /\ loose' = (IF kind = "http" THEN loose \cup {r} ELSE loose)
        /\ UNCHANGED <<kind, draining, ending, done, died, told>>
    BY <1>2, <2>0 DEF StartSucceeds, SetWatcher
  <2>3. call'[c].pc = "done" /\ \A d \in Calls \ {c} : call'[d] = call[d]
    <3>1. Set(c, "done", r, "nil") /\ r \in 0 .. MaxRuns
      BY <1>2, <2>0, <2>1, SubscribersAssumption DEF StartSucceeds, Runs
    <3> QED BY <1>0, <3>1, SetCall
  <2>4. \A q \in Runs \ {r} : slot'[q] = slot[q] /\ watcher'[q] = watcher[q]
    BY <1>0, <2>1, <2>2 DEF TypeOK
  <2>5. /\ \A s \in Slots : slot'[r][s].pc = "idle"
        /\ watcher'[r] \in {"receiving", "off"}
        /\ kind = "sqs" => watcher'[r] = "off"
    BY <1>0, <2>1, <2>2 DEF TypeOK
  <2>6. done \subseteq 1 .. runs /\ ending \subseteq 1 .. runs /\ 1 .. runs \subseteq Runs
    BY <1>0, SubscribersAssumption DEF TypeOK, Runs
  <2>7. \A q \in 1 .. runs : Handling(q)' = Handling(q)
    BY <2>1, <2>4, <2>6 DEF Handling
  <2>8. DoneIsQuiet'
    BY <2>1, <2>2, <2>4, <2>6, <2>7 DEF Inv, DoneIsQuiet
  <2>9. Watched'
    <3>1. \A q \in Runs \ {r} : Handling(q)' = Handling(q)
      BY <2>4 DEF Handling
    <3> QED BY <2>2, <2>4, <2>5, <3>1 DEF Inv, Watched
  <2>10. Waited'
    BY <2>2, <2>3 DEF Inv, Waited
  <2>11. Ending'
    <3>1. ASSUME NEW d \in Calls, call'[d].pc \in {"cancelling", "waiting", "clearing"}
          PROVE  call'[d].run # r
      BY <2>1, <2>3, <3>1 DEF Inv, Typed, Numbered
    <3>2. ~draining
      BY <2>1 DEF Inv, Ending
    <3> QED BY <2>1, <2>2, <3>1, <3>2 DEF Ending
  <2>12. QuietOnceReleased'
    <3>1. \A q \in 1 .. runs : q \in done /\ (Handling(q) = {} \/ q \in loose)
      BY <2>1 DEF Inv, QuietOnceReleased
    <3> QED BY <2>1, <2>2, <2>7, <3>1 DEF QuietOnceReleased
  <2>13. OnlyFailuresTold'
    BY <2>2 DEF Inv, OnlyFailuresTold
  <2> QED BY <2>8, <2>9, <2>10, <2>11, <2>12, <2>13 DEF Inv
<1> QED BY <1>1, <1>2 DEF StartStep

(* What a step of a Stop does to the run: the handle is let go of only when *)
(* the run is done, and then nobody is draining.                            *)
LEMMA StopEffects ==
  ASSUME Inv, NEW c \in Stops, StopStep(c) \/ StopExpires(c)
  PROVE  /\ ending \subseteq ending' /\ done \subseteq done'
         /\ \/ handle' = handle
            \/ /\ handle # 0 /\ handle' = 0 /\ handle \in done' /\ ~draining'
               /\ Handling(handle) = {} \/ handle \in loose
         /\ done' = done \/ (kind = "http" /\ done' = done \cup {handle} /\ handle \in loose)
         /\ draining' => draining \/ (kind = "core" /\ handle # 0)
         /\ draining /\ ~draining' => handle' = 0
<1>0. handle # 0 => handle \in 1 .. runs
  BY SubscribersAssumption DEF Inv, Typed, TypeOK
<1>1. CASE StopWithoutStart(c)
  BY <1>1 DEF StopWithoutStart, RunFields
<1>2. CASE StopSwaps(c)
  <2>1. handle # 0 /\ kind = "http" /\ handle \in loose /\ ~draining
    BY <1>0, <1>2 DEF StopSwaps, Inv, DoneIsQuiet, Ending
  <2> QED BY <1>2, <2>1 DEF StopSwaps
<1>3. CASE StopClears(c)
  <2>1. call[c].pc = "clearing" /\ call[c].run \in 1 .. runs /\ call[c].run \in done
    BY <1>3 DEF StopClears, Inv, Typed, Numbered, Waited, Calls
  <2>2. UNCHANGED <<ending, done>>
        /\ (IF handle = call[c].run THEN handle' = 0 /\ draining' = FALSE
            ELSE UNCHANGED <<handle, draining>>)
    BY <1>3 DEF StopClears, RunFields, Subscriber
  <2>3. CASE handle = call[c].run
    <3>1. handle \in done /\ handle # 0 /\ (Handling(handle) = {} \/ handle \in loose)
      BY <2>1, <2>3 DEF Inv, DoneIsQuiet
    <3> QED BY <2>2, <2>3, <3>1
  <2>4. CASE handle # call[c].run
    BY <2>2, <2>4
  <2> QED BY <2>3, <2>4
<1>4. CASE StopMarksDraining(c)
  BY <1>4 DEF StopMarksDraining, RunFields
<1>5. CASE StopReads(c) \/ StopCancels(c) \/ StopDrainsConsumer(c) \/ StopDrains(c)
           \/ StopDrainRefused(c) \/ StopWaited(c) \/ StopExpires(c)
  <2>1. UNCHANGED <<handle, draining, done>> /\ ending \subseteq ending'
    BY <1>5 DEF StopReads, StopCancels, StopDrainsConsumer, StopDrains, StopDrainRefused,
       StopWaited, StopExpires, Subscriber, RunFields
  <2> QED BY <2>1
<1> QED BY <1>1, <1>2, <1>3, <1>4, <1>5 DEF StopStep

(* The run a Stop waits for was told to end by it, or by the one before it. *)
LEMMA StopEnding ==
  ASSUME Inv, NEW c \in Stops, StopStep(c) \/ StopExpires(c), handle' = handle
  PROVE  /\ call'[c].pc = "clearing" => call'[c].run \in done
         /\ call'[c].run = handle =>
              /\ call'[c].pc \in {"waiting", "clearing"} => handle \in ending' \/ draining'
              /\ call'[c].pc = "cancelling" /\ kind = "core" => draining'
<1>0. /\ TypeOK /\ c \in Calls /\ call[c].run \in 0 .. MaxRuns /\ handle \in 0 .. MaxRuns
      /\ 0 \in 0 .. MaxRuns /\ kind \in Kinds
  BY SubscribersAssumption DEF Inv, Typed, TypeOK, Calls, Call
<1>1. CASE \/ StopWithoutStart(c) \/ StopSwaps(c) \/ StopDrainRefused(c) \/ StopExpires(c)
           \/ StopClears(c)
  <2>1. PICK r \in 0 .. MaxRuns, a \in {"none", "nil", "error"} : Set(c, "done", r, a)
    BY <1>0, <1>1 DEF StopWithoutStart, StopSwaps, StopDrainRefused, StopExpires, StopClears
  <2>2. call'[c].pc = "done"
    BY <1>0, <2>1, SetCall
  <2> QED BY <2>2
<1>2. CASE StopReads(c)
  <2>1. call'[c].pc = "cancelling" /\ kind # "core"
    BY <1>0, <1>2, SetCall DEF StopReads
  <2> QED BY <2>1
<1>3. CASE StopCancels(c) \/ StopDrains(c)
  <2>1. Set(c, "waiting", call[c].run, "none") /\ ending' = ending \cup {call[c].run}
    BY <1>3 DEF StopCancels, StopDrains
  <2>2. call'[c].pc = "waiting" /\ call'[c].run = call[c].run
    BY <1>0, <2>1, SetCall
  <2> QED BY <2>1, <2>2
<1>4. CASE StopDrainsConsumer(c)
  <2>1. Set(c, "waiting", handle, "none") /\ ending' = ending \cup {handle}
    BY <1>4 DEF StopDrainsConsumer
  <2>2. call'[c].pc = "waiting" /\ call'[c].run = handle
    BY <1>0, <2>1, SetCall
  <2> QED BY <2>1, <2>2
<1>5. CASE StopMarksDraining(c)
  <2>1. draining' /\ \E pc \in {"waiting", "cancelling"} : Set(c, pc, handle, "none")
    BY <1>5 DEF StopMarksDraining
  <2>2. call'[c].pc \in {"waiting", "cancelling"}
    BY <1>0, <2>1, SetCall
  <2> QED BY <2>1, <2>2
<1>6. CASE StopWaited(c)
  <2>1. /\ Set(c, "clearing", call[c].run, "none") /\ UNCHANGED <<ending, draining>>
        /\ call[c].run \in done /\ call[c].pc = "waiting"
    BY <1>6 DEF StopWaited, RunFields, Subscriber
  <2>2. call'[c].pc = "clearing" /\ call'[c].run = call[c].run
    BY <1>0, <2>1, SetCall
  <2> QED BY <1>0, <2>1, <2>2 DEF Inv, Ending
<1> QED BY <1>1, <1>2, <1>3, <1>4, <1>5, <1>6 DEF StopStep

LEMMA StopInv ==
  ASSUME Inv, Typed', NEW c \in Stops, StopStep(c) \/ StopExpires(c)
  PROVE  Inv'
<1>1. /\ UNCHANGED <<kind, runs, slot, watcher, died, told, loose>> /\ c \in Calls
      /\ \A d \in Calls \ {c} : call'[d] = call[d]
  BY StopSets DEF Inv, History, Calls
<1>2. \A r : Handling(r)' = Handling(r)
  BY <1>1 DEF Handling
<1>3. DoneIsQuiet'
  <2>1. ~(kind = "sqs" /\ done' # done)
    BY StopEffects
  <2> QED BY <1>1, <1>2, <2>1, StopEffects DEF Inv, DoneIsQuiet
<1>4. Watched'
  BY <1>1, <1>2, StopEffects DEF Inv, Watched
<1>5. Waited' /\ Ending'
  <2>1. CASE handle' = handle
    <3>1. Waited'
      BY <1>1, <2>1, StopEffects, StopEnding DEF Inv, Waited
    <3>2. draining' => kind' = "core" /\ handle' # 0
      BY <1>1, <2>1, StopEffects DEF Inv, Ending
    <3>3. ASSUME NEW d \in Calls, call'[d].run = handle'
          PROVE  /\ call'[d].pc \in {"waiting", "clearing"} => handle' \in ending' \/ draining'
                 /\ call'[d].pc = "cancelling" /\ kind' = "core" => draining'
      <4>1. CASE d = c
        BY <1>1, <2>1, <3>3, <4>1, StopEnding
      <4>2. CASE d # c
        <5>1. call'[d] = call[d] /\ ending \subseteq ending'
          BY <1>1, <4>2, StopEffects
        <5>2. draining => draining' \/ handle' = 0
          BY StopEffects DEF Inv, Typed, TypeOK
        <5>3. draining => handle # 0
          BY DEF Inv, Ending
        <5> QED BY <1>1, <2>1, <3>3, <5>1, <5>2, <5>3 DEF Inv, Ending
      <4> QED BY <4>1, <4>2
    <3> QED BY <3>1, <3>2, <3>3 DEF Ending
  <2>2. CASE handle' # handle
    <3>1. handle' = 0 /\ ~draining' /\ done \subseteq done'
      BY <2>2, StopEffects
    <3>2. \A d \in Calls : call'[d].pc \in {"waiting", "clearing", "cancelling"} => call'[d].run # 0
      BY DEF Typed, Numbered
    <3>3. call'[c].pc = "done"
      <4>1. PICK r \in 0 .. MaxRuns, a \in {"none", "nil", "error"} : Set(c, "done", r, a)
        <5>1. call[c].run \in 0 .. MaxRuns /\ handle \in 0 .. MaxRuns
          BY <1>1, SubscribersAssumption DEF Inv, Typed, TypeOK, Call
        <5>2. StopSwaps(c) \/ StopClears(c)
          BY <2>2 DEF StopStep, StopWithoutStart, StopReads, StopCancels, StopDrainsConsumer,
             StopMarksDraining, StopDrains, StopDrainRefused, StopWaited, StopExpires, Subscriber
        <5> QED BY <5>1, <5>2 DEF StopSwaps, StopClears
      <4> QED BY <1>1, <4>1, SetCall DEF Inv, Typed
    <3> QED BY <1>1, <3>1, <3>2, <3>3 DEF Inv, Waited, Ending
  <2> QED BY <2>1, <2>2
<1>6. QuietOnceReleased'
  BY <1>1, <1>2, StopEffects DEF Inv, QuietOnceReleased
<1>7. OnlyFailuresTold'
  BY <1>1 DEF Inv, OnlyFailuresTold
<1> QED BY <1>3, <1>4, <1>5, <1>6, <1>7 DEF Inv

(* A slot takes messages only of the run that is held; what it returns from *)
(* leaves fewer in flight.                                                  *)
LEMMA SlotInv ==
  ASSUME Inv, Typed', NEW r \in Runs, NEW s \in Slots, SlotWork(r, s) \/ MessageArrives(r, s)
  PROVE  Inv'
<1>1. OnlySlot(r, s) /\ slot[r][s].pc # "off" /\ (Works(r, s) \/ Takes(r, s) \/ Returns(r, s))
  BY SlotSteps DEF Inv
<1>2. UNCHANGED <<kind, handle, draining, ending, done, runs, watcher, asks, call, died, told, loose>>
  BY <1>1 DEF OnlySlot
<1>3. \A q \in Runs \ {r} : Handling(q)' = Handling(q)
  BY <1>1 DEF OnlySlot, Handling
<1>4. r \in 1 .. runs
  BY <1>1, SubscribersAssumption DEF Inv, Typed, TypeOK, Numbered, Runs
<1>5. kind = "sqs" => r \notin done
  BY <1>1 DEF Inv, DoneIsQuiet
<1>6. Handling(r)' \subseteq Handling(r)
      \/ (r \notin done /\ (kind = "sqs" \/ watcher[r] \in {"off", "receiving"}))
  <2>1. CASE Works(r, s) \/ Returns(r, s)
    BY <1>1, <2>1 DEF Works, Returns, OnlySlot, Handling
  <2>2. CASE Takes(r, s)
    BY <1>5, <2>2 DEF Takes
  <2> QED BY <1>1, <2>1, <2>2
<1>7. done \subseteq Runs /\ 1 .. runs \subseteq Runs
  BY SubscribersAssumption DEF Inv, Typed, TypeOK, Runs
<1>8. DoneIsQuiet'
  <2>1. \A q \in done : Handling(q)' = {} \/ q \in loose
    BY <1>3, <1>6, <1>7 DEF Inv, DoneIsQuiet
  <2>2. ASSUME kind = "sqs", NEW q \in done, NEW t \in Slots PROVE slot'[q][t].pc = "off"
    BY <1>1, <1>5, <1>7, <2>2 DEF Inv, DoneIsQuiet, OnlySlot
  <2> QED BY <1>2, <2>1, <2>2 DEF Inv, DoneIsQuiet
<1>9. Watched'
  <2>1. ASSUME NEW q \in Runs, watcher[q] = "closing" PROVE Handling(q)' = {}
    <3>1. Handling(q) = {} /\ kind # "sqs"
      BY <2>1 DEF Inv, Watched
    <3> QED BY <1>3, <1>6, <2>1, <3>1
  <2> QED BY <1>2, <2>1 DEF Inv, Watched
<1>10. Waited' /\ Ending'
  BY <1>2 DEF Inv, Waited, Ending
<1>11. QuietOnceReleased'
  <2>1. ASSUME NEW q \in 1 .. runs \ {handle} PROVE Handling(q)' = {} \/ q \in loose
    <3>1. q \in done /\ (Handling(q) = {} \/ q \in loose)
      BY DEF Inv, QuietOnceReleased
    <3> QED BY <1>3, <1>6, <1>7, <3>1
  <2> QED BY <1>2, <2>1 DEF Inv, QuietOnceReleased
<1>12. OnlyFailuresTold'
  BY <1>2 DEF Inv, OnlyFailuresTold
<1> QED BY <1>8, <1>9, <1>10, <1>11, <1>12 DEF Inv

(* A run is done when its handlers have returned, or becomes loose; told is *)
(* only who died.                                                           *)
LEMMA RunEffects ==
  ASSUME Inv, NEW r \in Runs, RunStep(r)
  PROVE  /\ died \subseteq died' /\ done \subseteq done' /\ loose \subseteq loose'
         /\ \/ done' = done
            \/ /\ done' = done \cup {r}
               /\ Handling(r) = {} \/ r \in loose'
               /\ kind = "sqs" => \A s \in Slots : slot[r][s].pc = "off"
         /\ kind = "sqs" => watcher' = watcher
         /\ kind = "core" => died' \subseteq died \cup done'
         /\ watcher'[r] = "closing" => Handling(r) = {}
         /\ watcher'[r] \in {"closing", "checking"} => r \in ending \cup died'
         /\ told' \subseteq told \cup died
<1>0. watcher \in [Runs -> WatcherStates]
  BY DEF Inv, Typed, TypeOK
<1>1. CASE WorkersGone(r)
  <2>1. Handling(r) = {} /\ UNCHANGED <<watcher, died, told, loose>> /\ kind = "sqs"
    BY <1>1 DEF WorkersGone, Handling, History
  <2> QED BY <1>1, <2>1 DEF WorkersGone, Inv, Watched
<1>2. CASE DrainEnds(r)
  <2>1. UNCHANGED <<watcher, died, told, loose>> /\ kind = "core" /\ Handling(r) = {}
    BY <1>2 DEF DrainEnds, History
  <2> QED BY <1>2, <2>1 DEF DrainEnds, Inv, Watched
<1>3. CASE ClosesDone(r)
  <2>1. /\ watcher[r] = "closing" /\ kind = "pubsub" /\ done' = done \cup {r}
        /\ watcher'[r] = "checking" /\ UNCHANGED <<died, loose, told>>
    BY <1>0, <1>3 DEF ClosesDone, WatcherStep, SetWatcher
  <2>2. Handling(r) = {} /\ r \in ending \cup died
    BY <2>1 DEF Inv, Watched
  <2> QED BY <2>1, <2>2
<1>4. CASE FindsStop(r) \/ FindsFailure(r) \/ OnErrorReturns(r)
  <2>1. /\ watcher[r] \in {"checking", "telling"} /\ watcher'[r] \in {"over", "telling"}
        /\ UNCHANGED <<died, loose, done>> /\ told' \subseteq told \cup {r}
        /\ told' # told => r \notin ending /\ watcher[r] = "checking"
    BY <1>0, <1>4 DEF FindsStop, FindsFailure, OnErrorReturns, WatcherStep, SetWatcher
  <2>2. told' # told => r \in died
    BY <2>1 DEF Inv, Watched
  <2>3. kind # "sqs"
    BY <2>1 DEF Inv, Watched
  <2> QED BY <2>1, <2>2, <2>3
<1>5. CASE ReceiveReturns(r) \/ ConsumerCloses(r)
  <2>1. /\ kind \in {"pubsub", "jetstream"} /\ Handling(r) = {} /\ EndsOrFails(r)
        /\ done' = done \/ done' = done \cup {r}
        /\ watcher'[r] \in {"closing", "checking"} /\ UNCHANGED <<told, loose>>
    BY <1>0, <1>5 DEF ReceiveReturns, ConsumerCloses, SetWatcher
  <2>2. died \subseteq died' /\ r \in ending \cup died'
    BY <2>1 DEF EndsOrFails
  <2> QED BY <2>1, <2>2
<1>6. CASE ConnectionCloses(r)
  <2>1. /\ done' = done \cup {r} /\ loose' = loose \cup {r} /\ died' = died \cup {r}
        /\ UNCHANGED <<watcher, told>> /\ kind = "core"
    BY <1>6 DEF ConnectionCloses
  <2> QED BY <2>1 DEF Inv, Watched
<1>7. CASE \E c \in Stops : OnErrorStops(r, c)
  <2>1. UNCHANGED <<done, watcher, died, told, loose>>
    BY <1>7 DEF OnErrorStops, History
  <2> QED BY <2>1 DEF Inv, Watched
<1> QED BY <1>1, <1>2, <1>3, <1>4, <1>5, <1>6, <1>7 DEF RunStep, RunWork, RunEnds

LEMMA RunInv ==
  ASSUME Inv, NEW r \in Runs, RunStep(r)
  PROVE  Inv'
<1>1. /\ Typed' /\ UNCHANGED <<kind, handle, draining, ending, runs, slot, got, call>>
      /\ \A q \in Runs \ {r} : watcher'[q] = watcher[q]
  BY RunTyped DEF Inv
<1>2. \A q : Handling(q)' = Handling(q)
  BY <1>1 DEF Handling
<1>3. DoneIsQuiet'
  BY <1>1, <1>2, RunEffects DEF Inv, DoneIsQuiet
<1>4. Watched'
  <2>1. \A q \in Runs : watcher'[q] = "closing" => Handling(q) = {}
    BY <1>1, RunEffects DEF Inv, Watched
  <2>2. \A q \in Runs : watcher'[q] \in {"closing", "checking"} => q \in ending \cup died'
    BY <1>1, RunEffects DEF Inv, Watched
  <2>3. kind = "core" => died' \subseteq done'
    BY RunEffects DEF Inv, Watched
  <2> QED BY <1>1, <1>2, <2>1, <2>2, <2>3, RunEffects DEF Inv, Watched
<1>5. Waited' /\ Ending'
  BY <1>1, RunEffects DEF Inv, Waited, Ending
<1>6. QuietOnceReleased'
  BY <1>1, <1>2, RunEffects DEF Inv, QuietOnceReleased
<1>7. OnlyFailuresTold'
  BY RunEffects DEF Inv, OnlyFailuresTold
<1> QED BY <1>1, <1>3, <1>4, <1>5, <1>6, <1>7 DEF Inv

LEMMA NextInv ==
  ASSUME Inv, Next
  PROVE  Inv'
<1>1. Typed'
  BY NextTyped DEF Inv
<1> QED BY <1>1, StartInv, StopInv, SlotInv, RunInv DEF Next, RunStep

LEMMA Invariance == Spec => []Inv
<1>1. Inv /\ UNCHANGED vars => Inv'
  BY DEF Inv, Typed, TypeOK, Numbered, DoneIsQuiet, Watched, Waited, Ending, QuietOnceReleased,
         OnlyFailuresTold, Handling, vars
<1> QED BY InitInv, NextInv, <1>1, PTL DEF Spec

(* Whatever the order of Starts and Stops, expired or not, a run the        *)
(* subscriber has let go of receives nothing and has no handler in flight,  *)
(* loose ones apart: two runs never deliver at once, and a Stop that        *)
(* returned nil has drained (Start, Stop of the five subscribers).          *)
THEOREM ReleasedIsQuiet == Spec => []QuietOnceReleased
<1>1. Inv => QuietOnceReleased
  BY DEF Inv
<1> QED BY Invariance, <1>1, PTL

(* However a failure and a Stop race, onError hears only of runs that ended *)
(* without having been told to (receiveOutcome, the JetStream watcher).     *)
THEOREM StopIsNoFailure == Spec => []OnlyFailuresTold
<1>1. Inv => OnlyFailuresTold
  BY DEF Inv
<1> QED BY Invariance, <1>1, PTL

-----------------------------------------------------------------------------
(* The subscribers implement Subscription.                                  *)

Loose == kind = "http" \/ loose # {}

LEMMA InFlightFinite ==
  ASSUME Inv
  PROVE  IsFiniteSet(InFlight) /\ Cardinality(InFlight) \in Nat
<1>1. IsFiniteSet(Runs) /\ IsFiniteSet(Slots)
  BY SubscribersAssumption, FS_Interval DEF Runs
<1>2. IsFiniteSet(Runs \X Slots)
  BY <1>1, FS_Product
<1>3. InFlight \in SUBSET (Runs \X Slots)
  BY DEF InFlight
<1>4. IsFiniteSet(InFlight)
  BY <1>2, <1>3, FS_Subset
<1> QED BY <1>4, FS_CardinalityType

(* A step Subscription does not see.                                        *)
LEMMA Unseen ==
  ASSUME UNCHANGED <<runs, died, told>>, Phase' = Phase, Loose' = Loose, InFlight' = InFlight
  PROVE  UNCHANGED Contract!vars
BY DEF Contract!vars, Loose

LEMMA SamePhase ==
  ASSUME UNCHANGED <<handle, draining, ending>>
  PROVE  Phase' = Phase
BY DEF Phase

LEMMA SameInFlight ==
  ASSUME UNCHANGED slot
  PROVE  InFlight' = InFlight
BY DEF InFlight, Handling

LEMMA InitImplements == Init => Contract!Init
<1> SUFFICES ASSUME Init PROVE Contract!Init
  OBVIOUS
<1>1. InFlight = {}
  BY DEF Init, InFlight, Handling
<1>2. Cardinality(InFlight) = 0
  BY <1>1, FS_EmptySet
<1>3. Phase = "stopped"
  BY DEF Init, Phase
<1> QED BY <1>2, <1>3 DEF Init, Contract!Init

LEMMA StartImplements ==
  ASSUME Inv, NEW c \in Starts, StartStep(c)
  PROVE  [Contract!Next]_(Contract!vars)
<1>1. CASE StartRefused(c) \/ StartFails(c)
  <2>1. UNCHANGED <<kind, handle, draining, ending, runs, slot, died, told, loose>>
    BY <1>1 DEF StartRefused, StartFails, Subscriber, RunFields, History
  <2> QED BY <2>1, Unseen, SamePhase, SameInFlight DEF Loose
<1>2. CASE StartSucceeds(c)
  <2>0. PICK r : r = runs + 1
    OBVIOUS
  <2>1. /\ handle = 0 /\ handle' = r /\ runs' = r /\ r \in Runs /\ r > runs /\ r # 0
        /\ slot' = [slot EXCEPT ![r] = [s \in Slots |-> [pc |-> "idle", hand |-> 0]]]
        /\ loose' = (IF kind = "http" THEN loose \cup {r} ELSE loose)
        /\ UNCHANGED <<kind, draining, ending, died, told>>
    BY <1>2, <2>0, SubscribersAssumption DEF StartSucceeds, Inv, Typed, TypeOK, Runs
  <2>2. slot \in [Runs -> [Slots -> [pc : SlotStates, hand : 0 .. MaxMessages]]]
        /\ \A s \in Slots : slot[r][s].pc = "off"
    BY <2>1 DEF Inv, Typed, TypeOK, Numbered
  <2>3. \A q \in Runs, s \in Slots : slot'[q][s].pc = "handling" <=> slot[q][s].pc = "handling"
    BY <2>1, <2>2
  <2>4. InFlight' = InFlight
    BY <2>3 DEF InFlight, Handling
  <2>5. Phase = "stopped" /\ Phase' = "running"
    <3>1. ~draining
      BY <2>1 DEF Inv, Ending
    <3>2. runs \in Nat /\ ending \subseteq 1 .. runs
      BY SubscribersAssumption DEF Inv, Typed, TypeOK
    <3>3. r \notin ending
      BY <2>0, <3>2
    <3> QED BY <2>1, <3>1, <3>3 DEF Phase
  <2>6. Loose' = Loose
    BY <2>1 DEF Loose
  <2>7. Contract!Start
    BY <2>0, <2>1, <2>4, <2>5, <2>6 DEF Contract!Start, Loose
  <2> QED BY <2>7 DEF Contract!Next
<1> QED BY <1>1, <1>2 DEF StartStep

(* A Stop tells the run to end, or lets go of it.                           *)
LEMMA StopImplements ==
  ASSUME Inv, NEW c \in Stops, StopStep(c) \/ StopExpires(c)
  PROVE  [Contract!Next]_(Contract!vars)
<1>1. UNCHANGED <<kind, runs, slot, died, told, loose>>
  BY StopSets DEF Inv, History
<1>2. InFlight' = InFlight /\ Loose' = Loose
  BY <1>1, SameInFlight DEF Loose
<1>3. CASE handle' = handle
  <2>1. ending \subseteq ending' /\ (draining => draining' \/ handle = 0)
    BY <1>3, StopEffects
  <2>2. Phase' = Phase \/ (Phase = "running" /\ Phase' = "stopping")
    BY <1>3, <2>1 DEF Phase
  <2>3. CASE Phase' = Phase
    BY <1>1, <1>2, <2>3, Unseen
  <2>4. CASE Phase = "running" /\ Phase' = "stopping"
    <3>1. Contract!StopBegins
      BY <1>1, <1>2, <2>4 DEF Contract!StopBegins, Loose
    <3> QED BY <3>1 DEF Contract!Next
  <2> QED BY <2>2, <2>3, <2>4
<1>4. CASE handle' # handle
  <2>1. handle # 0 /\ handle' = 0 /\ (Handling(handle) = {} \/ handle \in loose)
    BY <1>4, StopEffects
  <2>2. Phase # "stopped" /\ Phase' = "stopped"
    BY <2>1 DEF Phase
  <2>3. Loose \/ (Phase = "stopping" /\ Cardinality(InFlight) = 0)
    <3>1. SUFFICES ASSUME ~Loose PROVE Phase = "stopping" /\ Cardinality(InFlight) = 0
      OBVIOUS
    <3>2. call[c].pc = "clearing" /\ call[c].run = handle
      BY <1>4, <3>1 DEF StopStep, StopWithoutStart, StopSwaps, StopReads, StopCancels,
         StopDrainsConsumer, StopMarksDraining, StopDrains, StopDrainRefused, StopWaited,
         StopExpires, StopClears, Subscriber, Loose
    <3>3. Phase = "stopping"
      BY <2>1, <3>2 DEF Inv, Ending, Phase, Calls
    <3>4. ASSUME NEW q \in Runs PROVE Handling(q) = {}
      <4>1. CASE q = handle
        BY <2>1, <3>1, <4>1 DEF Loose
      <4>2. CASE q \in 1 .. runs \ {handle}
        BY <3>1, <4>2 DEF Inv, QuietOnceReleased, Loose
      <4>3. CASE q \notin 1 .. runs
        <5>1. q > runs
          BY <4>3, SubscribersAssumption DEF Inv, Typed, TypeOK, Runs
        <5> QED BY <5>1 DEF Inv, Typed, Numbered, Handling
      <4> QED BY <4>1, <4>2, <4>3
    <3>5. InFlight = {}
      BY <3>4 DEF InFlight
    <3> QED BY <3>3, <3>5, FS_EmptySet
  <2>4. Contract!StopEnds
    BY <1>1, <1>2, <2>2, <2>3 DEF Contract!StopEnds, Loose
  <2> QED BY <2>4 DEF Contract!Next
<1> QED BY <1>3, <1>4

(* A handler is called during a run, and returns at any time.               *)
LEMMA SlotImplements ==
  ASSUME Inv, NEW r \in Runs, NEW s \in Slots, SlotWork(r, s) \/ MessageArrives(r, s)
  PROVE  [Contract!Next]_(Contract!vars)
<1>1. /\ OnlySlot(r, s) /\ slot[r][s].pc # "off" /\ (Works(r, s) \/ Takes(r, s) \/ Returns(r, s))
      /\ UNCHANGED <<kind, handle, draining, ending, runs, died, told, loose>>
  BY SlotSteps DEF Inv, OnlySlot
<1>2. Phase' = Phase /\ Loose' = Loose
  BY <1>1, SamePhase DEF Loose
<1>3. \A q \in Runs, t \in Slots : q # r \/ t # s => slot'[q][t] = slot[q][t]
  BY <1>1 DEF OnlySlot
<1>4. CASE slot[r][s].pc = "handling" <=> slot'[r][s].pc = "handling"
  <2>1. \A q \in Runs, t \in Slots : slot'[q][t].pc = "handling" <=> slot[q][t].pc = "handling"
    BY <1>3, <1>4
  <2>2. InFlight' = InFlight
    BY <2>1 DEF InFlight, Handling
  <2> QED BY <1>1, <1>2, <2>2, Unseen
<1>5. CASE slot[r][s].pc # "handling" /\ slot'[r][s].pc = "handling"
  <2>1. Takes(r, s)
    BY <1>1, <1>5 DEF Works, Returns
  <2>2. r \in 1 .. runs /\ r \notin done
    BY <1>1, <2>1, SubscribersAssumption
       DEF Takes, Inv, Typed, TypeOK, Numbered, DoneIsQuiet, Runs
  <2>3. Phase # "stopped"
    BY <2>2, ActiveIsHeld DEF Phase
  <2>4. InFlight' = InFlight \cup {<<r, s>>} /\ <<r, s>> \notin InFlight
    BY <1>3, <1>5 DEF InFlight, Handling
  <2>5. Cardinality(InFlight') = Cardinality(InFlight) + 1
    BY <2>4, InFlightFinite, FS_AddElement
  <2>6. Contract!HandlerCalled
    BY <1>1, <1>2, <2>3, <2>5 DEF Contract!HandlerCalled, Loose
  <2> QED BY <2>6 DEF Contract!Next
<1>6. CASE slot[r][s].pc = "handling" /\ slot'[r][s].pc # "handling"
  <2>1. InFlight' = InFlight \ {<<r, s>>} /\ <<r, s>> \in InFlight
    BY <1>3, <1>6 DEF InFlight, Handling
  <2>2. Cardinality(InFlight') = Cardinality(InFlight) - 1
    BY <2>1, InFlightFinite, FS_RemoveElement
  <2>3. Cardinality(InFlight) # 0
    BY <2>1, InFlightFinite, FS_EmptySet
  <2>4. Cardinality(InFlight) > 0
    BY <2>3, InFlightFinite
  <2>5. Contract!HandlerReturns
    BY <1>1, <1>2, <2>2, <2>4 DEF Contract!HandlerReturns, Loose
  <2> QED BY <2>5 DEF Contract!Next
<1> QED BY <1>4, <1>5, <1>6

(* Only the current run dies, and only once; onError is told of the dead.   *)
LEMMA RunImplements ==
  ASSUME Inv, NEW r \in Runs, RunStep(r)
  PROVE  [Contract!Next]_(Contract!vars)
<1>1. UNCHANGED <<kind, handle, draining, ending, runs, slot>>
  BY RunTyped DEF Inv
<1>2. Phase' = Phase /\ InFlight' = InFlight
  BY <1>1, SamePhase, SameInFlight
<1>3. CASE UNCHANGED <<died, told, loose>>
  BY <1>1, <1>2, <1>3, Unseen DEF Loose
<1>4. ASSUME r \in 1 .. runs, r \notin done, r \notin died, died' = died \cup {r}, told' = told,
             loose \subseteq loose'
      PROVE  Contract!Next
  <2>1. r = runs /\ Phase # "stopped"
    BY <1>4, ActiveIsHeld DEF Phase
  <2>2. Loose => Loose'
    BY <1>1, <1>4 DEF Loose
  <2>3. Contract!Die
    BY <1>1, <1>2, <1>4, <2>1, <2>2 DEF Contract!Die, Loose
  <2> QED BY <2>3 DEF Contract!Next
<1>5. CASE WorkersGone(r) \/ DrainEnds(r) \/ ClosesDone(r) \/ FindsStop(r) \/ OnErrorReturns(r)
           \/ \E c \in Stops : OnErrorStops(r, c)
  <2>1. UNCHANGED <<died, told, loose>>
    BY <1>5 DEF WorkersGone, DrainEnds, ClosesDone, FindsStop, OnErrorReturns, OnErrorStops,
       WatcherStep, History
  <2> QED BY <1>3, <2>1
<1>6. CASE ReceiveReturns(r) \/ ConsumerCloses(r)
  <2>1. r \in 1 .. runs /\ r \notin done /\ EndsOrFails(r) /\ UNCHANGED <<told, loose>>
    BY <1>6 DEF ReceiveReturns, ConsumerCloses, Sdk
  <2>2. died' = died \/ (died' = died \cup {r} /\ r \notin died)
    BY <2>1 DEF EndsOrFails
  <2> QED BY <1>3, <1>4, <2>1, <2>2
<1>7. CASE ConnectionCloses(r)
  <2>1. /\ r \in 1 .. runs /\ r \notin done /\ kind = "core" /\ UNCHANGED told
        /\ died' = died \cup {r} /\ loose' = loose \cup {r}
    BY <1>7 DEF ConnectionCloses, Sdk
  <2>2. r \notin died
    BY <2>1 DEF Inv, Watched
  <2> QED BY <1>4, <2>1, <2>2
<1>8. CASE FindsFailure(r)
  <2>1. watcher[r] = "checking" /\ r \notin ending /\ told' = told \cup {r} /\ UNCHANGED <<died, loose>>
    BY <1>8 DEF FindsFailure, WatcherStep
  <2>2. r \in died
    BY <2>1 DEF Inv, Watched
  <2>3. CASE r \in told
    BY <1>3, <2>1, <2>3
  <2>4. CASE r \notin told
    <3>1. Contract!Tell(r)
      BY <1>1, <1>2, <2>1, <2>2, <2>4 DEF Contract!Tell
    <3> QED BY <2>2, <3>1 DEF Contract!Next
  <2> QED BY <2>3, <2>4
<1> QED BY <1>5, <1>6, <1>7, <1>8 DEF RunStep, RunWork, RunEnds

(* The five subscribers keep the contract the mux relies on, each for any   *)
(* number of Starts, Stops, concurrent handlers and failures: a run ends    *)
(* once no handler is in flight, loose ones apart, and at most one call of  *)
(* onError tells of its death.                                              *)
THEOREM ContractKept == Spec => KeepsContract
<1>1. Inv /\ [Next]_vars => [Contract!Next]_(Contract!vars)
  <2> SUFFICES ASSUME Inv, [Next]_vars PROVE [Contract!Next]_(Contract!vars)
    OBVIOUS
  <2>1. CASE Next
    BY <2>1, StartImplements, StopImplements, SlotImplements, RunImplements DEF Next, RunStep
  <2>2. CASE UNCHANGED vars
    <3>1. UNCHANGED <<kind, handle, draining, ending, runs, slot, died, told, loose>>
      BY <2>2 DEF vars
    <3> QED BY <3>1, Unseen, SamePhase, SameInFlight DEF Loose
  <2> QED BY <2>1, <2>2
<1> QED BY InitImplements, Invariance, <1>1, PTL DEF Spec, KeepsContract, Contract!Spec

=============================================================================
