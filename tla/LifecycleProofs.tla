-------------------------- MODULE LifecycleProofs ---------------------------
(***************************************************************************)
(* LifecycleGroup keeps its invariants for any number of members, callers   *)
(* and faults; and so does the Service that is built on it, for any number  *)
(* of events and disconnects.                                               *)
(*                                                                         *)
(* The argument for the group: as long as callers do not begin a Start      *)
(* while another one has not returned (~Overlap), running is the number of  *)
(* members before the one being started, or zero once a Stop has run.  A    *)
(* Start that finds the group started was therefore not cut short, and one  *)
(* that finds it stopped has exactly one member in hand.  What is up is     *)
(* below running, in hand, or did not stop.                                 *)
(*                                                                         *)
(* The argument for the service: only the walk of the Run's Stop drains the *)
(* connection, and it comes to it once it is past the mux.  A mux that      *)
(* stopped in time has no handler left, so nothing is published over the    *)
(* connection from then on, and the drain writes what is in its buffer.     *)
(***************************************************************************)
EXTENDS Service, TLAPS

(* The member being started is one of those cloned.                         *)
Bounded ==
  \A c \in Calls :
    /\ InStart(c) => c \in Starters /\ call[c].at \in 1 .. call[c].of
    /\ call[c].pc = "ready" => call[c].at = 0

(* The lock is held by the call that walks, and by nobody else.             *)
Locked == \A c \in Calls : call[c].pc = "walking" <=> mu = c

(* No two calls are starting members.                                       *)
OneStart == \A c, d \in Calls : InStart(c) /\ InStart(d) => c = d

(* running counts the members before the one being started, unless a Stop   *)
(* reset it.                                                                *)
Counted ==
  /\ ~started => running = 0
  /\ \A c \in Calls :
       /\ InStart(c) /\ started => running = call[c].at - 1
       /\ call[c].pc = "unaccounted" => ~started
       /\ call[c].pc = "walking" => call[c].at <= running

(* The members counted are up; during a walk, those it has not reached; and *)
(* so is a member in hand.                                                  *)
CountedUp ==
  /\ mu = Nobody => 1 .. running \subseteq up
  /\ \A c \in Calls : call[c].pc = "walking" => 1 .. call[c].at \subseteq up
  /\ \A c \in Calls : call[c].pc \in {"accounting", "unaccounted"} => call[c].at \in up

(* A walk leaves behind only what did not stop, or is in hand.              *)
Behind ==
  \A c \in Calls : call[c].pc = "walking" =>
    \A i \in up : i \in stuck \/ InHand(i) \/ i <= call[c].at

(* A Start cut short finds the group stopped, once the walk is over, and    *)
(* the result is decided when it returns.                                   *)
CutShort ==
  \A c \in Calls :
    /\ call[c].pc = "ready" => ~call[c].cut /\ call[c].result = "none"
    /\ InStart(c) /\ call[c].pc # "aborting" => call[c].result = "none"
    /\ call[c].pc = "aborting" => call[c].result = "startFailed"
    /\ call[c].cut /\ call[c].pc \in {"starting", "accounting"} => mu # Nobody \/ ~started
    /\ call[c].cut => call[c].result # "ok"

Inv ==
  /\ TypeOK /\ Bounded
  /\ Locked /\ OneStart /\ Counted /\ CountedUp /\ Behind /\ CutShort
  /\ Accounted /\ DependenciesUp

-----------------------------------------------------------------------------
(* What a call of Set leaves and what it changes.                           *)
LEMMA SetCall ==
  ASSUME TypeOK, NEW c \in Calls, NEW k \in Call, Set(c, k)
  PROVE  /\ call' \in [Calls -> Call]
         /\ call'[c] = k
         /\ \A d \in Calls \ {c} : call'[d] = call[d]
BY DEF TypeOK, Set

LEMMA NextMemberType ==
  ASSUME NEW k \in Call, k.at <= k.of
  PROVE  /\ NextMember(k) \in Call
         /\ NextMember(k).of = k.of /\ NextMember(k).cut = k.cut
         /\ \/ k.at = k.of /\ NextMember(k).pc = "returned" /\ NextMember(k).result = "ok"
            \/ /\ k.at < k.of /\ NextMember(k).pc = "starting"
               /\ NextMember(k).at = k.at + 1 /\ NextMember(k).result = k.result
<1>1. CASE k.at = k.of
  <2>1. NextMember(k) = [k EXCEPT !.pc = "returned", !.result = "ok"]
    BY <1>1 DEF NextMember, StartReturns
  <2> QED BY <1>1, <2>1 DEF Call, Places, Results
<1>2. CASE k.at # k.of
  <2>1. NextMember(k) = [k EXCEPT !.pc = "starting", !.at = k.at + 1]
    BY <1>2 DEF NextMember
  <2>2. k.at < k.of /\ k.at \in Nat /\ k.at + 1 \in Nat
    BY <1>2, GroupAssumption DEF Call
  <2> DEFINE l == [k EXCEPT !.at = k.at + 1]
  <2>3. l \in Call /\ l.at = k.at + 1 /\ l.of = k.of /\ l.cut = k.cut /\ l.result = k.result
    BY <2>2 DEF Call
  <2>4. NextMember(k) = [l EXCEPT !.pc = "starting"]
    BY <2>1 DEF Call
  <2> HIDE DEF l
  <2> QED BY <2>2, <2>3, <2>4 DEF Call, Places
<1> QED BY <1>1, <1>2

(* What a walk does to the other calls: it cuts short those that start.     *)
LEMMA WalkBeginsCall ==
  ASSUME TypeOK, NEW c \in Calls, WalkBegins(c)
  PROVE  /\ call' \in [Calls -> Call]
         /\ call'[c] = [call[c] EXCEPT !.pc = "walking", !.at = running]
         /\ \A d \in Calls \ {c} :
              /\ call'[d].pc = call[d].pc /\ call'[d].at = call[d].at
              /\ call'[d].of = call[d].of /\ call'[d].result = call[d].result
              /\ call[d].cut => call'[d].cut
              /\ call'[d].cut => call[d].cut \/ call[d].pc = "starting"
<1>1. call \in [Calls -> Call] /\ running \in Nat
  BY DEF TypeOK
<1>2. [call[c] EXCEPT !.pc = "walking", !.at = running] \in Call
  BY <1>1 DEF Call, Places
<1>3. \A d \in Calls : [call[d] EXCEPT !.cut = TRUE] \in Call
  BY <1>1 DEF Call
<1>4. call' \in [Calls -> Call]
  BY <1>1, <1>2, <1>3 DEF WalkBegins
<1>5. call'[c] = [call[c] EXCEPT !.pc = "walking", !.at = running]
  BY DEF WalkBegins
<1>6. ASSUME NEW d \in Calls \ {c}
      PROVE  \/ call[d].pc = "starting" /\ call'[d] = [call[d] EXCEPT !.cut = TRUE]
             \/ call'[d] = call[d]
  BY <1>6 DEF WalkBegins
<1> QED BY <1>1, <1>4, <1>5, <1>6 DEF Call

LEMMA AfterWalkPlace ==
  ASSUME NEW c \in Calls
  PROVE  /\ AfterWalk(c) \in {"returned", "stopped", "done"}
         /\ c \in Runs => AfterWalk(c) # "done"
BY DEF AfterWalk

-----------------------------------------------------------------------------
(* Types.                                                                   *)

LEMMA InitType == Init => TypeOK /\ Bounded
<1> SUFFICES ASSUME Init PROVE TypeOK /\ Bounded
  OBVIOUS
<1>1. Ready \in Call /\ Ready.pc = "ready" /\ Ready.at = 0
  BY GroupAssumption DEF Ready, Call, Places, Results
<1>2. call \in [Calls -> Call] /\ \A c \in Calls : call[c] = Ready
  BY <1>1 DEF Init
<1>3. given \in [Members -> SUBSET Starters]
  BY DEF Init
<1>4. TypeOK
  <2>1. size \in 0 .. N /\ started \in BOOLEAN /\ running \in Nat /\ stopping \in BOOLEAN
    BY DEF Init
  <2>2. up = {} /\ stuck = {} /\ reports = {} /\ fired = {} /\ ended = {} /\ mu = Nobody
    BY DEF Init
  <2>3. faults \in 0 .. MaxFaults
    BY GroupAssumption DEF Init
  <2> QED BY <1>2, <1>3, <2>1, <2>2, <2>3 DEF TypeOK
<1>5. Bounded
  BY <1>1, <1>2 DEF Bounded, InStart
<1> QED BY <1>4, <1>5

(* The steps that change one call, and components at most by the member it  *)
(* is at.                                                                   *)
LEMMA StepType ==
  ASSUME TypeOK, Bounded, NEW c \in Calls, Step(c)
  PROVE  TypeOK' /\ Bounded'
<1> USE GroupAssumption DEF TypeOK, Bounded, InStart, GroupFields, Components, Failures, Fault,
                            StartReturns, Starters
<1>0. call[c] \in Call /\ call[c].at \in Nat /\ call[c].of \in 0 .. N
  BY DEF Call
<1>1. CASE StartRefused(c)
  <2> DEFINE k == StartReturns(call[c], "alreadyStarted")
  <2>1. k \in Call /\ k.pc = "returned"
    BY <1>0 DEF Call, Places, Results
  <2>2. call' \in [Calls -> Call] /\ call'[c] = k /\ \A d \in Calls \ {c} : call'[d] = call[d]
    BY <1>1, <2>1, SetCall DEF StartRefused
  <2> QED BY <1>1, <2>1, <2>2 DEF StartRefused
<1>2. CASE StartBegins(c) /\ c \in Starters
  <2> DEFINE k == [call[c] EXCEPT !.of = size]
  <2>1. k \in Call /\ k.at = 0 /\ k.of = size
    BY <1>0, <1>2 DEF StartBegins, Call
  <2> HIDE DEF k
  <2>2. call' \in [Calls -> Call] /\ call'[c] = NextMember(k) /\ \A d \in Calls \ {c} : call'[d] = call[d]
    <3>1. Set(c, NextMember(k))
      BY <1>2 DEF StartBegins, k
    <3>2. NextMember(k) \in Call
      BY <2>1, NextMemberType
    <3> QED BY <3>1, <3>2, SetCall
  <2>3. NextMember(k).pc \in {"returned", "starting"} /\ NextMember(k).of = size
        /\ (NextMember(k).pc = "starting" => NextMember(k).at = 1 /\ size > 0)
    BY <2>1, NextMemberType
  <2>4. TypeOK'
    BY <1>2, <2>2 DEF StartBegins
  <2>5. Bounded'
    BY <1>2, <2>2, <2>3
  <2> QED BY <2>4, <2>5
<1>3. CASE ComponentStarts(c)
  <2> DEFINE k == [call[c] EXCEPT !.pc = "accounting"]
  <2>1. k \in Call /\ k.pc = "accounting" /\ k.at = call[c].at /\ k.of = call[c].of
    BY <1>0 DEF Call, Places
  <2>2. call' \in [Calls -> Call] /\ call'[c] = k /\ \A d \in Calls \ {c} : call'[d] = call[d]
    BY <1>3, <2>1, SetCall DEF ComponentStarts
  <2>3. call[c].at \in Members /\ c \in Starters
    BY <1>0, <1>3 DEF ComponentStarts, Members
  <2> QED BY <1>3, <2>1, <2>2, <2>3 DEF ComponentStarts
<1>4. CASE ComponentStartFails(c)
  <2> DEFINE k == [call[c] EXCEPT !.pc = "aborting", !.result = "startFailed"]
  <2>1. k \in Call /\ k.pc = "aborting" /\ k.at = call[c].at /\ k.of = call[c].of
    BY <1>0 DEF Call, Places, Results
  <2>2. call' \in [Calls -> Call] /\ call'[c] = k /\ \A d \in Calls \ {c} : call'[d] = call[d]
    BY <1>4, <2>1, SetCall DEF ComponentStartFails
  <2>3. faults' \in 0 .. MaxFaults
    BY <1>4 DEF ComponentStartFails
  <2> QED BY <1>4, <2>1, <2>2, <2>3 DEF ComponentStartFails
<1>5. CASE Account(c)
  <2>1. call[c].at <= call[c].of /\ c \in Starters
    BY <1>0, <1>5 DEF Account
  <2>2. call' \in [Calls -> Call] /\ call'[c] = NextMember(call[c]) /\ \A d \in Calls \ {c} : call'[d] = call[d]
    BY <1>0, <1>5, <2>1, SetCall, NextMemberType DEF Account
  <2> QED BY <1>0, <1>5, <2>1, <2>2, NextMemberType DEF Account
<1>6. CASE FoundStopped(c)
  <2> DEFINE k == [call[c] EXCEPT !.pc = "unaccounted"]
  <2>1. k \in Call /\ k.pc = "unaccounted" /\ k.at = call[c].at /\ k.of = call[c].of
    BY <1>0 DEF Call, Places
  <2>2. call' \in [Calls -> Call] /\ call'[c] = k /\ \A d \in Calls \ {c} : call'[d] = call[d]
    BY <1>6, <2>1, SetCall DEF FoundStopped
  <2> QED BY <1>6, <2>1, <2>2 DEF FoundStopped
<1>7. CASE StopUnaccounted(c)
  <2> DEFINE k == StartReturns(call[c], "stoppedDuringStart")
             l == [k EXCEPT !.stopErr = TRUE]
  <2>1. k \in Call /\ k.pc = "returned" /\ l \in Call /\ l.pc = "returned"
    BY <1>0 DEF Call, Places, Results
  <2>2. \E m \in {k, l} :
          call' \in [Calls -> Call] /\ call'[c] = m /\ \A d \in Calls \ {c} : call'[d] = call[d]
    BY <1>7, <2>1, SetCall DEF StopUnaccounted
  <2>3. up' \subseteq Members /\ stuck' \subseteq up' /\ faults' \in 0 .. MaxFaults
    BY <1>7 DEF StopUnaccounted, ComponentStops, ComponentStopFails
  <2> QED BY <1>7, <2>1, <2>2, <2>3 DEF StopUnaccounted
<1>8. CASE AbortStart(c) \/ Stop(c)
  <2>1. WalkBegins(c)
    BY <1>8 DEF AbortStart, Stop
  <2>2. call'[c].pc = "walking"
    <3>1. call'[c] = [call[c] EXCEPT !.pc = "walking", !.at = running]
      BY <2>1, WalkBeginsCall
    <3> QED BY <1>0, <3>1 DEF Call
  <2>3. call' \in [Calls -> Call]
        /\ \A d \in Calls \ {c} : call'[d].pc = call[d].pc /\ call'[d].at = call[d].at
                                /\ call'[d].of = call[d].of
    BY <2>1, WalkBeginsCall
  <2> QED BY <2>1, <2>2, <2>3 DEF WalkBegins
<1>9. CASE StopIdle(c)
  <2> DEFINE k == [call[c] EXCEPT !.pc = AfterWalk(c)]
  <2>1. k \in Call /\ k.pc \in {"returned", "stopped", "done"}
    BY <1>0, AfterWalkPlace DEF Call, Places
  <2>2. call' \in [Calls -> Call] /\ call'[c] = k /\ \A d \in Calls \ {c} : call'[d] = call[d]
    BY <1>9, <2>1, SetCall DEF StopIdle
  <2> QED BY <1>9, <2>1, <2>2 DEF StopIdle
<1>10. CASE WalkStep(c)
  <2> DEFINE k == [call[c] EXCEPT !.at = call[c].at - 1]
             l == [k EXCEPT !.stopErr = TRUE]
  <2>1. k \in Call /\ k.pc = "walking" /\ l \in Call /\ l.pc = "walking"
    <3>1. call[c].pc = "walking" /\ call[c].at - 1 \in Nat
      BY <1>0, <1>10 DEF WalkStep
    <3>2. k \in Call /\ k.pc = "walking"
      BY <1>0, <3>1 DEF Call
    <3> HIDE DEF k
    <3> QED BY <3>2 DEF Call
  <2>2. \E m \in {k, l} :
          call' \in [Calls -> Call] /\ call'[c] = m /\ \A d \in Calls \ {c} : call'[d] = call[d]
    BY <1>10, <2>1, SetCall DEF WalkStep
  <2>3. up' \subseteq Members /\ stuck' \subseteq up' /\ faults' \in 0 .. MaxFaults
    BY <1>10 DEF WalkStep, ComponentStops, ComponentStopFails
  <2> QED BY <1>10, <2>1, <2>2, <2>3 DEF WalkStep
<1>11. CASE WalkEnds(c)
  <2> DEFINE k == [call[c] EXCEPT !.pc = AfterWalk(c)]
  <2>1. k \in Call /\ k.pc \in {"returned", "stopped", "done"}
    BY <1>0, AfterWalkPlace DEF Call, Places
  <2>2. call' \in [Calls -> Call] /\ call'[c] = k /\ \A d \in Calls \ {c} : call'[d] = call[d]
    BY <1>11, <2>1, SetCall DEF WalkEnds
  <2> QED BY <1>11, <2>1, <2>2 DEF WalkEnds
<1>12. CASE StartDone(c) \/ RunWaits(c) \/ RunStartFailed(c) \/ RunReturns(c)
  <2> DEFINE K == {[call[c] EXCEPT !.pc = "done"], [call[c] EXCEPT !.pc = "waiting"]}
                    \cup {Answer(call[c], a) : a \in {"nil", "error", "failure"}}
  <2>1. \A k \in K : k \in Call /\ k.pc \in {"done", "waiting"}
    <3>1. ASSUME NEW p \in {"done", "waiting"}
          PROVE  [call[c] EXCEPT !.pc = p] \in Call /\ [call[c] EXCEPT !.pc = p].pc = p
      BY <1>0 DEF Call, Places
    <3>2. ASSUME NEW a \in {"nil", "error", "failure"}
          PROVE  Answer(call[c], a) \in Call /\ Answer(call[c], a).pc = "done"
      BY <1>0 DEF Call, Places, Answer
    <3> QED BY <3>1, <3>2
  <2>2. \E k \in K : Set(c, k)
    BY <1>12 DEF StartDone, RunWaits, RunStartFailed, RunReturns
  <2> HIDE DEF K
  <2>3. PICK k \in K :
          call' \in [Calls -> Call] /\ call'[c] = k /\ \A d \in Calls \ {c} : call'[d] = call[d]
    BY <2>1, <2>2, SetCall
  <2>4. UNCHANGED <<GroupFields, mu, Components, Failures, faults>>
    BY <1>12 DEF StartDone, RunWaits, RunStartFailed, RunReturns
  <2> QED BY <2>1, <2>3, <2>4
<1> QED BY <1>1, <1>2, <1>3, <1>4, <1>5, <1>6, <1>7, <1>8, <1>9, <1>10, <1>11, <1>12
        DEF Step, StartStep

LEMMA NextType ==
  ASSUME TypeOK, Bounded, Next
  PROVE  TypeOK' /\ Bounded'
<1> USE GroupAssumption DEF TypeOK, Bounded, InStart, GroupFields, Components, Failures, Fault
<1>1. ASSUME NEW c \in Calls, Step(c) PROVE TypeOK' /\ Bounded'
  BY <1>1, StepType
<1>2. ASSUME NEW c \in Calls, OnFatal(c) PROVE TypeOK' /\ Bounded'
  BY <1>2 DEF OnFatal
<1>3. ASSUME NEW i \in Members, NEW c \in Starters, Report(i, c) PROVE TypeOK' /\ Bounded'
  BY <1>3 DEF Report
<1>4. ASSUME NEW c \in Runs, ContextEnds(c) PROVE TypeOK' /\ Bounded'
  BY <1>4 DEF ContextEnds
<1>5. CASE Add
  BY <1>5 DEF Add
<1> QED BY <1>1, <1>2, <1>3, <1>4, <1>5 DEF Next

LEMMA Typed == Spec => [](TypeOK /\ Bounded)
<1>1. TypeOK /\ Bounded /\ UNCHANGED vars => TypeOK' /\ Bounded'
  BY DEF TypeOK, Bounded, InStart, vars
<1> QED BY InitType, NextType, <1>1, PTL DEF Spec

(* Every variable keeps its type, however many Starts overlap.              *)
THEOREM TypeCorrect == Spec => []TypeOK
BY Typed, PTL

-----------------------------------------------------------------------------
(* The invariant, one action after the other.                               *)

LEMMA InitInv == Init => Inv
<1> SUFFICES ASSUME Init PROVE Inv
  OBVIOUS
<1>1. \A c \in Calls : /\ call[c].pc = "ready" /\ call[c].result = "none" /\ ~call[c].cut
                       /\ call[c].at = 0
  BY DEF Init, Ready
<1>2. Locked /\ OneStart /\ Counted /\ CountedUp /\ Behind /\ CutShort
  BY <1>1, GroupAssumption DEF Init, Locked, OneStart, Counted, CountedUp, Behind, CutShort, InStart
<1>3. Accounted /\ DependenciesUp
  BY DEF Init, Accounted, DependenciesUp
<1> QED BY <1>2, <1>3, InitType DEF Inv

(* The steps that start, stop and hold nothing.                             *)
LEMMA NoCallStep ==
  ASSUME Inv, TypeOK', Bounded', UNCHANGED <<started, running, mu, up, stuck, call>>
  PROVE  Inv'
<1> USE DEF Inv, InStart
<1>1. Locked' /\ OneStart' /\ Counted' /\ CountedUp' /\ CutShort'
  BY DEF Locked, OneStart, Counted, CountedUp, CutShort
<1>2. Behind' /\ Accounted' /\ DependenciesUp'
  BY DEF Behind, Accounted, DependenciesUp, InHand
<1> QED BY <1>1, <1>2

LEMMA QuietStep ==
  ASSUME Inv, TypeOK', Bounded', NEW c \in Calls, UNCHANGED <<started, running, mu, up, stuck>>,
         ~InStart(c), call[c].pc # "walking",
         call'[c].pc \in {"returned", "waiting", "stopped", "done"},
         call'[c].cut => call'[c].result # "ok",
         \A d \in Calls \ {c} : call'[d] = call[d]
  PROVE  Inv'
<1> USE DEF Inv, InStart
<1>1. Locked' /\ OneStart' /\ Counted' /\ CountedUp' /\ CutShort'
  BY DEF Locked, OneStart, Counted, CountedUp, CutShort
<1>2. \A i : InHand(i)' <=> InHand(i)
  BY DEF InHand, Calls, Starters
<1>3. Behind' /\ Accounted' /\ DependenciesUp'
  BY <1>2 DEF Behind, Accounted, DependenciesUp
<1> QED BY <1>1, <1>3

LEMMA StartBeginsStep ==
  ASSUME ~Overlap, Inv, TypeOK', Bounded', NEW c \in Starters, StartBegins(c)
  PROVE  Inv'
<1> USE DEF Inv, InStart
<1> DEFINE k == [call[c] EXCEPT !.of = size]
<1>1. c \in Calls /\ call[c] \in Call /\ call[c].pc = "ready" /\ ~call[c].cut /\ call[c].at = 0
  BY DEF StartBegins, Calls, Starters, TypeOK, CutShort, Bounded
<1>2. /\ k \in Call /\ k.at = 0 /\ k.of = size /\ ~k.cut /\ k.result = call[c].result
      /\ k.at <= k.of
  BY <1>1 DEF TypeOK, Call
<1>3. Set(c, NextMember(k)) /\ call' = [call EXCEPT ![c] = NextMember(k)]
  BY DEF StartBegins, Set
<1> HIDE DEF k
<1>4. /\ call'[c] = NextMember(k) /\ ~call'[c].cut
      /\ \/ call'[c].pc = "returned"
         \/ call'[c].pc = "starting" /\ call'[c].at = 1 /\ call'[c].result = call[c].result
      /\ \A d \in Calls \ {c} : call'[d] = call[d]
  BY <1>1, <1>2, <1>3, NextMemberType DEF TypeOK
<1>5. \A d \in Calls : ~InStart(d)
  BY DEF StartBegins
<1>6. \A d \in Calls : call[d].pc # "walking"
  BY GroupAssumption DEF StartBegins, Locked
<1>7. Locked' /\ OneStart'
  BY <1>1, <1>4, <1>5, <1>6, GroupAssumption DEF StartBegins, Locked, OneStart
<1>8. Counted' /\ CountedUp'
  BY <1>4, <1>5, <1>6 DEF StartBegins, Counted, CountedUp
<1>9. CutShort'
  <2>1. call[c].result = "none"
    BY <1>1 DEF CutShort
  <2> QED BY <1>4, <1>5, <2>1 DEF CutShort
<1>10. \A i : ~InHand(i) /\ ~InHand(i)'
  BY <1>4, <1>5 DEF InHand, Calls, Starters
<1>11. Behind' /\ Accounted' /\ DependenciesUp'
  <2>1. \A i \in up : i \in stuck
    BY <1>10 DEF StartBegins, Accounted
  <2> QED BY <1>4, <1>6, <2>1 DEF StartBegins, Components, Behind, Accounted, DependenciesUp
<1> QED BY <1>7, <1>8, <1>9, <1>11

(* A member that has started is in the hands of the call that started it.   *)
LEMMA ComponentStartsStep ==
  ASSUME Inv, TypeOK', Bounded', NEW c \in Starters, ComponentStarts(c)
  PROVE  Inv'
<1> USE DEF Inv, InStart, GroupFields
<1>0. PICK i : i = call[c].at
  OBVIOUS
<1>1. /\ c \in Calls /\ call[c] \in Call /\ call[c].pc = "starting"
      /\ up' = up \cup {i} /\ UNCHANGED <<stuck, started, running, mu>>
  BY <1>0 DEF ComponentStarts, Calls, Starters, TypeOK
<1>2. /\ call'[c].pc = "accounting" /\ call'[c].at = i /\ call'[c].cut = call[c].cut
      /\ call'[c].result = call[c].result
      /\ \A d \in Calls \ {c} : call'[d] = call[d]
  BY <1>0, <1>1 DEF ComponentStarts, Set, TypeOK, Call
<1>3. Locked' /\ OneStart' /\ Counted' /\ CountedUp' /\ CutShort'
  BY <1>0, <1>1, <1>2 DEF Locked, OneStart, Counted, CountedUp, CutShort
<1>4. InHand(i)' /\ \A j : InHand(j) => InHand(j)'
  BY <1>1, <1>2 DEF InHand, Calls, Starters
<1>5. Behind' /\ Accounted' /\ DependenciesUp'
  BY <1>1, <1>2, <1>4 DEF Behind, Accounted, DependenciesUp
<1> QED BY <1>3, <1>5

LEMMA ComponentStartFailsStep ==
  ASSUME Inv, TypeOK', Bounded', NEW c \in Starters, ComponentStartFails(c)
  PROVE  Inv'
<1> USE DEF Inv, InStart, GroupFields, Components
<1>1. /\ c \in Calls /\ call[c] \in Call /\ call[c].pc = "starting"
      /\ UNCHANGED <<up, stuck, started, running, mu>>
  BY DEF ComponentStartFails, Calls, Starters, TypeOK
<1>2. /\ call'[c].pc = "aborting" /\ call'[c].at = call[c].at
      /\ call'[c].result = "startFailed"
      /\ \A d \in Calls \ {c} : call'[d] = call[d]
  BY <1>1 DEF ComponentStartFails, Set, TypeOK, Call
<1>3. Locked' /\ OneStart' /\ Counted' /\ CountedUp' /\ CutShort'
  BY <1>1, <1>2 DEF Locked, OneStart, Counted, CountedUp, CutShort
<1>4. \A j : InHand(j)' <=> InHand(j)
  BY <1>1, <1>2 DEF InHand, Calls, Starters
<1>5. Behind' /\ Accounted' /\ DependenciesUp'
  BY <1>1, <1>2, <1>4 DEF Behind, Accounted, DependenciesUp
<1> QED BY <1>3, <1>5

(* A member is counted when everything before it is counted, and up.        *)
LEMMA AccountStep ==
  ASSUME Inv, TypeOK', Bounded', NEW c \in Starters, Account(c)
  PROVE  Inv'
<1> USE DEF Inv, InStart
<1> DEFINE i == call[c].at
<1>1. /\ c \in Calls /\ call[c] \in Call /\ call[c].pc = "accounting" /\ started /\ mu = Nobody
      /\ running' = running + 1 /\ UNCHANGED <<up, stuck, started, mu>>
  BY DEF Account, Components, Calls, Starters, TypeOK
<1>2. i \in Nat /\ call[c].of \in Nat /\ i <= call[c].of /\ i >= 1
  BY <1>1, GroupAssumption DEF Bounded, Call
<1>3. running = i - 1 /\ call[c].result = "none" /\ ~call[c].cut
  BY <1>1 DEF Counted, CutShort
<1>4. /\ ~call'[c].cut
      /\ \/ call'[c].pc = "returned"
         \/ call'[c].pc = "starting" /\ call'[c].at = i + 1 /\ call'[c].result = "none"
      /\ \A d \in Calls \ {c} : call'[d] = call[d]
  <2>1. call' = [call EXCEPT ![c] = NextMember(call[c])]
    BY DEF Account, Set
  <2> QED BY <1>1, <1>2, <1>3, <2>1, NextMemberType DEF TypeOK
<1>5. \A d \in Calls \ {c} : ~InStart(d) /\ call[d].pc # "walking"
  BY <1>1, GroupAssumption DEF OneStart, Locked
<1>6. i \in up /\ 1 .. running \subseteq up
  BY <1>1 DEF CountedUp
<1> HIDE DEF i
<1>7. Locked' /\ OneStart'
  BY <1>1, <1>4, <1>5, GroupAssumption DEF Locked, OneStart
<1>8. Counted'
  BY <1>1, <1>2, <1>3, <1>4, <1>5 DEF Counted, TypeOK
<1>9. CountedUp'
  <2>1. 1 .. running' \subseteq up
    BY <1>1, <1>2, <1>3, <1>6
  <2> QED BY <1>1, <1>4, <1>5, <2>1 DEF CountedUp
<1>10. CutShort'
  BY <1>4, <1>5 DEF CutShort
<1>11. \A j : InHand(j) => j = i
  BY <1>5 DEF InHand, Calls, Starters, i
<1>12. \A j \in up : j \in stuck \/ (started /\ j <= running')
  BY <1>1, <1>2, <1>3, <1>11 DEF Accounted, TypeOK, Members
<1>13. Behind' /\ Accounted'
  BY <1>1, <1>4, <1>5, <1>12 DEF Behind, Accounted
<1>14. DependenciesUp'
  <2>1. 1 .. running' \subseteq up
    BY <1>1, <1>2, <1>3, <1>6
  <2>2. \A j \in up : j \in Nat
    BY DEF TypeOK, Members
  <2>3. running' \in Nat
    BY DEF TypeOK
  <2> QED BY <1>1, <1>12, <2>1, <2>2, <2>3 DEF DependenciesUp
<1> QED BY <1>7, <1>8, <1>9, <1>10, <1>13, <1>14

LEMMA FoundStoppedStep ==
  ASSUME Inv, TypeOK', Bounded', NEW c \in Starters, FoundStopped(c)
  PROVE  Inv'
<1> USE DEF Inv, InStart, GroupFields, Components
<1>1. /\ c \in Calls /\ call[c] \in Call /\ call[c].pc = "accounting" /\ ~started
      /\ UNCHANGED <<up, stuck, started, running, mu>>
  BY DEF FoundStopped, Calls, Starters, TypeOK
<1>2. /\ call'[c].pc = "unaccounted" /\ call'[c].at = call[c].at /\ call'[c].cut = call[c].cut
      /\ call'[c].result = call[c].result
      /\ \A d \in Calls \ {c} : call'[d] = call[d]
  BY <1>1 DEF FoundStopped, Set, TypeOK, Call
<1>3. Locked' /\ OneStart' /\ Counted' /\ CountedUp' /\ CutShort'
  BY <1>1, <1>2 DEF Locked, OneStart, Counted, CountedUp, CutShort
<1>4. \A j : InHand(j)' <=> InHand(j)
  BY <1>1, <1>2 DEF InHand, Calls, Starters
<1>5. Behind' /\ Accounted' /\ DependenciesUp'
  BY <1>1, <1>2, <1>4 DEF Behind, Accounted, DependenciesUp
<1> QED BY <1>3, <1>5

(* The group is stopped, so that nothing that is up rests on the member in  *)
(* hand: whatever else is up did not stop.                                  *)
LEMMA StopUnaccountedStep ==
  ASSUME Inv, TypeOK', Bounded', NEW c \in Starters, StopUnaccounted(c)
  PROVE  Inv'
<1> USE DEF Inv, InStart, GroupFields
<1>0. PICK i : i = call[c].at
  OBVIOUS
<1>1. /\ c \in Calls /\ call[c] \in Call /\ call[c].pc = "unaccounted" /\ ~started
      /\ UNCHANGED <<started, running, mu>> /\ running = 0 /\ call[c].result = "none"
  BY DEF StopUnaccounted, Calls, Starters, TypeOK, Counted, CutShort
<1>2. /\ call'[c].pc = "returned" /\ call'[c].result = "stoppedDuringStart"
      /\ \A d \in Calls \ {c} : call'[d] = call[d]
  <2> DEFINE k == StartReturns(call[c], "stoppedDuringStart")
             l == [k EXCEPT !.stopErr = TRUE]
  <2>1. k \in Call /\ k.pc = "returned" /\ k.result = "stoppedDuringStart"
    BY <1>1 DEF StartReturns, Call, Places, Results
  <2>2. l.pc = "returned" /\ l.result = "stoppedDuringStart"
    BY <2>1 DEF Call
  <2>3. \E m \in {k, l} : call' = [call EXCEPT ![c] = m]
    BY DEF StopUnaccounted, Set
  <2> HIDE DEF k, l
  <2> QED BY <1>1, <2>1, <2>2, <2>3 DEF TypeOK
<1>3. \/ up' = up \ {i} /\ stuck' = stuck \ {i}
      \/ up' = up /\ stuck' = stuck \cup {i}
  BY <1>0 DEF StopUnaccounted, ComponentStops, ComponentStopFails
<1>4. \A d \in Calls \ {c} : ~InStart(d)
  BY <1>1 DEF OneStart
<1>5. \A j : (InHand(j) => j = i) /\ ~InHand(j)'
  BY <1>0, <1>1, <1>2, <1>4 DEF InHand, Calls, Starters
<1>6. \A j \in up : j \in stuck \/ j = i
  BY <1>1, <1>5 DEF Accounted
<1>7. \A j \in up' : j \in stuck'
  BY <1>3, <1>6 DEF TypeOK
<1>8. Locked' /\ OneStart' /\ Counted' /\ CutShort'
  BY <1>1, <1>2, <1>4 DEF Locked, OneStart, Counted, CutShort
<1>9. CountedUp'
  <2>1. \A d \in Calls : call[d].pc = "walking" => call[d].at = 0
    BY <1>1 DEF Counted, TypeOK, Call
  <2>2. 1 .. 0 = {}
    OBVIOUS
  <2> QED BY <1>1, <1>2, <1>4, <2>1, <2>2 DEF CountedUp
<1>10. Behind' /\ Accounted' /\ DependenciesUp'
  BY <1>7 DEF Behind, Accounted, DependenciesUp
<1> QED BY <1>8, <1>9, <1>10

(* What is up and counted is about to be reached; what is not is stuck, or  *)
(* in the hands of another call.                                            *)
LEMMA WalkBeginsStep ==
  ASSUME Inv, TypeOK', Bounded', NEW c \in Calls, WalkBegins(c),
         call[c].pc \in {"ready", "waiting", "aborting"}
  PROVE  Inv'
<1> USE DEF Inv, InStart, Components
<1>1. /\ call[c] \in Call /\ mu = Nobody /\ mu' = c /\ mu' # Nobody /\ running \in Nat
      /\ UNCHANGED <<up, stuck, started, running>>
  BY GroupAssumption DEF WalkBegins, TypeOK
<1>2. /\ call'[c].pc = "walking" /\ call'[c].at = running
      /\ call'[c].cut = call[c].cut /\ call'[c].result = call[c].result
  <2> DEFINE k == [call[c] EXCEPT !.pc = "walking"]
  <2>1. k \in Call /\ k.pc = "walking" /\ k.cut = call[c].cut /\ k.result = call[c].result
    BY <1>1 DEF Call, Places
  <2>2. call'[c] = [k EXCEPT !.at = running]
    BY WalkBeginsCall
  <2> HIDE DEF k
  <2> QED BY <2>1, <2>2 DEF Call
<1>3. \A d \in Calls \ {c} :
        /\ call'[d].pc = call[d].pc /\ call'[d].at = call[d].at /\ call'[d].result = call[d].result
        /\ call'[d].cut => call[d].cut \/ call[d].pc = "starting"
  BY WalkBeginsCall
<1>4. \A d \in Calls : call[d].pc # "walking"
  BY <1>1, GroupAssumption DEF Locked
<1>5. Locked' /\ OneStart' /\ Counted'
  BY <1>1, <1>2, <1>3, <1>4 DEF Locked, OneStart, Counted
<1>6. CountedUp'
  BY <1>1, <1>2, <1>3, <1>4 DEF CountedUp
<1>7. CutShort'
  <2>1. ASSUME NEW d \in Calls \ {c}, call'[d].cut
        PROVE  call'[d].result # "ok"
    BY <1>3, <2>1 DEF CutShort
  <2> QED BY <1>1, <1>2, <1>3, <2>1 DEF CutShort
<1>8. \A j : InHand(j)' <=> InHand(j)
  BY <1>2, <1>3 DEF InHand, Calls, Starters
<1>9. Behind' /\ Accounted' /\ DependenciesUp'
  BY <1>1, <1>2, <1>3, <1>4, <1>8 DEF Behind, Accounted, DependenciesUp
<1> QED BY <1>5, <1>6, <1>7, <1>9

(* The member reached goes down after everything that was added after it.   *)
LEMMA WalkStepStep ==
  ASSUME Inv, TypeOK', Bounded', NEW c \in Calls, WalkStep(c)
  PROVE  Inv'
<1> USE DEF Inv, InStart, GroupFields
<1>0. PICK i : i = call[c].at
  OBVIOUS
<1>1. /\ call[c] \in Call /\ call[c].pc = "walking" /\ mu = c /\ mu # Nobody
      /\ i \in Nat /\ i > 0 /\ i <= running /\ running \in Nat
      /\ UNCHANGED <<started, running, mu>>
  BY <1>0, GroupAssumption DEF WalkStep, TypeOK, Locked, Counted, Call
<1>2. /\ call'[c].pc = "walking" /\ call'[c].at = i - 1
      /\ call'[c].cut = call[c].cut /\ call'[c].result = call[c].result
      /\ \A d \in Calls \ {c} : call'[d] = call[d]
  <2> DEFINE k == [call[c] EXCEPT !.at = i - 1]
             l == [k EXCEPT !.stopErr = TRUE]
  <2>1. /\ k \in Call /\ k.pc = "walking" /\ k.at = i - 1 /\ k.cut = call[c].cut
        /\ k.result = call[c].result
    BY <1>1 DEF Call
  <2>2. call' = [call EXCEPT ![c] = k] \/ call' = [call EXCEPT ![c] = l]
    BY <1>0 DEF WalkStep, Set
  <2> HIDE DEF k
  <2>3. l.pc = "walking" /\ l.at = i - 1 /\ l.cut = call[c].cut /\ l.result = call[c].result
    BY <2>1 DEF Call
  <2> HIDE DEF l
  <2> QED BY <1>1, <2>1, <2>2, <2>3 DEF TypeOK
<1>3. \/ up' = up \ {i} /\ stuck' = stuck \ {i}
      \/ up' = up /\ stuck' = stuck \cup {i}
  BY <1>0 DEF WalkStep, ComponentStops, ComponentStopFails
<1>4. \A d \in Calls \ {c} : call[d].pc # "walking"
  BY <1>1 DEF Locked
<1>5. Locked' /\ OneStart' /\ Counted' /\ CutShort'
  BY <1>1, <1>2, <1>4 DEF Locked, OneStart, Counted, CutShort
<1>6. started
  BY <1>1 DEF Counted
<1>7. \A d \in Calls : call[d].pc \in {"accounting", "unaccounted"} => call[d].at > i
  BY <1>1, <1>6 DEF Counted, Bounded, Calls, TypeOK, Call
<1>8. \A j : InHand(j)' <=> InHand(j)
  BY <1>1, <1>2 DEF InHand, Calls, Starters
<1>9. CountedUp'
  <2>1. 1 .. i - 1 \subseteq up'
    BY <1>0, <1>1, <1>3 DEF CountedUp
  <2>2. \A d \in Calls : call'[d].pc \in {"accounting", "unaccounted"} => call'[d].at \in up'
    BY <1>1, <1>2, <1>3, <1>7 DEF CountedUp
  <2> QED BY <1>1, <1>2, <1>4, <2>1, <2>2 DEF CountedUp
<1>10. \A j \in up : j \in stuck \/ InHand(j) \/ j <= i
  BY <1>0, <1>1 DEF Behind
<1>11. \A j \in up : j \in Nat
  BY DEF TypeOK, Members
<1>12. \A j \in up' : j \in stuck' \/ InHand(j)' \/ j <= i - 1
  BY <1>1, <1>3, <1>8, <1>10, <1>11
<1>13. Behind'
  BY <1>2, <1>4, <1>12 DEF Behind
<1>14. Accounted'
  BY <1>1, <1>6, <1>11, <1>12, <1>3 DEF Accounted
<1>15. DependenciesUp'
  BY <1>3, <1>1, <1>8, <1>11, <1>12 DEF DependenciesUp
<1> QED BY <1>5, <1>9, <1>13, <1>14, <1>15

LEMMA WalkEndsStep ==
  ASSUME Inv, TypeOK', Bounded', NEW c \in Calls, WalkEnds(c)
  PROVE  Inv'
<1> USE DEF Inv, InStart, Components
<1>1. /\ call[c] \in Call /\ call[c].pc = "walking" /\ call[c].at = 0 /\ mu' = Nobody
      /\ ~started' /\ running' = 0 /\ UNCHANGED <<up, stuck>>
  BY DEF WalkEnds, TypeOK
<1>2. /\ call'[c].pc \in {"returned", "stopped", "done"} /\ call'[c].cut = call[c].cut
      /\ call'[c].result = call[c].result
      /\ \A d \in Calls \ {c} : call'[d] = call[d]
  BY <1>1, AfterWalkPlace DEF WalkEnds, Set, TypeOK, Call
<1>3. \A d \in Calls \ {c} : call[d].pc # "walking"
  BY <1>1 DEF Locked
<1>4. Locked' /\ OneStart' /\ Counted' /\ CutShort'
  BY <1>1, <1>2, <1>3, GroupAssumption DEF Locked, OneStart, Counted, CutShort
<1>5. CountedUp'
  <2>1. 1 .. 0 = {}
    OBVIOUS
  <2> QED BY <1>1, <1>2, <1>3, <2>1 DEF CountedUp
<1>6. \A j : InHand(j)' <=> InHand(j)
  BY <1>1, <1>2 DEF InHand, Calls, Starters
<1>7. \A j \in up : j \in stuck \/ InHand(j)
  BY <1>1 DEF Behind, TypeOK, Members
<1>8. Behind' /\ Accounted' /\ DependenciesUp'
  BY <1>1, <1>2, <1>3, <1>6, <1>7 DEF Behind, Accounted, DependenciesUp
<1> QED BY <1>4, <1>5, <1>8

LEMMA StepInv ==
  ASSUME ~Overlap, Inv, TypeOK', Bounded', NEW c \in Calls, Step(c)
  PROVE  Inv'
<1>0. call \in [Calls -> Call] /\ call[c] \in Call
  BY DEF Inv, TypeOK
<1>1. CASE StartRefused(c)
  <2>1. /\ call'[c].pc = "returned" /\ call'[c].result = "alreadyStarted"
        /\ \A d \in Calls \ {c} : call'[d] = call[d]
    BY <1>0, <1>1 DEF StartRefused, StartReturns, Set, Call
  <2> QED BY <1>1, <2>1, QuietStep DEF StartRefused, InStart, GroupFields, Components
<1>2. CASE c \in Starters /\ StartBegins(c)
  BY <1>2, StartBeginsStep
<1>3. CASE c \in Starters /\ ComponentStarts(c)
  BY <1>3, ComponentStartsStep
<1>4. CASE c \in Starters /\ ComponentStartFails(c)
  BY <1>4, ComponentStartFailsStep
<1>5. CASE c \in Starters /\ Account(c)
  BY <1>5, AccountStep
<1>6. CASE c \in Starters /\ FoundStopped(c)
  BY <1>6, FoundStoppedStep
<1>7. CASE c \in Starters /\ StopUnaccounted(c)
  BY <1>7, StopUnaccountedStep
<1>8. CASE AbortStart(c)
  BY <1>8, WalkBeginsStep DEF AbortStart
<1>9. CASE Stop(c)
  BY <1>9, WalkBeginsStep DEF Stop, StopCalled
<1>10. CASE WalkStep(c)
  BY <1>10, WalkStepStep
<1>11. CASE WalkEnds(c)
  BY <1>11, WalkEndsStep
<1>12. CASE StopIdle(c) \/ StartDone(c) \/ RunWaits(c) \/ RunStartFailed(c) \/ RunReturns(c)
  <2>1. call[c].pc \in {"ready", "waiting", "returned", "stopped"}
    BY <1>12 DEF StopIdle, StopCalled, StartDone, RunWaits, RunStartFailed, RunReturns
  <2>2. /\ call'[c].pc \in {"returned", "waiting", "stopped", "done"}
        /\ call'[c].cut = call[c].cut /\ call'[c].result = call[c].result
        /\ \A d \in Calls \ {c} : call'[d] = call[d]
    <3>1. CASE StopIdle(c)
      BY <1>0, <3>1, AfterWalkPlace DEF StopIdle, Set, Call
    <3>2. CASE StartDone(c) \/ RunWaits(c)
      BY <1>0, <3>2 DEF StartDone, RunWaits, Set, Call
    <3>3. CASE RunStartFailed(c) \/ RunReturns(c)
      <4>1. PICK a \in {"nil", "error", "failure"} : Set(c, Answer(call[c], a))
        BY <3>3 DEF RunStartFailed, RunReturns
      <4>2. /\ Answer(call[c], a).pc = "done" /\ Answer(call[c], a).cut = call[c].cut
            /\ Answer(call[c], a).result = call[c].result
        BY <1>0 DEF Answer, Call
      <4> QED BY <1>0, <4>1, <4>2 DEF Set
    <3> QED BY <1>12, <3>1, <3>2, <3>3
  <2>3. UNCHANGED <<started, running, mu, up, stuck>>
    BY <1>12 DEF StopIdle, StartDone, RunWaits, RunStartFailed, RunReturns, GroupFields, Components
  <2>4. call'[c].cut => call'[c].result # "ok"
    BY <2>2 DEF Inv, CutShort
  <2> QED BY <2>1, <2>2, <2>3, <2>4, QuietStep DEF InStart
<1> QED BY <1>1, <1>2, <1>3, <1>4, <1>5, <1>6, <1>7, <1>8, <1>9, <1>10, <1>11, <1>12
        DEF Step, StartStep

LEMMA NextInv ==
  ASSUME ~Overlap, Inv, Next
  PROVE  Inv'
<1>1. TypeOK' /\ Bounded'
  BY NextType DEF Inv
<1>2. ASSUME NEW c \in Calls, Step(c) PROVE Inv'
  BY <1>1, <1>2, StepInv
<1>3. CASE \/ \E c \in Calls : OnFatal(c)
           \/ \E i \in Members, c \in Starters : Report(i, c)
           \/ \E c \in Runs : ContextEnds(c)
           \/ Add
  BY <1>1, <1>3, NoCallStep DEF OnFatal, Report, ContextEnds, Add, GroupFields, Components
<1> QED BY <1>2, <1>3 DEF Next

LEMMA Invariance ==
  ASSUME ~Overlap
  PROVE  Spec => []Inv
<1>1. Inv /\ UNCHANGED vars => Inv'
  <2> SUFFICES ASSUME Inv, UNCHANGED vars PROVE Inv'
    OBVIOUS
  <2>1. TypeOK' /\ Bounded'
    BY DEF Inv, TypeOK, Bounded, InStart, vars
  <2> QED BY <2>1, NoCallStep DEF vars
<1> QED BY InitInv, NextInv, <1>1, PTL DEF Spec

(* However many goroutines call Start, Stop and Run, in whatever order they *)
(* take the lock and whichever components fail, no component is left up     *)
(* with nobody to stop it: as long as no Start begins before an earlier one *)
(* has returned (Group.Start, abortStart, stopUnaccounted, stopLocked).     *)
THEOREM AllAccounted ==
  ASSUME ~Overlap
  PROVE  Spec => []Accounted
<1>1. Inv => Accounted
  BY DEF Inv
<1> QED BY Invariance, <1>1, PTL

(* A component is never up without those added before it, a failed Stop     *)
(* apart: for any number of members.                                        *)
THEOREM DependenciesStayUp ==
  ASSUME ~Overlap
  PROVE  Spec => []DependenciesUp
<1>1. Inv => DependenciesUp
  BY DEF Inv
<1> QED BY Invariance, <1>1, PTL

(* A Start in the middle of which a Stop ran does not answer nil: the       *)
(* caller would wait for components that are down (Group.Start reads        *)
(* started again under the lock).                                           *)
THEOREM CutStartFails ==
  ASSUME ~Overlap
  PROVE  Spec => []StopSeenByStart
<1>1. Inv => StopSeenByStart
  BY DEF Inv, CutShort, StopSeenByStart, Calls, Starters
<1> QED BY Invariance, <1>1, PTL

-----------------------------------------------------------------------------
(* The answer of Run.                                                       *)

LEMMA AnswerIsFailure ==
  ASSUME TypeOK, Next, NEW c \in Runs, call[c].pc # "done", call'[c].pc = "done", c \in fired
  PROVE  call'[c].answer = "failure"
<1>0. c \in Calls /\ c \notin Starts /\ call \in [Calls -> Call] /\ call[c] \in Call
  BY GroupAssumption DEF TypeOK, Calls
<1>1. PICK d \in Calls : Step(d)
  BY DEF Next, OnFatal, Report, ContextEnds, Add
<1>2. ASSUME WalkBegins(d) PROVE call'[c].pc # "done"
  <2>1. call'[d] = [call[d] EXCEPT !.pc = "walking", !.at = running]
        /\ (c # d => call'[c].pc = call[c].pc)
    BY <1>0, <1>2, WalkBeginsCall
  <2> QED BY <1>0, <2>1 DEF Call
<1>3. CASE AbortStart(d) \/ Stop(d)
  BY <1>2, <1>3 DEF AbortStart, Stop
<1>4. CASE ~(AbortStart(d) \/ Stop(d))
  <2>1. PICK k : Set(d, k)
    BY <1>1, <1>4 DEF Step, StartStep, StartRefused, StartBegins, ComponentStarts, ComponentStartFails,
       Account, FoundStopped, StopUnaccounted, StopIdle, WalkStep, WalkEnds, StartDone, RunWaits,
       RunStartFailed, RunReturns
  <2>2. d = c
    BY <1>0, <2>1 DEF Set
  <2>3. ~StartDone(c) /\ ~StartRefused(c) /\ ~ComponentStarts(c) /\ ~ComponentStartFails(c)
        /\ ~FoundStopped(c) /\ ~RunWaits(c)
    BY <1>0 DEF StartDone, StartRefused, StartReturns, ComponentStarts, ComponentStartFails,
       FoundStopped, RunWaits, Set, Call
  <2>4. ~WalkEnds(c) /\ ~StopIdle(c)
    BY <1>0, AfterWalkPlace DEF WalkEnds, StopIdle, Set, Call
  <2>5. ~Account(c) /\ ~StartBegins(c)
    <3>1. \A m : Set(c, NextMember(m)) => call'[c] = NextMember(m)
      BY <1>0 DEF Set
    <3>2. \A m : NextMember([call[c] EXCEPT !.of = m]).pc # "done" /\ NextMember(call[c]).pc # "done"
      BY <1>0 DEF NextMember, StartReturns, Call
    <3> QED BY <3>1, <3>2 DEF Account, StartBegins
  <2>6. ~WalkStep(c) /\ ~StopUnaccounted(c)
    <3>1. call[c].pc = "walking" => ~WalkStep(c)
      BY <1>0 DEF WalkStep, Set, Call
    <3>2. ~StopUnaccounted(c)
      BY <1>0 DEF StopUnaccounted, StartReturns, Set, Call
    <3> QED BY <3>1, <3>2 DEF WalkStep
  <2>7. RunStartFailed(c) \/ RunReturns(c)
    BY <1>1, <1>4, <2>2, <2>3, <2>4, <2>5, <2>6 DEF Step, StartStep
  <2>8. Set(c, Answer(call[c], "failure"))
    BY <2>7 DEF RunStartFailed, RunReturns
  <2> QED BY <1>0, <2>8 DEF Set, Answer, Call
<1> QED BY <1>3, <1>4

(* Whatever ends a Run, a failure that a component reported before is what  *)
(* it answers (run looks at the once first): for any overlap of callers.    *)
THEOREM FailureAnswered == Spec => FailureNotSwallowed
<1>1. ASSUME TypeOK, [Next]_vars
      PROVE  [\A c \in Runs :
               call[c].pc # "done" /\ call'[c].pc = "done" /\ c \in fired
                 => call'[c].answer = "failure"]_vars
  BY <1>1, AnswerIsFailure DEF vars
<1> QED BY TypeCorrect, <1>1, PTL DEF Spec, FailureNotSwallowed

-----------------------------------------------------------------------------
(* The service                                                              *)

(* Where the Run is, and how many members the group has counted.            *)
Started ==
  \A r \in Runs :
    /\ InStart(r) => call[r].of = N /\ running = call[r].at - 1
    /\ call[r].pc \in {"returned", "waiting"} /\ call[r].result = "ok" => running = N
    /\ call[r].pc \in {"aborting", "walking"} => call[r].result \in {"ok", "startFailed"}
    /\ call[r].pc = "aborting" => call[r].result = "startFailed"
    /\ call[r].pc = "waiting" => call[r].result = "ok"
    /\ call[r].pc = "walking" => call[r].at <= running
    /\ call[r].pc \in {"ready", "starting", "accounting"} => call[r].result = "none"
    /\ call[r].pc # "done" => call[r].answer = "none"

(* The mux has not subscribed.                                              *)
Unsubscribed(r) ==
  \/ call[r].pc \in {"ready", "starting", "aborting"}
  \/ call[r].pc = "accounting" /\ call[r].at = Connection
  \/ call[r].pc = "walking" /\ call[r].result = "startFailed"

(* Stop has dealt with the mux.                                             *)
PastMux(r) ==
  \/ call[r].pc = "walking" /\ call[r].at <= Connection
  \/ call[r].pc = "returned" /\ call[r].result # "ok"
  \/ call[r].pc \in {"stopped", "done"}

Idle ==
  \A r \in Runs : Unsubscribed(r) =>
    sub = "idle" /\ (call[r].pc = "walking" => running <= Connection)

(* The subscription is over.                                                *)
Over == sub \notin {"running", "ending"}

MuxFirst ==
  \A r \in Runs :
    /\ PastMux(r) /\ ~expired => Over
    /\ conn \in {"draining", "closed"} /\ ~abrupt => PastMux(r)

(* No handler runs once the subscription is over; one over a core NATS      *)
(* connection may when that was closed under it.                            *)
Drained ==
  /\ Over /\ (wiring.subscription = "core" => ~abrupt) => InFlight = {}
  /\ OverConnection /\ conn = "closed" /\ ~abrupt => InFlight = {}

(* A drain leaves nothing in the buffer, and what is lost was lost abruptly. *)
Written ==
  /\ conn = "closed" /\ ~abrupt =>
       \A m \in Events : result[m] # "buffered" /\ event[m] # "acking"
  /\ \A m \in Events :
       /\ event[m] \in {"settling", "acking", "acked"} => result[m] # "none"
       /\ result[m] = "lost" => abrupt

(* What Stop went past without an error has stopped.                        *)
Stopped ==
  \A r \in Runs : call[r].result = "ok" =>
    /\ call[r].pc = "walking" /\ ~call[r].stopErr =>
         /\ call[r].at <= Connection => sub = "ended"
         /\ call[r].at = 0 => conn = "closed"
    /\ \/ call[r].pc = "stopped" /\ ~call[r].stopErr
       \/ call[r].answer = "nil"
       => sub = "ended" /\ conn = "closed"

ServiceInv ==
  /\ ServiceShape
  /\ ServiceTypeOK /\ Bounded
  /\ Started /\ Idle /\ MuxFirst /\ Drained /\ Written /\ Stopped
  /\ PublishFindsConnection

-----------------------------------------------------------------------------
LEMMA OneRun ==
  ASSUME ServiceInv, NEW r \in Runs
  PROVE  /\ Runs = {r} /\ Calls = {r} /\ Starters = {r} /\ N = 2
         /\ Connection = 1 /\ Mux = 2 /\ Members = {1, 2}
BY DEF ServiceInv, ServiceShape, Calls, Starters, Connection, Mux, Members

LEMMA InitServiceInv ==
  ASSUME ServiceInit
  PROVE  ServiceInv
<1>1. TypeOK /\ Bounded
  BY InitType DEF ServiceInit
<1>2. ServiceTypeOK
  <2>1. /\ event \in [Events -> {"held", "handling", "settling", "acking", "acked", "gone"}]
        /\ result \in [Events -> {"none", "buffered", "sent", "lost"}]
    BY DEF ServiceInit
  <2>2. outages \in 0 .. MaxOutages
    BY DEF ServiceInit, ServiceShape
  <2> QED BY <1>1, <2>1, <2>2 DEF ServiceInit, ServiceTypeOK
<1>3. \A r \in Runs : call[r] = Ready
  BY DEF ServiceInit, Init, Calls
<1>4. Started
  BY <1>3 DEF Started, Ready, InStart
<1>5. Idle /\ MuxFirst
  BY <1>3 DEF Idle, Over, MuxFirst, PastMux, Ready, ServiceInit
<1>6. Drained /\ Written /\ PublishFindsConnection
  BY DEF Drained, Over, InFlight, Written, PublishFindsConnection, ServiceInit
<1>7. Stopped
  BY <1>3 DEF Stopped, Ready
<1> QED BY <1>1, <1>2, <1>4, <1>5, <1>6, <1>7 DEF ServiceInv, ServiceInit

-----------------------------------------------------------------------------
(* Types, and the place of the Run.                                         *)

(* The steps of the group that are steps of LifecycleGroup.                 *)
GroupStep(r) ==
  \/ StartBegins(r) \/ ComponentStarts(r) \/ ComponentStartFails(r) \/ Account(r)
  \/ AbortStart(r) \/ Stop(r) \/ WalkStep(r) \/ WalkEnds(r)
  \/ RunWaits(r) \/ RunStartFailed(r) \/ RunReturns(r)

LEMMA GroupStepTyped ==
  ASSUME ServiceInv, NEW r \in Runs, GroupStep(r)
  PROVE  TypeOK' /\ Bounded' /\ size' = size
<1>1. Step(r) /\ r \in Calls
  BY OneRun DEF GroupStep, Step, StartStep
<1>2. TypeOK' /\ Bounded'
  BY <1>1, StepType DEF ServiceInv, ServiceTypeOK
<1>3. size' = size
  BY DEF GroupStep, StartBegins, ComponentStarts, ComponentStartFails, Account, AbortStart,
         Stop, WalkBegins, WalkStep, WalkEnds, RunWaits, RunStartFailed, RunReturns, GroupFields
<1> QED BY <1>2, <1>3

(* A step after which the calls are where they were.                        *)
LEMMA SamePlaces ==
  ASSUME ServiceInv, UNCHANGED <<running, call>>
  PROVE  /\ Bounded' /\ Started'
         /\ \A r \in Runs : /\ Unsubscribed(r)' <=> Unsubscribed(r)
                           /\ PastMux(r)' <=> PastMux(r)
<1>1. Bounded' /\ Started'
  BY DEF ServiceInv, Bounded, Started, InStart
<1> QED BY <1>1 DEF Unsubscribed, PastMux

(* What a step of the group does to its Run that leaves the mux and the     *)
(* connection alone: it comes past the mux only from where there is nothing *)
(* to stop.                                                                 *)
Effect(r) ==
  /\ Started'
  /\ Unsubscribed(r)' => Unsubscribed(r) /\ (call'[r].pc = "walking" => running' <= Connection)
  /\ PastMux(r) => PastMux(r)'
  /\ PastMux(r)' => PastMux(r) \/ Unsubscribed(r)
  /\ (UNCHANGED <<sub, conn>>) => Stopped'

(* One call of Set, on a Run that is not past the mux and stays so.         *)
LEMMA BeforeMux ==
  ASSUME ServiceInv, NEW r \in Runs, NEW k \in Call, Set(r, k),
         k.pc \in {"starting", "accounting", "aborting", "returned", "waiting"},
         ~PastMux(r), k.answer = "none",
         InStart(r) \/ call[r].pc \in {"ready", "returned"},
         k.pc \in {"starting", "accounting", "aborting"} => k.of = N /\ running' = k.at - 1,
         k.pc \in {"returned", "waiting"} => k.result = "ok" /\ running' = N,
         k.pc \in {"starting", "accounting"} => k.result = "none",
         k.pc = "aborting" => k.result = "startFailed",
         k.pc \in {"starting", "aborting"} \/ (k.pc = "accounting" /\ k.at = Connection)
           => Unsubscribed(r)
  PROVE  Effect(r)
<1>1. call'[r] = k /\ \A q \in Runs : q = r
  BY OneRun, SetCall DEF ServiceInv, ServiceTypeOK
<1>2. k.at \in Nat /\ N = 2
  BY OneRun DEF Call
<1>3. Started'
  BY <1>1, <1>2 DEF Started, InStart
<1>4. Unsubscribed(r)' => Unsubscribed(r)
  BY <1>1 DEF Unsubscribed
<1>5. ~PastMux(r)'
  BY <1>1 DEF PastMux
<1>6. Stopped'
  BY <1>1 DEF Stopped
<1> QED BY <1>1, <1>3, <1>4, <1>5, <1>6 DEF Effect

LEMMA StartBeginsEffect ==
  ASSUME ServiceInv, NEW r \in Runs, StartBegins(r)
  PROVE  Effect(r)
<1>1. /\ call[r] \in Call /\ call[r].pc = "ready" /\ call[r].at = 0 /\ call[r].result = "none"
      /\ call[r].answer = "none" /\ running' = 0 /\ size = 2 /\ N = 2
  BY OneRun DEF StartBegins, ServiceInv, ServiceTypeOK, TypeOK, Bounded, Started
<1>2. PICK j : j = [call[r] EXCEPT !.of = size]
  OBVIOUS
<1>3. /\ j \in Call /\ j.at = 0 /\ j.of = 2 /\ j.result = "none" /\ j.answer = "none"
  BY <1>1, <1>2 DEF Call
<1>4. PICK k : k = NextMember(j)
  OBVIOUS
<1>5. k \in Call /\ k.pc = "starting" /\ k.at = 1 /\ k.of = 2 /\ k.result = "none"
  BY <1>3, <1>4, NextMemberType
<1>6. k.answer = "none"
  BY <1>3, <1>4 DEF NextMember, Call
<1>7. Set(r, k)
  BY <1>2, <1>4 DEF StartBegins
<1>8. ~PastMux(r) /\ Unsubscribed(r)
  BY <1>1 DEF PastMux, Unsubscribed
<1> QED BY <1>1, <1>5, <1>6, <1>7, <1>8, BeforeMux

LEMMA ComponentStartsEffect ==
  ASSUME ServiceInv, NEW r \in Runs, ComponentStarts(r)
  PROVE  Effect(r)
<1>1. /\ call[r] \in Call /\ call[r].pc = "starting" /\ InStart(r) /\ call[r].result = "none"
      /\ call[r].answer = "none" /\ call[r].of = N /\ running = call[r].at - 1
      /\ running' = running
  BY OneRun DEF ComponentStarts, ServiceInv, ServiceTypeOK, TypeOK, Started, InStart, GroupFields
<1>2. PICK k : k = [call[r] EXCEPT !.pc = "accounting"]
  OBVIOUS
<1>3. /\ k \in Call /\ k.pc = "accounting" /\ k.of = N /\ k.at = call[r].at
      /\ k.result = "none" /\ k.answer = "none"
  BY <1>1, <1>2 DEF Call, Places
<1>4. Set(r, k)
  BY <1>2 DEF ComponentStarts
<1>5. ~PastMux(r) /\ Unsubscribed(r)
  BY <1>1 DEF PastMux, Unsubscribed
<1> QED BY <1>1, <1>3, <1>4, <1>5, BeforeMux

LEMMA StartFailsEffect ==
  ASSUME ServiceInv, NEW r \in Runs, call[r].pc = "starting", running' = running,
         Set(r, [call[r] EXCEPT !.pc = "aborting", !.result = "startFailed"])
  PROVE  Effect(r)
<1>1. /\ call[r] \in Call /\ InStart(r)
      /\ call[r].answer = "none" /\ call[r].of = N /\ running = call[r].at - 1
  BY OneRun DEF ServiceInv, ServiceTypeOK, TypeOK, Started, InStart
<1>2. PICK k : k = [call[r] EXCEPT !.pc = "aborting", !.result = "startFailed"]
  OBVIOUS
<1>3. /\ k \in Call /\ k.pc = "aborting" /\ k.of = N /\ k.at = call[r].at
      /\ k.result = "startFailed" /\ k.answer = "none"
  BY <1>1, <1>2 DEF Call, Places, Results
<1>4. ~PastMux(r) /\ Unsubscribed(r)
  BY DEF PastMux, Unsubscribed
<1> QED BY <1>1, <1>2, <1>3, <1>4, BeforeMux

LEMMA AccountEffect ==
  ASSUME ServiceInv, NEW r \in Runs, Account(r)
  PROVE  Effect(r)
<1>1. /\ call[r] \in Call /\ call[r].pc = "accounting" /\ InStart(r) /\ call[r].result = "none"
      /\ call[r].answer = "none" /\ call[r].of = N /\ running = call[r].at - 1
      /\ call[r].at \in 1 .. N /\ N = 2 /\ running' = running + 1
  BY OneRun DEF Account, ServiceInv, ServiceTypeOK, TypeOK, Started, InStart, Bounded
<1>2. PICK k : k = NextMember(call[r])
  OBVIOUS
<1>3. /\ k \in Call /\ k.of = N
      /\ \/ call[r].at = N /\ k.pc = "returned" /\ k.result = "ok"
         \/ /\ call[r].at < N /\ k.pc = "starting"
            /\ k.at = call[r].at + 1 /\ k.result = "none"
  BY <1>1, <1>2, NextMemberType
<1>4. k.answer = "none"
  BY <1>1, <1>2 DEF NextMember, StartReturns, Call
<1>5. Set(r, k)
  BY <1>2 DEF Account
<1>6. ~PastMux(r) /\ (k.pc = "starting" => Unsubscribed(r))
  BY <1>1, <1>3 DEF PastMux, Unsubscribed, Connection
<1>7. running' = call[r].at
  BY <1>1
<1>8. /\ k.pc = "starting" => running' = k.at - 1
      /\ k.pc = "returned" => running' = N
  BY <1>1, <1>3, <1>7
<1> QED BY <1>1, <1>3, <1>4, <1>5, <1>6, <1>8, BeforeMux

(* Stop of a group that has started everything, or an abort.                *)
LEMMA WalkBeginsEffect ==
  ASSUME ServiceInv, NEW r \in Runs, WalkBegins(r), call[r].pc \in {"waiting", "aborting"}
  PROVE  Effect(r)
<1>1. /\ call[r] \in Call /\ running' = running /\ running \in Nat
      /\ call[r].answer = "none"
      /\ \A q \in Runs : q = r
      /\ \/ call[r].pc = "waiting" /\ call[r].result = "ok" /\ running = 2
         \/ /\ call[r].pc = "aborting" /\ call[r].result = "startFailed" /\ running <= 1
            /\ Unsubscribed(r)
  BY OneRun DEF WalkBegins, ServiceInv, ServiceTypeOK, TypeOK, Started, InStart, Bounded,
                Unsubscribed
<1>2. call'[r] = [call[r] EXCEPT !.pc = "walking", !.at = running]
  BY OneRun, WalkBeginsCall DEF ServiceInv, ServiceTypeOK
<1>3. /\ call'[r].pc = "walking" /\ call'[r].at = running /\ call'[r].result = call[r].result
      /\ call'[r].answer = "none"
  BY <1>1, <1>2 DEF Call
<1>4. Started'
  BY <1>1, <1>3 DEF Started, InStart
<1>5. Unsubscribed(r)' => Unsubscribed(r) /\ running' <= Connection
  BY <1>1, <1>3 DEF Unsubscribed, Connection
<1>6. ~PastMux(r) /\ (PastMux(r)' => Unsubscribed(r))
  BY <1>1, <1>3 DEF PastMux, Connection
<1>7. Stopped'
  BY <1>1, <1>3 DEF Stopped, Connection
<1> QED BY <1>4, <1>5, <1>6, <1>7 DEF Effect

(* One call of Set, on a Run whose Stop is over.                            *)
LEMMA AfterStop ==
  ASSUME ServiceInv, NEW r \in Runs, NEW k \in Call, Set(r, k), PastMux(r),
         \/ k.pc = "returned" /\ k.result = "startFailed"
         \/ k.pc \in {"stopped", "done"},
         k.pc # "done" => k.answer = "none",
         ( /\ k.result = "ok"
           /\ k.answer = "nil" \/ (k.pc = "stopped" /\ ~k.stopErr) )
           => sub = "ended" /\ conn = "closed"
  PROVE  Effect(r)
<1>1. call'[r] = k /\ \A q \in Runs : q = r
  BY OneRun, SetCall DEF ServiceInv, ServiceTypeOK
<1>2. Started'
  BY <1>1 DEF Started, InStart
<1>3. ~Unsubscribed(r)' /\ PastMux(r)'
  BY <1>1 DEF Unsubscribed, PastMux
<1>4. (UNCHANGED <<sub, conn>>) => Stopped'
  BY <1>1 DEF Stopped
<1> QED BY <1>2, <1>3, <1>4 DEF Effect

LEMMA WalkEndsEffect ==
  ASSUME ServiceInv, NEW r \in Runs, WalkEnds(r)
  PROVE  Effect(r)
<1>1. /\ call[r] \in Call /\ call[r].pc = "walking" /\ call[r].at = 0
      /\ call[r].answer = "none" /\ call[r].result \in {"ok", "startFailed"}
  BY OneRun DEF WalkEnds, ServiceInv, ServiceTypeOK, TypeOK, Started
<1>2. PICK k : k = [call[r] EXCEPT !.pc = AfterWalk(r)]
  OBVIOUS
<1>3. AfterWalk(r) = (IF call[r].result = "startFailed" THEN "returned" ELSE "stopped")
  BY DEF AfterWalk
<1>4. /\ k \in Call /\ k.pc = (IF k.result = "startFailed" THEN "returned" ELSE "stopped")
      /\ k.result = call[r].result /\ k.answer = "none" /\ k.stopErr = call[r].stopErr
  BY <1>1, <1>2, <1>3 DEF Call, Places
<1>5. Set(r, k) /\ PastMux(r)
  BY <1>1, <1>2 DEF WalkEnds, PastMux, Connection
<1>6. call[r].result = "ok" /\ ~call[r].stopErr => sub = "ended" /\ conn = "closed"
  BY <1>1 DEF ServiceInv, Stopped, Connection
<1> QED BY <1>1, <1>4, <1>5, <1>6, AfterStop

LEMMA RunWaitsEffect ==
  ASSUME ServiceInv, NEW r \in Runs, RunWaits(r)
  PROVE  Effect(r)
<1>1. /\ call[r] \in Call /\ call[r].pc = "returned" /\ call[r].result = "ok"
      /\ call[r].answer = "none" /\ running = N /\ running' = running
  BY OneRun DEF RunWaits, ServiceInv, ServiceTypeOK, TypeOK, Started, GroupFields
<1>2. PICK k : k = [call[r] EXCEPT !.pc = "waiting"]
  OBVIOUS
<1>3. k \in Call /\ k.pc = "waiting" /\ k.result = "ok" /\ k.answer = "none"
  BY <1>1, <1>2 DEF Call, Places
<1>4. Set(r, k) /\ ~PastMux(r)
  BY <1>1, <1>2 DEF RunWaits, PastMux
<1> QED BY <1>1, <1>3, <1>4, BeforeMux

LEMMA AnswerType ==
  ASSUME NEW j \in Call, NEW a \in {"nil", "error", "failure"}
  PROVE  /\ Answer(j, a) \in Call /\ Answer(j, a).pc = "done" /\ Answer(j, a).answer = a
         /\ Answer(j, a).result = j.result
BY DEF Answer, Call, Places

LEMMA RunStartFailedEffect ==
  ASSUME ServiceInv, NEW r \in Runs, RunStartFailed(r)
  PROVE  Effect(r)
<1>1. call[r] \in Call /\ call[r].pc = "returned" /\ call[r].result # "ok"
  BY OneRun DEF RunStartFailed, ServiceInv, ServiceTypeOK, TypeOK
<1>2. PICK a \in {"nil", "error", "failure"} : Set(r, Answer(call[r], a))
  BY DEF RunStartFailed
<1>3. PICK k : k = Answer(call[r], a)
  OBVIOUS
<1>4. k \in Call /\ k.pc = "done" /\ k.result # "ok"
  BY <1>1, <1>3, AnswerType
<1>5. Set(r, k) /\ PastMux(r)
  BY <1>1, <1>2, <1>3 DEF PastMux
<1> QED BY <1>4, <1>5, AfterStop

LEMMA RunReturnsEffect ==
  ASSUME ServiceInv, NEW r \in Runs, RunReturns(r)
  PROVE  Effect(r)
<1>1. call[r] \in Call /\ call[r].pc = "stopped"
  BY OneRun DEF RunReturns, ServiceInv, ServiceTypeOK, TypeOK
<1>2. PICK a \in {"nil", "error", "failure"} :
        Set(r, Answer(call[r], a)) /\ (a = "nil" => ~call[r].stopErr)
  BY DEF RunReturns
<1>3. PICK k : k = Answer(call[r], a)
  OBVIOUS
<1>4. /\ k \in Call /\ k.pc = "done" /\ k.answer = a
      /\ k.result = call[r].result
  BY <1>1, <1>3, AnswerType
<1>5. Set(r, k) /\ PastMux(r)
  BY <1>1, <1>2, <1>3 DEF PastMux
<1>6. k.result = "ok" /\ k.answer = "nil" => sub = "ended" /\ conn = "closed"
  BY <1>1, <1>2, <1>4 DEF ServiceInv, Stopped
<1> QED BY <1>4, <1>5, <1>6, AfterStop

-----------------------------------------------------------------------------
(* A step of the Run that is none of its components.                        *)
LEMMA QuietRun ==
  ASSUME ServiceInv, NEW r \in Runs, Effect(r), TypeOK', Bounded', size' = size,
         UNCHANGED serviceVars
  PROVE  ServiceInv'
<1>1. UNCHANGED <<wiring, conn, sub, event, result, told, expired, outages, abrupt, late>>
  BY DEF serviceVars
<1>2. \A q \in Runs : q = r
  BY OneRun
<1>3. ServiceTypeOK'
  BY <1>1 DEF ServiceInv, ServiceTypeOK
<1>4. Over' = Over /\ InFlight' = InFlight /\ OverConnection' = OverConnection
  BY <1>1 DEF Over, InFlight, OverConnection
<1>5. Idle'
  BY <1>1, <1>2 DEF ServiceInv, Idle, Effect
<1>6. MuxFirst'
  <2>1. Unsubscribed(r) => Over
    BY DEF ServiceInv, Idle, Over
  <2> QED BY <1>1, <1>2, <1>4, <2>1 DEF ServiceInv, MuxFirst, Effect
<1>7. Drained' /\ Written' /\ PublishFindsConnection'
  BY <1>1, <1>4 DEF ServiceInv, Drained, Written, PublishFindsConnection
<1>8. Started' /\ Stopped'
  BY <1>1 DEF Effect
<1> QED BY <1>3, <1>5, <1>6, <1>7, <1>8 DEF ServiceInv

LEMMA StartingKeeps ==
  ASSUME ServiceInv, NEW r \in Runs, Starting(r)
  PROVE  ServiceInv'
<1>1. TypeOK' /\ Bounded' /\ size' = size
  BY GroupStepTyped DEF Starting, GroupStep
<1>2. Effect(r) /\ \A q \in Runs : q = r
  BY ComponentStartsEffect, OneRun DEF Starting
<1>3. CASE call[r].at # Mux
  BY <1>1, <1>2, <1>3, QuietRun DEF Starting, serviceVars
<1>4. CASE call[r].at = Mux
  <2>1. /\ UNCHANGED <<wiring, conn, event, result, told, expired, outages, abrupt, late>>
        /\ sub' = "running" /\ CanSubscribe
    BY <1>4 DEF Starting
  <2>2. call'[r] = [call[r] EXCEPT !.pc = "accounting"] /\ call[r] \in Call
        /\ call[r].result = "none" /\ call[r].pc = "starting" /\ call[r].answer = "none"
    BY <1>2, OneRun DEF Starting, ComponentStarts, Set, ServiceInv, ServiceTypeOK, TypeOK, Started
  <2>3. /\ call'[r].pc = "accounting" /\ call'[r].at = Mux /\ call'[r].result = "none"
        /\ call'[r].answer = "none"
    BY <1>4, <2>2 DEF Call
  <2>4. ServiceTypeOK'
    BY <1>1, <2>1 DEF ServiceInv, ServiceTypeOK
  <2>5. InFlight' = InFlight /\ OverConnection' = OverConnection /\ ~Over'
    BY <2>1 DEF InFlight, OverConnection, Over
  <2>6. Idle'
    BY <1>2, <2>3 DEF Idle, Unsubscribed, Mux, Connection
  <2>7. MuxFirst'
    BY <1>2, <2>1, <2>2, <2>3 DEF ServiceInv, MuxFirst, PastMux
  <2>8. Drained' /\ Written' /\ PublishFindsConnection'
    BY <2>1, <2>5 DEF ServiceInv, Drained, Written, PublishFindsConnection
  <2>9. Started' /\ Stopped'
    BY <1>2, <2>3 DEF Effect, Stopped
  <2> QED BY <1>1, <2>4, <2>6, <2>7, <2>8, <2>9 DEF ServiceInv
<1> QED BY <1>3, <1>4

LEMMA CannotStartKeeps ==
  ASSUME ServiceInv, NEW r \in Runs, CannotStart(r)
  PROVE  ServiceInv'
<1>1. PICK k : k = [call[r] EXCEPT !.pc = "aborting", !.result = "startFailed"]
  OBVIOUS
<1>2. call[r] \in Call /\ call[r].pc = "starting" /\ r \in Calls /\ r \in Starters
  BY OneRun DEF CannotStart, ServiceInv, ServiceTypeOK, TypeOK
<1>3. k \in Call /\ k.pc = "aborting" /\ k.at = call[r].at /\ k.of = call[r].of
  BY <1>1, <1>2 DEF Call, Places, Results
<1>4. /\ Set(r, k)
      /\ UNCHANGED <<size, started, running, stopping, mu, up, stuck, given, reports, fired,
                     ended, faults, serviceVars>>
  BY <1>1 DEF CannotStart, GroupFields, Components, Failures
<1>5. /\ call' \in [Calls -> Call] /\ call'[r] = k
      /\ \A d \in Calls \ {r} : call'[d] = call[d]
  BY <1>2, <1>3, <1>4, SetCall DEF ServiceInv, ServiceTypeOK
<1>6. TypeOK'
  BY <1>4, <1>5 DEF ServiceInv, ServiceTypeOK, TypeOK
<1>7. Bounded'
  BY <1>2, <1>3, <1>5 DEF ServiceInv, Bounded, InStart
<1>8. Effect(r)
  BY <1>2, <1>4, StartFailsEffect DEF CannotStart
<1> QED BY <1>4, <1>6, <1>7, <1>8, QuietRun

(* One step of the walk: what Stop returned, and what it passed.            *)
LEMMA WalkStepFacts ==
  ASSUME ServiceInv, NEW r \in Runs, WalkStep(r)
  PROVE  /\ TypeOK' /\ Bounded' /\ size' = size /\ Started' /\ running' = running
         /\ call[r].pc = "walking" /\ call'[r].pc = "walking"
         /\ call[r].at \in Nat /\ call'[r].at = call[r].at - 1
         /\ call'[r].result = call[r].result /\ call'[r].answer = "none"
         /\ ~call'[r].stopErr => ~call[r].stopErr /\ call[r].at \notin up'
<1>1. /\ call[r] \in Call /\ call[r].pc = "walking" /\ call[r].at > 0 /\ call[r].at \in Nat
      /\ call[r].answer = "none" /\ call[r].at <= running /\ running \in Nat
      /\ running' = running /\ r \in Calls /\ \A q \in Runs : q = r
      /\ call[r].result \in {"ok", "startFailed"}
  BY OneRun DEF WalkStep, ServiceInv, ServiceTypeOK, TypeOK, Started, Call, GroupFields
<1>2. PICK j : j = [call[r] EXCEPT !.at = call[r].at - 1]
  OBVIOUS
<1>3. /\ j \in Call /\ j.pc = "walking" /\ j.at = call[r].at - 1 /\ j.result = call[r].result
      /\ j.answer = "none" /\ j.stopErr = call[r].stopErr
  BY <1>1, <1>2 DEF Call
<1>4. PICK k : k = [j EXCEPT !.stopErr = TRUE]
  OBVIOUS
<1>5. /\ k \in Call /\ k.pc = "walking" /\ k.at = call[r].at - 1 /\ k.result = call[r].result
      /\ k.answer = "none" /\ k.stopErr
  BY <1>3, <1>4 DEF Call
<1>6. \/ Set(r, j) /\ call[r].at \notin up'
      \/ Set(r, k)
  BY <1>1, <1>2, <1>4 DEF WalkStep, ComponentStops
<1>7. \/ call'[r] = j /\ call[r].at \notin up'
      \/ call'[r] = k
  BY <1>1, <1>3, <1>5, <1>6, SetCall DEF ServiceInv, ServiceTypeOK
<1>8. /\ call'[r].pc = "walking" /\ call'[r].at = call[r].at - 1
      /\ call'[r].result = call[r].result /\ call'[r].answer = "none"
      /\ ~call'[r].stopErr => ~call[r].stopErr /\ call[r].at \notin up'
  BY <1>3, <1>5, <1>7
<1>9. Started'
  BY <1>1, <1>8 DEF Started, InStart
<1> QED BY <1>1, <1>8, <1>9, GroupStepTyped DEF GroupStep

LEMMA MuxStopsKeeps ==
  ASSUME ServiceInv, NEW r \in Runs, MuxStops(r)
  PROVE  ServiceInv'
<1>1. /\ WalkStep(r) /\ call[r].at = 2 /\ \A q \in Runs : q = r
      /\ UNCHANGED <<wiring, conn, sub, event, result, told, expired, outages, abrupt, late>>
  BY OneRun DEF MuxStops, Stopping, serviceVars
<1>2. /\ TypeOK' /\ Bounded' /\ size' = size /\ Started'
      /\ call[r].pc = "walking" /\ call'[r].pc = "walking" /\ call'[r].at = 1
      /\ call'[r].result = call[r].result /\ call'[r].answer = "none"
      /\ ~call'[r].stopErr => 2 \notin up'
      /\ running' = running
  BY <1>1, WalkStepFacts
<1>3. ~call'[r].stopErr => sub = "ended"
  BY <1>1, <1>2, OneRun DEF MuxStops
<1>4. ~expired => sub \in {"ended", "died"}
  BY DEF MuxStops
<1>5. ServiceTypeOK'
  BY <1>1, <1>2 DEF ServiceInv, ServiceTypeOK
<1>6. Over' = Over /\ InFlight' = InFlight /\ OverConnection' = OverConnection
  BY <1>1 DEF Over, InFlight, OverConnection
<1>7. Idle'
  BY <1>1, <1>2 DEF ServiceInv, Idle, Unsubscribed
<1>8. MuxFirst'
  <2>1. PastMux(r)' /\ (~expired => Over)
    BY <1>2, <1>4 DEF PastMux, Connection, Over
  <2> QED BY <1>1, <1>6, <2>1 DEF MuxFirst
<1>9. Drained' /\ Written' /\ PublishFindsConnection'
  BY <1>1, <1>6 DEF ServiceInv, Drained, Written, PublishFindsConnection
<1>10. Stopped'
  BY <1>1, <1>2, <1>3 DEF Stopped
<1> QED BY <1>2, <1>5, <1>7, <1>8, <1>9, <1>10 DEF ServiceInv

LEMMA ConnStopsKeeps ==
  ASSUME ServiceInv, NEW r \in Runs, ConnStops(r)
  PROVE  ServiceInv'
<1>1. /\ WalkStep(r) /\ call[r].at = 1 /\ \A q \in Runs : q = r
      /\ UNCHANGED <<wiring, conn, sub, event, result, told, expired, outages, abrupt, late>>
  BY OneRun DEF ConnStops, Stopping, serviceVars
<1>2. /\ TypeOK' /\ Bounded' /\ size' = size /\ Started'
      /\ call[r].pc = "walking" /\ call'[r].pc = "walking" /\ call'[r].at = 0
      /\ call'[r].result = call[r].result /\ call'[r].answer = "none"
      /\ ~call'[r].stopErr => ~call[r].stopErr /\ 1 \notin up'
      /\ running' = running
  BY <1>1, WalkStepFacts
<1>3. ~call'[r].stopErr => conn = "closed"
  BY <1>1, <1>2, OneRun DEF ConnStops
<1>4. ~call'[r].stopErr /\ call'[r].result = "ok" => sub = "ended"
  <2>1. ~call[r].stopErr /\ call[r].result = "ok" => sub = "ended"
    BY <1>1, <1>2 DEF ServiceInv, Stopped, Connection
  <2> QED BY <1>2, <2>1
<1>5. ServiceTypeOK'
  BY <1>1, <1>2 DEF ServiceInv, ServiceTypeOK
<1>6. Over' = Over /\ InFlight' = InFlight /\ OverConnection' = OverConnection
  BY <1>1 DEF Over, InFlight, OverConnection
<1>7. Idle'
  BY <1>1, <1>2 DEF ServiceInv, Idle, Unsubscribed
<1>8. MuxFirst'
  <2>1. PastMux(r)' /\ PastMux(r)
    BY <1>1, <1>2 DEF PastMux, Connection
  <2> QED BY <1>1, <1>6, <2>1 DEF ServiceInv, MuxFirst
<1>9. Drained' /\ Written' /\ PublishFindsConnection'
  BY <1>1, <1>6 DEF ServiceInv, Drained, Written, PublishFindsConnection
<1>10. Stopped'
  BY <1>1, <1>2, <1>3, <1>4 DEF Stopped
<1> QED BY <1>2, <1>5, <1>7, <1>8, <1>9, <1>10 DEF ServiceInv

-----------------------------------------------------------------------------
(* A step of a worker, the subscription or the connection, while the group  *)
(* is where it was.                                                         *)
LEMMA Elsewhere ==
  ASSUME ServiceInv, ServiceTypeOK', UNCHANGED <<running, call>>,
         sub = "idle" => sub' = "idle", sub = "ended" => sub' = "ended",
         Over => Over',
         conn = "closed" => conn' = "closed",
         \/ conn' \in {"draining", "closed"} /\ ~abrupt' =>
              conn \in {"draining", "closed"}
         \/ \A r \in Runs : PastMux(r),
         abrupt => abrupt', expired => expired',
         late' => late \/ abrupt' \/ expired',
         Drained', Written'
  PROVE  ServiceInv'
<1>1. /\ Bounded' /\ Started'
      /\ \A r \in Runs : /\ Unsubscribed(r)' <=> Unsubscribed(r)
                        /\ PastMux(r)' <=> PastMux(r)
  BY SamePlaces
<1>2. Idle'
  BY DEF ServiceInv, Idle, Unsubscribed
<1>3. MuxFirst'
  BY DEF ServiceInv, MuxFirst, PastMux
<1>4. Stopped'
  BY DEF ServiceInv, Stopped
<1>5. PublishFindsConnection'
  BY DEF ServiceInv, PublishFindsConnection
<1> QED BY <1>1, <1>2, <1>3, <1>4, <1>5 DEF ServiceInv

LEMMA SameGroup ==
  ASSUME ServiceInv, UNCHANGED groupVars
  PROVE  TypeOK' /\ UNCHANGED <<running, call, size>>
BY DEF ServiceInv, ServiceTypeOK, TypeOK, groupVars, vars

LEMMA MuxStopBeginsKeeps ==
  ASSUME ServiceInv, NEW r \in Runs, MuxStopBegins(r)
  PROVE  ServiceInv'
<1>1. /\ UNCHANGED <<wiring, conn, event, result, told, expired, outages, abrupt, late>>
      /\ \/ sub = "running" /\ sub' = "ending"
         \/ sub = "died" /\ sub' = "ended"
      /\ TypeOK' /\ UNCHANGED <<running, call, size>>
  BY SameGroup DEF MuxStopBegins
<1>2. ServiceTypeOK'
  BY <1>1 DEF ServiceInv, ServiceTypeOK
<1>3. InFlight' = InFlight /\ OverConnection' = OverConnection /\ (Over' <=> Over)
  BY <1>1 DEF InFlight, OverConnection, Over
<1>4. Drained' /\ Written'
  BY <1>1, <1>3 DEF ServiceInv, Drained, Written
<1> QED BY <1>1, <1>2, <1>3, <1>4, Elsewhere

(* What the abrupt end of the connection loses.                             *)
LEMMA AbruptClose ==
  ASSUME ServiceInv, ClosesAbruptly, TypeOK', UNCHANGED <<running, call, size>>,
         UNCHANGED <<wiring, sub, told, expired, outages, late>>
  PROVE  ServiceInv'
<1>1. conn' = "closed" /\ abrupt' = TRUE
  BY DEF ClosesAbruptly
<1>2. /\ event' \in [Events -> {"held", "handling", "settling", "acking", "acked", "gone"}]
      /\ result' \in [Events -> {"none", "buffered", "sent", "lost"}]
      /\ \A m \in Events :
           /\ event'[m] \in {"settling", "acking", "acked"} => event'[m] = event[m]
           /\ event'[m] \in {"handling", "settling"} <=> event[m] \in {"handling", "settling"}
           /\ result'[m] = "none" <=> result[m] = "none"
  BY DEF ClosesAbruptly, ServiceInv, ServiceTypeOK
<1>3. ServiceTypeOK'
  BY <1>1, <1>2 DEF ServiceInv, ServiceTypeOK
<1>4. InFlight' = InFlight /\ OverConnection' = OverConnection /\ (Over' <=> Over)
  BY <1>2 DEF InFlight, OverConnection, Over
<1>5. Drained'
  BY <1>1, <1>4 DEF ServiceInv, Drained
<1>6. Written'
  BY <1>1, <1>2 DEF ServiceInv, Written
<1> QED BY <1>1, <1>3, <1>4, <1>5, <1>6, Elsewhere

LEMMA ConnStopBeginsKeeps ==
  ASSUME ServiceInv, NEW r \in Runs, ConnStopBegins(r)
  PROVE  ServiceInv'
<1>1. /\ UNCHANGED <<wiring, sub, told, expired, outages, late>>
      /\ TypeOK' /\ UNCHANGED <<running, call, size>>
  BY SameGroup DEF ConnStopBegins
<1>2. \A q \in Runs : PastMux(q)
  BY OneRun DEF ConnStopBegins, Stopping, PastMux
<1>3. Over' <=> Over
  BY <1>1 DEF Over
<1>4. CASE conn' = "draining" /\ conn = "open" /\ UNCHANGED <<event, result, abrupt>>
  <2>1. ServiceTypeOK'
    BY <1>1, <1>4 DEF ServiceInv, ServiceTypeOK
  <2>2. InFlight' = InFlight /\ OverConnection' = OverConnection
    BY <1>1, <1>4 DEF InFlight, OverConnection
  <2>3. Drained' /\ Written'
    BY <1>1, <1>3, <1>4, <2>2 DEF ServiceInv, Drained, Written
  <2> QED BY <1>1, <1>2, <1>3, <1>4, <2>1, <2>3, Elsewhere
<1>5. CASE conn = "reconnecting" /\ ClosesAbruptly
  BY <1>1, <1>5, AbruptClose
<1> QED BY <1>4, <1>5 DEF ConnStopBegins

LEMMA ClosesForGoodKeeps ==
  ASSUME ServiceInv, ClosesForGood
  PROVE  ServiceInv'
BY SameGroup, AbruptClose DEF ClosesForGood

(* The connection is lost, and comes back.                                  *)
LEMMA ReconnectingKeeps ==
  ASSUME ServiceInv, Disconnects \/ Reconnects
  PROVE  ServiceInv'
<1>1. /\ UNCHANGED <<wiring, sub, event, result, told, expired, abrupt, late>>
      /\ TypeOK' /\ UNCHANGED <<running, call, size>>
      /\ conn # "closed" /\ conn' \in {"open", "reconnecting"}
  BY SameGroup DEF Disconnects, Reconnects
<1>2. outages' \in 0 .. MaxOutages
  BY DEF Disconnects, Reconnects, ServiceInv, ServiceShape, ServiceTypeOK
<1>3. ServiceTypeOK'
  BY <1>1, <1>2 DEF ServiceInv, ServiceTypeOK
<1>4. InFlight' = InFlight /\ OverConnection' = OverConnection /\ (Over' <=> Over)
  BY <1>1 DEF InFlight, OverConnection, Over
<1>5. Drained' /\ Written'
  BY <1>1, <1>4 DEF ServiceInv, Drained, Written
<1> QED BY <1>1, <1>3, <1>4, <1>5, Elsewhere

LEMMA DrainEndsKeeps ==
  ASSUME ServiceInv, DrainEnds
  PROVE  ServiceInv'
<1>1. /\ UNCHANGED <<wiring, sub, event, result, told, expired, outages, abrupt, late>>
      /\ TypeOK' /\ UNCHANGED <<running, call, size>>
      /\ conn = "draining" /\ conn' = "closed"
  BY SameGroup DEF DrainEnds
<1>2. ServiceTypeOK'
  BY <1>1 DEF ServiceInv, ServiceTypeOK
<1>3. InFlight' = InFlight /\ OverConnection' = OverConnection /\ (Over' <=> Over)
  BY <1>1 DEF InFlight, OverConnection, Over
<1>4. Drained'
  BY <1>1, <1>3 DEF ServiceInv, Drained, DrainEnds
<1>5. Written'
  BY <1>1 DEF ServiceInv, Written, DrainEnds
<1> QED BY <1>1, <1>2, <1>3, <1>4, <1>5, Elsewhere

LEMMA TimeRunsOutKeeps ==
  ASSUME ServiceInv, TimeRunsOut
  PROVE  ServiceInv'
<1>1. /\ UNCHANGED <<wiring, conn, sub, event, result, told, outages, abrupt, late>>
      /\ TypeOK' /\ UNCHANGED <<running, call, size>> /\ expired' = TRUE
  BY SameGroup DEF TimeRunsOut
<1>2. ServiceTypeOK'
  BY <1>1 DEF ServiceInv, ServiceTypeOK
<1>3. InFlight' = InFlight /\ OverConnection' = OverConnection /\ (Over' <=> Over)
  BY <1>1 DEF InFlight, OverConnection, Over
<1>4. Drained' /\ Written'
  BY <1>1, <1>3 DEF ServiceInv, Drained, Written
<1> QED BY <1>1, <1>2, <1>3, <1>4, Elsewhere

(* The subscription ends when its handlers have returned, or the connection *)
(* was closed under it.                                                     *)
LEMMA SubscriptionEndsKeeps ==
  ASSUME ServiceInv, SubscriptionEnds
  PROVE  ServiceInv'
<1>1. /\ UNCHANGED <<wiring, conn, event, result, told, expired, outages, abrupt, late>>
      /\ TypeOK' /\ UNCHANGED <<running, call, size>>
      /\ sub = "ending" /\ sub' = "ended"
  BY SameGroup DEF SubscriptionEnds
<1>2. ServiceTypeOK'
  BY <1>1 DEF ServiceInv, ServiceTypeOK
<1>3. InFlight' = InFlight /\ OverConnection' = OverConnection /\ Over' /\ ~Over
  BY <1>1 DEF InFlight, OverConnection, Over
<1>4. Drained'
  BY <1>1, <1>3 DEF ServiceInv, Drained, SubscriptionEnds, OverConnection
<1>5. Written'
  BY <1>1 DEF ServiceInv, Written
<1> QED BY <1>1, <1>2, <1>3, <1>4, <1>5, Elsewhere

LEMMA SubscriptionDiesKeeps ==
  ASSUME ServiceInv, SubscriptionDies
  PROVE  ServiceInv'
<1>1. /\ UNCHANGED <<wiring, conn, event, result, told, expired, outages, abrupt, late>>
      /\ UNCHANGED <<running, call, size>>
      /\ sub = "running" /\ sub' = "died"
  BY DEF SubscriptionDies, GroupFields
<1>2. TypeOK'
  <2>1. faults' \in 0 .. MaxFaults
    BY GroupAssumption DEF SubscriptionDies, Fault, ServiceInv, ServiceTypeOK, TypeOK
  <2> QED BY <2>1 DEF SubscriptionDies, GroupFields, Components, Failures, ServiceInv,
                      ServiceTypeOK, TypeOK
<1>3. ServiceTypeOK'
  BY <1>1, <1>2 DEF ServiceInv, ServiceTypeOK
<1>4. InFlight' = InFlight /\ OverConnection' = OverConnection /\ Over' /\ ~Over
  BY <1>1 DEF InFlight, OverConnection, Over
<1>5. Drained'
  BY <1>1, <1>4 DEF ServiceInv, Drained, SubscriptionDies, OverConnection
<1>6. Written'
  BY <1>1 DEF ServiceInv, Written
<1> QED BY <1>1, <1>3, <1>4, <1>5, <1>6, Elsewhere

LEMMA TellsKeeps ==
  ASSUME ServiceInv, NEW r \in Runs, Tells(r)
  PROVE  ServiceInv'
<1>1. /\ UNCHANGED <<wiring, conn, sub, event, result, expired, outages, abrupt, late>>
      /\ UNCHANGED <<running, call, size>> /\ told' = TRUE
  BY DEF Tells, GroupFields
<1>2. TypeOK'
  <2>1. reports' \subseteq Starters
    BY OneRun DEF Tells, ServiceInv, ServiceTypeOK, TypeOK
  <2> QED BY <2>1 DEF Tells, GroupFields, Components, ServiceInv, ServiceTypeOK, TypeOK
<1>3. ServiceTypeOK'
  BY <1>1, <1>2 DEF ServiceInv, ServiceTypeOK
<1>4. InFlight' = InFlight /\ OverConnection' = OverConnection /\ (Over' <=> Over)
  BY <1>1 DEF InFlight, OverConnection, Over
<1>5. Drained' /\ Written'
  BY <1>1, <1>4 DEF ServiceInv, Drained, Written
<1> QED BY <1>1, <1>3, <1>4, <1>5, Elsewhere

(* What happens to the group and to none of its calls.                      *)
LEMMA FailureKeeps ==
  ASSUME ServiceInv, NEW r \in Runs, OnFatal(r) \/ ContextEnds(r), UNCHANGED serviceVars
  PROVE  ServiceInv'
<1>1. UNCHANGED <<size, started, running, stopping, mu, up, stuck, given, call, faults>>
  BY DEF OnFatal, ContextEnds, GroupFields, Components
<1>2. TypeOK'
  <2>1. reports' \subseteq Starters /\ fired' \subseteq Starters /\ ended' \subseteq Runs
    BY OneRun DEF OnFatal, ContextEnds, ServiceInv, ServiceTypeOK, TypeOK
  <2> QED BY <1>1, <2>1 DEF ServiceInv, ServiceTypeOK, TypeOK
<1>3. ServiceTypeOK'
  BY <1>1, <1>2 DEF ServiceInv, ServiceTypeOK, serviceVars
<1>4. InFlight' = InFlight /\ OverConnection' = OverConnection /\ (Over' <=> Over)
  BY DEF InFlight, OverConnection, Over, serviceVars
<1>5. Drained' /\ Written'
  BY <1>4 DEF ServiceInv, Drained, Written, serviceVars
<1> QED BY <1>1, <1>3, <1>4, <1>5, Elsewhere DEF serviceVars

-----------------------------------------------------------------------------
(* A worker of the mux, and the buffer of the connection.                   *)

LEMMA DeliveredKeeps ==
  ASSUME ServiceInv, NEW m \in Events, Delivered(m)
  PROVE  ServiceInv'
<1>1. /\ UNCHANGED <<wiring, conn, sub, result, told, expired, outages, abrupt, late>>
      /\ TypeOK' /\ UNCHANGED <<running, call, size>>
      /\ sub \in {"running", "ending"} /\ (OverConnection => conn # "closed")
      /\ event' = [event EXCEPT ![m] = "handling"]
  BY SameGroup DEF Delivered
<1>2. ServiceTypeOK'
  BY <1>1 DEF ServiceInv, ServiceTypeOK
<1>3. OverConnection' = OverConnection /\ ~Over /\ ~Over'
  BY <1>1 DEF OverConnection, Over
<1>4. Drained'
  BY <1>1, <1>3 DEF Drained
<1>5. Written'
  BY <1>1 DEF ServiceInv, ServiceTypeOK, Written
<1> QED BY <1>1, <1>2, <1>3, <1>4, <1>5, Elsewhere

(* No handler begins in such a step.                                        *)
LEMMA NoNewHandler ==
  ASSUME ServiceInv, InFlight' \subseteq InFlight, UNCHANGED <<wiring, conn, sub, abrupt>>
  PROVE  Drained' /\ (Over' <=> Over)
<1>1. OverConnection' = OverConnection /\ (Over' <=> Over)
  BY DEF OverConnection, Over
<1> QED BY <1>1 DEF ServiceInv, Drained

LEMMA PublishedKeeps ==
  ASSUME ServiceInv, NEW m \in Events, Published(m)
  PROVE  ServiceInv'
<1>1. /\ UNCHANGED <<wiring, conn, sub, told, expired, outages, abrupt, late>>
      /\ TypeOK' /\ UNCHANGED <<running, call, size>>
      /\ conn # "closed" /\ event[m] = "handling"
      /\ event' = [event EXCEPT ![m] = "settling"]
      /\ result' = [result EXCEPT ![m] = IF wiring.confirmed THEN "sent" ELSE "buffered"]
  BY SameGroup DEF Published
<1>2. ServiceTypeOK'
  BY <1>1 DEF ServiceInv, ServiceTypeOK
<1>3. InFlight' \subseteq InFlight
  BY <1>1 DEF InFlight, ServiceInv, ServiceTypeOK
<1>4. Written'
  BY <1>1 DEF ServiceInv, ServiceTypeOK, Written
<1> QED BY <1>1, <1>2, <1>3, <1>4, NoNewHandler, Elsewhere

(* A publish that finds the connection gone: the walk is past the mux, so   *)
(* that its handlers should have returned.                                  *)
LEMMA PublishFailsKeeps ==
  ASSUME ServiceInv, NEW m \in Events, PublishFails(m)
  PROVE  ServiceInv'
<1>1. /\ UNCHANGED <<wiring, conn, sub, result, told, expired, outages, abrupt>>
      /\ TypeOK' /\ UNCHANGED <<running, call, size>>
      /\ event[m] = "handling"
      /\ late' = (late \/ conn # "reconnecting")
      /\ conn \in {"draining", "closed", "reconnecting"}
      /\ event' = [event EXCEPT ![m] = IF wiring.subscription = "core" THEN "gone" ELSE "held"]
  BY SameGroup DEF PublishFails
<1>2. ServiceTypeOK'
  <2>1. late' \in BOOLEAN
    BY <1>1 DEF ServiceInv, ServiceTypeOK
  <2>2. event' \in [Events -> {"held", "handling", "settling", "acking", "acked", "gone"}]
    BY <1>1 DEF ServiceInv, ServiceTypeOK
  <2> QED BY <1>1, <2>1, <2>2 DEF ServiceInv, ServiceTypeOK
<1>3. InFlight' \subseteq InFlight /\ InFlight # {}
  BY <1>1 DEF InFlight, ServiceInv, ServiceTypeOK
<1>4. conn # "reconnecting" => abrupt \/ expired
  <2> SUFFICES ASSUME conn \in {"draining", "closed"}, ~abrupt, ~expired
               PROVE  FALSE
    BY <1>1 DEF ServiceInv, ServiceTypeOK
  <2>1. PICK r \in Runs : PastMux(r)
    BY DEF ServiceInv, ServiceShape, MuxFirst
  <2>2. Over
    BY <2>1 DEF ServiceInv, MuxFirst
  <2> QED BY <1>3, <2>2 DEF ServiceInv, Drained
<1>5. Written'
  BY <1>1 DEF ServiceInv, ServiceTypeOK, Written
<1>6. late' => late \/ abrupt' \/ expired'
  BY <1>1, <1>4
<1>7. Drained' /\ (Over' <=> Over)
  BY <1>1, <1>3, NoNewHandler
<1> QED BY <1>1, <1>2, <1>5, <1>6, <1>7, Elsewhere

LEMMA AcksKeeps ==
  ASSUME ServiceInv, NEW m \in Events, Acks(m)
  PROVE  ServiceInv'
<1>1. /\ UNCHANGED <<wiring, conn, sub, result, told, expired, outages, abrupt, late>>
      /\ TypeOK' /\ UNCHANGED <<running, call, size>>
      /\ event[m] = "settling"
  BY SameGroup DEF Acks
<1>2. PICK to \in {"acked", "acking", "held"} :
        event' = [event EXCEPT ![m] = to] /\ (to = "acking" => conn # "closed")
  BY DEF Acks
<1>3. ServiceTypeOK'
  BY <1>1, <1>2 DEF ServiceInv, ServiceTypeOK
<1>4. InFlight' \subseteq InFlight
  BY <1>1, <1>2 DEF InFlight, ServiceInv, ServiceTypeOK
<1>5. Written'
  BY <1>1, <1>2 DEF ServiceInv, ServiceTypeOK, Written
<1> QED BY <1>1, <1>3, <1>4, <1>5, NoNewHandler, Elsewhere

LEMMA FlushedKeeps ==
  ASSUME ServiceInv, NEW m \in Events, Flushed(m)
  PROVE  ServiceInv'
<1>1. /\ UNCHANGED <<wiring, conn, sub, told, expired, outages, abrupt, late>>
      /\ TypeOK' /\ UNCHANGED <<running, call, size>>
      /\ conn # "closed"
      /\ \/ result' = [result EXCEPT ![m] = "sent"] /\ UNCHANGED event
         \/ /\ event[m] = "acking" /\ event' = [event EXCEPT ![m] = "acked"]
            /\ UNCHANGED result
  BY SameGroup DEF Flushed
<1>2. ServiceTypeOK'
  BY <1>1 DEF ServiceInv, ServiceTypeOK
<1>3. InFlight' \subseteq InFlight
  BY <1>1 DEF InFlight, ServiceInv, ServiceTypeOK
<1>4. Written'
  BY <1>1 DEF ServiceInv, ServiceTypeOK, Written
<1> QED BY <1>1, <1>2, <1>3, <1>4, NoNewHandler, Elsewhere

-----------------------------------------------------------------------------
LEMMA RunStepKeeps ==
  ASSUME ServiceInv, NEW r \in Runs, RunStep(r)
  PROVE  ServiceInv'
<1>1. CASE Starting(r) \/ CannotStart(r)
  BY <1>1, StartingKeeps, CannotStartKeeps
<1>2. CASE MuxStopBegins(r) \/ MuxStops(r)
  BY <1>2, MuxStopBeginsKeeps, MuxStopsKeeps
<1>3. CASE ConnStopBegins(r) \/ ConnStops(r)
  BY <1>3, ConnStopBeginsKeeps, ConnStopsKeeps
<1>4. ASSUME GroupStep(r), Effect(r), UNCHANGED serviceVars
      PROVE  ServiceInv'
  BY <1>4, GroupStepTyped, QuietRun
<1>5. CASE StartBegins(r) /\ UNCHANGED serviceVars
  BY <1>4, <1>5, StartBeginsEffect DEF GroupStep
<1>6. CASE ComponentStartFails(r) /\ UNCHANGED serviceVars
  <2>1. Effect(r)
    BY <1>6, StartFailsEffect DEF ComponentStartFails, GroupFields
  <2> QED BY <1>4, <1>6, <2>1 DEF GroupStep
<1>7. CASE Account(r) /\ UNCHANGED serviceVars
  BY <1>4, <1>7, AccountEffect DEF GroupStep
<1>8. CASE (AbortStart(r) \/ Stop(r)) /\ UNCHANGED serviceVars
  <2>1. WalkBegins(r) /\ call[r].pc \in {"waiting", "aborting"}
    BY <1>8 DEF ServiceInv, ServiceShape, AbortStart, Stop, StopCalled
  <2> QED BY <1>4, <1>8, <2>1, WalkBeginsEffect DEF GroupStep
<1>9. CASE WalkEnds(r) /\ UNCHANGED serviceVars
  BY <1>4, <1>9, WalkEndsEffect DEF GroupStep
<1>10. CASE (RunWaits(r) \/ RunStartFailed(r) \/ RunReturns(r)) /\ UNCHANGED serviceVars
  BY <1>4, <1>10, RunWaitsEffect, RunStartFailedEffect, RunReturnsEffect DEF GroupStep
<1> QED BY <1>1, <1>2, <1>3, <1>5, <1>6, <1>7, <1>8, <1>9, <1>10 DEF RunStep

LEMMA ServiceInvariance == ServiceSpec => []ServiceInv
<1>1. ServiceInit => ServiceInv
  BY InitServiceInv
<1>2. ServiceInv /\ [ServiceNext]_allVars => ServiceInv'
  <2> SUFFICES ASSUME ServiceInv, [ServiceNext]_allVars PROVE ServiceInv'
    OBVIOUS
  <2>1. ASSUME NEW r \in Runs, RunStep(r) \/ Tells(r) PROVE ServiceInv'
    BY <2>1, RunStepKeeps, TellsKeeps
  <2>2. ASSUME NEW r \in Runs, (OnFatal(r) \/ ContextEnds(r)) /\ UNCHANGED serviceVars
        PROVE  ServiceInv'
    BY <2>2, FailureKeeps
  <2>3. ASSUME NEW m \in Events, Delivered(m) \/ Handle(m) \/ Flushed(m) PROVE ServiceInv'
    BY <2>3, DeliveredKeeps, PublishedKeeps, PublishFailsKeeps, AcksKeeps, FlushedKeeps
    DEF Handle
  <2>4. CASE Disconnects \/ Reconnects \/ ClosesForGood \/ DrainEnds
    BY <2>4, ReconnectingKeeps, ClosesForGoodKeeps, DrainEndsKeeps
  <2>5. CASE SubscriptionDies \/ SubscriptionEnds \/ TimeRunsOut
    BY <2>5, SubscriptionDiesKeeps, SubscriptionEndsKeeps, TimeRunsOutKeeps
  <2>6. CASE UNCHANGED allVars
    <3>1. UNCHANGED groupVars /\ UNCHANGED serviceVars
      BY <2>6 DEF allVars, groupVars
    <3>2. TypeOK' /\ UNCHANGED <<running, call, size>>
      BY <3>1, SameGroup
    <3>3. InFlight' = InFlight
      BY <3>1 DEF InFlight, serviceVars
    <3>4. ServiceTypeOK' /\ Written'
      BY <3>1, <3>2 DEF ServiceInv, ServiceTypeOK, Written, serviceVars
    <3>5. Drained' /\ (Over' <=> Over)
      BY <3>1, <3>3, NoNewHandler DEF serviceVars
    <3> QED BY <3>1, <3>2, <3>4, <3>5, Elsewhere DEF serviceVars
  <2> QED BY <2>1, <2>2, <2>3, <2>4, <2>5, <2>6 DEF ServiceNext
<1> QED BY <1>1, <1>2, PTL DEF ServiceSpec

(* Every variable of the service keeps its type, in the steps the group and *)
(* its components take together.                                            *)
THEOREM ServiceTypeCorrect == ServiceSpec => []ServiceTypeOK
<1>1. ServiceInv => ServiceTypeOK
  BY DEF ServiceInv
<1> QED BY <1>1, ServiceInvariance, PTL

(* A Run that started everything and answers nil has closed the connection; *)
(* if that could be drained no handler is left, and the result of every     *)
(* event the broker let go of is at the server (Group.stopLocked,           *)
(* Conn.Stop, Mux.Stop).                                                    *)
THEOREM ShutdownIsClean == ServiceSpec => []CleanShutdown
<1>1. ServiceInv => CleanShutdown
  <2> SUFFICES ASSUME ServiceInv, NEW r \in Runs,
                      call[r].answer = "nil", call[r].result = "ok"
               PROVE  /\ conn = "closed"
                      /\ ~abrupt => InFlight = {} /\ \A m \in Events :
                                      event[m] = "acked" => result[m] = "sent"
    BY DEF CleanShutdown
  <2>1. sub = "ended" /\ conn = "closed"
    BY DEF ServiceInv, Stopped
  <2>2. ~abrupt => InFlight = {}
    BY <2>1 DEF ServiceInv, Drained, Over
  <2>3. ASSUME ~abrupt, NEW m \in Events, event[m] = "acked" PROVE result[m] = "sent"
    BY <2>1, <2>3 DEF ServiceInv, ServiceTypeOK, Written
  <2> QED BY <2>1, <2>2, <2>3
<1> QED BY <1>1, ServiceInvariance, PTL

(* A publish finds the connection draining or closed only when it was lost, *)
(* or the shutdown took longer than its timeout (Group.stopLocked).         *)
THEOREM PublishesFindConnection == ServiceSpec => []PublishFindsConnection
<1>1. ServiceInv => PublishFindsConnection
  BY DEF ServiceInv
<1> QED BY <1>1, ServiceInvariance, PTL

=============================================================================
