--------------------------- MODULE EventMuxProofs ---------------------------
(***************************************************************************)
(* Proofs about EventMux, for every set of messages and workers and every  *)
(* bound: its type invariant, its safety invariants by way of one          *)
(* inductive invariant over the job of each worker, and that it implements *)
(* Settlement.                                                             *)
(***************************************************************************)
EXTENDS EventMux, TLAPS

(* Why a decision o about job j is right: what DiscardedAfterCopy,          *)
(* AckedAfterResult and NackedWithinLimit say of a decision taken, said of  *)
(* one about to be taken.                                                   *)
RightDecision(j, o) ==
  /\ o = "acked" =>
       /\ j.handled
       /\ ~cfg.publishAfterAck /\ cfg.publishes /\ j.data => j.sent
  /\ o = "discarded" /\ j.reason # NoReason /\ cfg.deadLetter =>
       \/ j.copy \in {"out", "refused"}
       \/ j.copy = "failed" /\ (cfg.transport # "counted" \/ j.count \notin 1 .. cfg.maxRetries)
  /\ o = "nacked" =>
       /\ cfg.transport # "core"
       /\ cfg.maxRetries > 0 /\ cfg.transport = "counted" => j.count <= cfg.maxRetries
       /\ j.copy = "failed" => cfg.maxRetries > 0 /\ cfg.transport = "counted"

Reported(j) ==
  IF j.outcome = "pending" \/ j.callback = "panicked"
    THEN j.reports = 0
    ELSE j.reports = 1 /\ j.reported = j.outcome

(* Before the handler's fate is known nothing has been tried.               *)
Fresh(j) == j.copy = "none" /\ ~j.rescued

(* No decision was tried.                                                   *)
Untold(j) == j.outcome = "pending" /\ j.callback = "none" /\ j.reports = 0

Sound(j) ==
  /\ IF cfg.transport = "counted" THEN j.pc # "idle" => j.count > 0 ELSE j.count = 0
  /\ j.copy \in {"failed", "refused", "panicked"} => j.broken

(* Without a broken publisher, the result of an acknowledged message is out, *)
(* unless a panic of the Delivery callback skipped it.                      *)
Kept(j) ==
  ~j.broken /\ j.callback # "panicked" /\ j.outcome = "acked" /\ cfg.publishes /\ j.data => j.sent

(* What is true of a job at each place.                                     *)
JobInv(j) ==
  /\ Sound(j)
  /\ j.outcome # "pending" => j.plan = j.outcome /\ RightDecision(j, j.outcome)
  /\ j.pc \in {"idle", "handling", "decoding", "invoking", "publishing"} => Fresh(j)
  /\ j.pc \in {"idle", "handling", "decoding", "invoking", "publishing", "copying", "settling"}
       => Untold(j)
  /\ j.pc = "publishing" => j.handled
  /\ j.pc = "copying" => cfg.deadLetter /\ j.reason # NoReason
  /\ j.pc = "settling" => j.plan # "pending" /\ RightDecision(j, j.plan)
  /\ j.pc = "observing" => j.outcome # "pending" /\ j.callback # "panicked" /\ j.reports = 0
  /\ j.pc \in {"afterAck", "recovering"} => ~j.rescued
  /\ j.pc = "afterAck" => j.outcome # "pending"
  /\ j.rescued => j.plan # "acked"
  /\ j.outcome = "pending" => j.callback = "none"
  /\ j.outcome = "pending" /\ j.pc # "settling" => j.plan = "pending"
  /\ j.pc \in {"afterAck", "recovering", "returned"} => Reported(j)
  /\ j.pc \in {"recovering", "returned"} => Kept(j)
  /\ j.pc = "returned" /\ j.outcome = "pending" => cfg.deadLetter /\ j.copy = "panicked"

IInv == \A w \in Workers : JobInv(job[w])

-----------------------------------------------------------------------------
(* The operators on jobs return jobs.                                       *)

LEMMA SettlingType ==
  ASSUME NEW j \in Jobs, NEW o \in Outcomes, NEW r \in Reasons
  PROVE  Settling(j, o, r) \in Jobs
  BY DEF Settling, Jobs, Places

LEMMA FailType ==
  ASSUME NEW j \in Jobs, NEW r \in Reasons
  PROVE  Fail(j, r) \in Jobs
<1>1. NoReason \in Reasons /\ "nacked" \in Outcomes /\ "discarded" \in Outcomes
  BY DEF Reasons, Outcomes
<1>2. [j EXCEPT !.pc = "copying", !.reason = r] \in Jobs
  BY DEF Jobs, Places
<1> QED  BY <1>1, <1>2, SettlingType DEF Fail

LEMMA PanickedType == ASSUME NEW j \in Jobs PROVE Panicked(j) \in Jobs
  BY DEF Panicked, Jobs, Places

LEMMA DecideType == ASSUME NEW j \in Jobs PROVE Decide(j) \in Jobs
  BY DEF Decide, Jobs

LEMMA BrokenType == ASSUME NEW j \in Jobs PROVE Broken(j) \in Jobs
  BY DEF Broken, Jobs

(* A failed publish leaves the job as it was, but for the blame.            *)
LEMMA UnpublishedType ==
  ASSUME NEW j \in Jobs, NEW c, NEW k \in Unpublished(j, c)
  PROVE  k \in Jobs
  BY BrokenType DEF Unpublished

LEMMA BrokenFields ==
  ASSUME NEW j \in Jobs
  PROVE  LET k == Broken(j) IN
         /\ k.pc = j.pc /\ k.msg = j.msg /\ k.count = j.count /\ k.outcome = j.outcome
         /\ k.plan = j.plan /\ k.reason = j.reason /\ k.data = j.data
         /\ k.rescued = j.rescued /\ k.handled = j.handled /\ k.sent = j.sent
         /\ k.copy = j.copy /\ k.callback = j.callback /\ k.reports = j.reports
         /\ k.reported = j.reported /\ k.broken = TRUE
  BY DEF Broken, Jobs

(* A publish in a detached context fails only if the publisher is broken.   *)
LEMMA DetachedFailure ==
  ASSUME NEW j, NEW c, NEW k \in Unpublished(j, WithoutCancel(c))
  PROVE  k = Broken(j)
  BY DEF Unpublished, WithoutCancel

LEMMA ReportType ==
  ASSUME NEW j \in Jobs, NEW n \in Nat, NEW o \in Outcomes, NEW p \in Places
  PROVE  [j EXCEPT !.reports = n, !.reported = o, !.pc = p] \in Jobs
  BY DEF Jobs

LEMMA ClassifyType ==
  ASSUME NEW j, NEW failure \in Failures
  PROVE  Classify(j, failure) \in Reasons /\ ClassifyPublish(j, failure) \in Reasons
  BY DEF Classify, ClassifyPublish, Failures, Reasons, NoReason

LEMMA IdleType == Idle \in Jobs
  BY DEF Idle, Jobs, Places, Outcomes, Reasons, NoReason

(* A job replaced by a job leaves the worker's table well typed.            *)
LEMMA UpdateType ==
  ASSUME TypeOK, NEW w \in Workers, NEW j \in Jobs, Update(w, j)
  PROVE  job' \in [Workers -> Jobs]
  BY DEF TypeOK, Update

LEMMA FaultsStayBounded ==
  ASSUME faults \in 0 .. MaxFaults, UNCHANGED faults \/ Fault
  PROVE  faults' \in 0 .. MaxFaults
  BY ConstantsAssumption DEF Fault

-----------------------------------------------------------------------------
(* Every step of a worker keeps the state well typed.                       *)

LEMMA HandleStepType ==
  ASSUME TypeOK, NEW w \in Workers, HandleStep(w)
  PROVE  TypeOK'
<1> DEFINE j == job[w]
<1>1. /\ j \in Jobs
      /\ {"decode", "panic", NoReason} \subseteq Reasons
      /\ {"acked", "nacked", "discarded"} \subseteq Outcomes
      /\ j.reason \in Reasons
  BY DEF TypeOK, Jobs, Reasons, Outcomes
<1>2. UnchangedBroker /\ (UNCHANGED faults \/ Fault)
  BY HandleStep(w), Zenon
  DEF HandleStep, At, Undecodable, NoRouteFound, RouteMatches, PanicsOutsideHandler,
      PayloadDecodes, PayloadFails, HandlerReturns, HandlerFails, ResultPublished,
      ResultPanics, ResultFails, CopyPublished, CopyFails, CopyRefused, CopyPanics
<1>3. faults' \in 0 .. MaxFaults
  BY <1>2, FaultsStayBounded DEF TypeOK
<1>4. job' \in [Workers -> Jobs]
  <2>1. CASE Undecodable(w) \/ PayloadFails(w)
    BY <2>1, <1>1, FailType, UpdateType DEF Undecodable, PayloadFails
  <2>2. CASE NoRouteFound(w)
    BY <2>2, <1>1, SettlingType, UpdateType DEF NoRouteFound
  <2>3. CASE RouteMatches(w) \/ PayloadDecodes(w)
    <3>1. [j EXCEPT !.pc = "decoding"] \in Jobs /\ [j EXCEPT !.pc = "invoking"] \in Jobs
      BY <1>1 DEF Jobs, Places
    <3> QED  BY <2>3, <3>1, UpdateType DEF RouteMatches, PayloadDecodes
  <2>4. CASE PanicsOutsideHandler(w) \/ ResultPanics(w)
    BY <2>4, <1>1, BrokenType, PanickedType, UpdateType DEF PanicsOutsideHandler, ResultPanics
  <2>5. ASSUME NEW hasData \in BOOLEAN, HandlerReturns(w, hasData)
        PROVE  job' \in [Workers -> Jobs]
    <3> DEFINE k == [j EXCEPT !.handled = TRUE, !.data = hasData]
    <3>1. k \in Jobs /\ [k EXCEPT !.pc = "publishing"] \in Jobs
      BY <1>1 DEF Jobs, Places
    <3>2. Settling(k, "acked", NoReason) \in Jobs
      BY <1>1, <3>1, SettlingType
    <3> QED  BY <2>5, <3>1, <3>2, UpdateType DEF HandlerReturns
  <2>6. ASSUME NEW failure \in Failures, HandlerFails(w, failure)
        PROVE  job' \in [Workers -> Jobs]
    BY <2>6, <1>1, ClassifyType, FailType, UpdateType DEF HandlerFails
  <2>7. CASE ResultPublished(w)
    <3>1. [j EXCEPT !.sent = TRUE] \in Jobs
      BY <1>1 DEF Jobs
    <3>2. Settling([j EXCEPT !.sent = TRUE], "acked", NoReason) \in Jobs
      BY <1>1, <3>1, SettlingType
    <3> QED  BY <2>7, <3>2, UpdateType DEF ResultPublished
  <2>8. ASSUME NEW failure \in {"nonretryable", "retryable"}, ResultFails(w, failure)
        PROVE  job' \in [Workers -> Jobs]
    <3>1. PICK k \in Unpublished(j, ResultContext(j)) :
            Update(w, Fail(k, ClassifyPublish(k, failure)))
      BY <2>8 DEF ResultFails
    <3>2. k \in Jobs /\ failure \in Failures
      BY <1>1, UnpublishedType DEF Failures
    <3>3. Fail(k, ClassifyPublish(k, failure)) \in Jobs
      BY <3>2, ClassifyType, FailType
    <3> QED  BY <3>1, <3>3, UpdateType
  <2>9. CASE CopyPublished(w)
    <3>1. [j EXCEPT !.copy = "out"] \in Jobs
      BY <1>1 DEF Jobs
    <3>2. Settling([j EXCEPT !.copy = "out"], "discarded", j.reason) \in Jobs
      BY <1>1, <3>1, SettlingType
    <3> QED  BY <2>9, <3>2, UpdateType DEF CopyPublished
  <2>10. CASE CopyFails(w) \/ CopyRefused(w)
    <3> DEFINE f == [j EXCEPT !.copy = "failed"]
               r == [j EXCEPT !.copy = "refused"]
    <3>1. PICK l \in Unpublished(f, CopyContext(j)) \cup Unpublished(r, CopyContext(j)) :
            \/ Update(w, Settling(l, "nacked", NoReason))
            \/ Update(w, Settling(l, "discarded", l.reason))
      BY <2>10 DEF CopyFails, CopyRefused
    <3>2. f \in Jobs /\ r \in Jobs
      BY <1>1 DEF Jobs
    <3> HIDE DEF f, r
    <3>3. l \in Jobs
      BY <3>2, UnpublishedType
    <3>4. l.reason \in Reasons
      BY <3>3 DEF Jobs
    <3>5. Settling(l, "nacked", NoReason) \in Jobs /\ Settling(l, "discarded", l.reason) \in Jobs
      BY <1>1, <3>3, <3>4, SettlingType
    <3> QED  BY <3>1, <3>5, UpdateType
  <2>11. CASE CopyPanics(w)
    <3>1. [j EXCEPT !.copy = "panicked"] \in Jobs
      BY <1>1 DEF Jobs
    <3> QED  BY <2>11, <3>1, BrokenType, PanickedType, UpdateType DEF CopyPanics
  <2> QED
    BY <2>1, <2>2, <2>3, <2>4, <2>5, <2>6, <2>7, <2>8, <2>9, <2>10, <2>11, HandleStep(w)
    DEF HandleStep
<1> QED  BY <1>2, <1>3, <1>4 DEF TypeOK, UnchangedBroker

LEMMA SettleStepType ==
  ASSUME TypeOK, NEW w \in Workers, SettleStep(w)
  PROVE  TypeOK'
<1> DEFINE j == job[w]
           d == Decide(j)
<1>1. /\ j \in Jobs
      /\ "panic" \in Reasons
      /\ j.plan \in Outcomes
      /\ j.reports \in Nat
      /\ j.rescued \in BOOLEAN
  BY DEF TypeOK, Jobs, Reasons
<1>2. d \in Jobs
  BY <1>1, DecideType
<1> HIDE DEF d
<1>3. CASE Settle(w) \/ SettleFails(w) \/ SettlePanics(w)
  <2>1. /\ BrokerApplies(j) \/ UNCHANGED <<held, visible>>
        /\ UNCHANGED <<cfg, deliveries>>
        /\ UNCHANGED faults \/ Fault
    BY <1>3, Zenon DEF Settle, SettleFails, SettlePanics
  <2>2. held' \subseteq Msgs /\ visible' \subseteq held'
    BY <2>1 DEF TypeOK, BrokerApplies
  <2>3. \A p \in {"observing"}, c \in {"none", "called"} :
          [d EXCEPT !.pc = p, !.ctx = "cancelled", !.callback = c] \in Jobs
    BY <1>2 DEF Jobs, Places
  <2>4. [d EXCEPT !.callback = "panicked"] \in Jobs
    BY <1>2 DEF Jobs
  <2>5. Panicked([d EXCEPT !.callback = "panicked"]) \in Jobs
    BY <2>4, PanickedType
  <2>6. job' \in [Workers -> Jobs]
    <3>1. CASE Settle(w)
      BY <3>1, <2>3, UpdateType DEF Settle, d
    <3>2. CASE SettleFails(w)
      BY <3>2, <2>3, UpdateType DEF SettleFails, d
    <3>3. CASE SettlePanics(w)
      BY <3>3, <2>5, UpdateType DEF SettlePanics, d
    <3> QED  BY <1>3, <3>1, <3>2, <3>3
  <2>7. faults' \in 0 .. MaxFaults
    BY <2>1, FaultsStayBounded DEF TypeOK
  <2> QED  BY <2>1, <2>2, <2>6, <2>7 DEF TypeOK
<1>4. CASE \/ Observe(w) \/ LateResultPublished(w) \/ LateResultFails(w) \/ LateResultPanics(w)
           \/ RecoverDecided(w) \/ RecoverUndecided(w) \/ TransportReturns(w)
  <2>1. UnchangedBroker /\ UNCHANGED faults
    BY <1>4, Zenon DEF Observe, LateResultPublished, LateResultFails, LateResultPanics,
                       RecoverDecided, RecoverUndecided, TransportReturns, At
  <2>2. CASE Observe(w)
    <3> DEFINE p == AfterReport(j)
    <3>1. p \in {"afterAck", "returned"}
      BY DEF AfterReport
    <3> HIDE DEF p
    <3>2. j.reports + 1 \in Nat /\ p \in Places
      BY <1>1, <3>1 DEF Places
    <3>3. [j EXCEPT !.reports = j.reports + 1, !.reported = j.plan, !.pc = p] \in Jobs
      BY <1>1, <3>2, ReportType
    <3>4. job' \in [Workers -> Jobs]
      BY <2>2, <3>3, UpdateType DEF Observe, p
    <3> QED  BY <2>1, <3>4 DEF TypeOK, UnchangedBroker
  <2>3. CASE LateResultPublished(w) \/ LateResultFails(w)
    <3>1. PICK k \in {j, Broken(j)} :
            Update(w, [k EXCEPT !.pc = "returned", !.sent = TRUE]) \/ Update(w, [k EXCEPT !.pc = "returned"])
      BY <2>3 DEF LateResultPublished, LateResultFails, Unpublished
    <3>2. k \in Jobs
      BY <1>1, BrokenType
    <3>3. [k EXCEPT !.pc = "returned"] \in Jobs /\ [k EXCEPT !.pc = "returned", !.sent = TRUE] \in Jobs
      BY <3>2 DEF Jobs, Places
    <3>4. job' \in [Workers -> Jobs]
      BY <3>1, <3>3, UpdateType
    <3> QED  BY <2>1, <3>4 DEF TypeOK, UnchangedBroker
  <2>4. CASE LateResultPanics(w)
    BY <2>1, <2>4, <1>1, BrokenType, PanickedType, UpdateType DEF LateResultPanics, TypeOK, UnchangedBroker
  <2>5. CASE RecoverDecided(w)
    <3>1. [j EXCEPT !.pc = "returned"] \in Jobs
      BY <1>1 DEF Jobs, Places
    <3> QED  BY <2>1, <2>5, <3>1, UpdateType DEF RecoverDecided, TypeOK, UnchangedBroker
  <2>6. CASE RecoverUndecided(w)
    <3>1. [j EXCEPT !.rescued = TRUE] \in Jobs
      BY <1>1 DEF Jobs
    <3>2. Fail([j EXCEPT !.rescued = TRUE], "panic") \in Jobs
      BY <1>1, <3>1, FailType
    <3> QED  BY <2>1, <2>6, <3>2, UpdateType DEF RecoverUndecided, TypeOK, UnchangedBroker
  <2>7. CASE TransportReturns(w)
    BY <2>1, <2>7, IdleType, UpdateType DEF TransportReturns, TypeOK, UnchangedBroker
  <2> QED  BY <1>4, <2>2, <2>3, <2>4, <2>5, <2>6, <2>7
<1> QED  BY <1>3, <1>4 DEF SettleStep

-----------------------------------------------------------------------------
(* The operators on jobs establish the invariant at the place they lead to. *)

LEMMA SettlingInv ==
  ASSUME NEW j \in Jobs, NEW o \in {"acked", "nacked", "discarded"}, NEW r \in Reasons,
         j.pc # "idle", Sound(j), Untold(j), j.rescued => o # "acked",
         RightDecision([j EXCEPT !.reason = r], o)
  PROVE  JobInv(Settling(j, o, r))
<1> DEFINE k == Settling(j, o, r)
<1>1. /\ k.pc = "settling" /\ k.plan = o /\ k.reason = r
      /\ k.count = j.count /\ k.broken = j.broken /\ k.outcome = j.outcome
      /\ k.callback = j.callback /\ k.reports = j.reports /\ k.rescued = j.rescued
      /\ k.handled = j.handled /\ k.data = j.data /\ k.sent = j.sent /\ k.copy = j.copy
  BY DEF Settling, Jobs
<1>2. RightDecision(k, o)
  BY <1>1 DEF RightDecision, Jobs
<1> QED  BY <1>1, <1>2 DEF JobInv, Sound, Untold

LEMMA FailInv ==
  ASSUME NEW j \in Jobs, NEW r \in Reasons,
         j.pc # "idle", Sound(j), Untold(j), j.plan = "pending",
         r = NoReason => /\ cfg.transport # "core" /\ j.copy # "failed"
                         /\ cfg.maxRetries > 0 /\ cfg.transport = "counted"
                              => j.count <= cfg.maxRetries
  PROVE  JobInv(Fail(j, r))
<1>1. CASE r = NoReason
  <2>1. RightDecision([j EXCEPT !.reason = NoReason], "nacked")
    BY <1>1 DEF RightDecision, Jobs
  <2> QED  BY <1>1, <2>1, SettlingInv DEF Fail, Reasons, NoReason
<1>2. CASE r # NoReason /\ cfg.deadLetter
  <2> DEFINE k == [j EXCEPT !.pc = "copying", !.reason = r]
  <2>1. /\ k.pc = "copying" /\ k.reason = r /\ k.plan = j.plan
        /\ k.count = j.count /\ k.broken = j.broken /\ k.outcome = j.outcome
        /\ k.callback = j.callback /\ k.reports = j.reports /\ k.copy = j.copy
    BY DEF Jobs
  <2>2. Fail(j, r) = k
    BY <1>2 DEF Fail
  <2> QED  BY <1>2, <2>1, <2>2 DEF JobInv, Sound, Untold
<1>3. CASE r # NoReason /\ ~cfg.deadLetter
  <2>1. RightDecision([j EXCEPT !.reason = r], "discarded")
    BY <1>3 DEF RightDecision, Jobs
  <2> QED  BY <1>3, <2>1, SettlingInv DEF Fail
<1> QED  BY <1>1, <1>2, <1>3

LEMMA PanickedInv ==
  ASSUME NEW j \in Jobs, j.pc # "idle", Sound(j), Reported(j), Kept(j),
         j.outcome # "pending" => j.plan = j.outcome /\ RightDecision(j, j.outcome),
         j.outcome = "pending" => j.plan = "pending" /\ j.callback = "none",
         j.rescued => j.plan # "acked",
         j.rescued /\ j.outcome = "pending" => cfg.deadLetter /\ j.copy = "panicked"
  PROVE  JobInv(Panicked(j))
<1> DEFINE k == Panicked(j)
<1>1. /\ k.pc = IF j.rescued THEN "returned" ELSE "recovering"
      /\ k.plan = j.plan /\ k.reason = j.reason /\ k.reported = j.reported
      /\ k.count = j.count /\ k.broken = j.broken /\ k.outcome = j.outcome
      /\ k.callback = j.callback /\ k.reports = j.reports /\ k.rescued = j.rescued
      /\ k.handled = j.handled /\ k.data = j.data /\ k.sent = j.sent /\ k.copy = j.copy
  BY DEF Panicked, Jobs
<1>2. RightDecision(j, j.outcome) => RightDecision(k, k.outcome)
  BY <1>1 DEF RightDecision
<1>3. Reported(k) /\ Kept(k)
  BY <1>1 DEF Reported, Kept
<1>4. j.rescued \in BOOLEAN
  BY DEF Jobs
<1> QED  BY <1>1, <1>2, <1>3, <1>4 DEF JobInv, Sound

LEMMA IdleInv == JobInv(Idle)
  BY DEF Idle, JobInv, Sound, Untold, Fresh, RightDecision, Reported, Kept

(* A job replaced by one that satisfies the invariant keeps it everywhere.  *)
LEMMA UpdateInv ==
  ASSUME TypeOK, IInv, NEW w \in Workers, NEW j \in Jobs, Update(w, j), UNCHANGED cfg, JobInv(j)
  PROVE  IInv'
<1>1. \A v \in Workers : job'[v] = IF v = w THEN j ELSE job[v]
  BY DEF TypeOK, Update
<1>2. \A v \in Workers : JobInv(job'[v])
  BY <1>1 DEF IInv
<1>3. ASSUME NEW v \in Workers
      PROVE  JobInv(job[v])'
  <2>1. JobInv(job'[v])
    BY <1>2
  <2> QED
    BY <2>1 DEF JobInv, Sound, RightDecision, Fresh, Untold, Reported, Kept
<1> QED  BY <1>3 DEF IInv

-----------------------------------------------------------------------------
(* Every step of a worker keeps the invariant.                              *)

LEMMA ResultInv ==
  ASSUME TypeOK, IInv, NEW w \in Workers, UNCHANGED cfg,
         ResultPublished(w) \/ \E failure \in {"nonretryable", "retryable"} : ResultFails(w, failure)
  PROVE  IInv'
<1> DEFINE j == job[w]
<1>1. j \in Jobs /\ JobInv(j) /\ cfg \in Configs /\ j.pc = "publishing"
  BY DEF TypeOK, IInv, ResultPublished, ResultFails, At
<1>2. CASE ResultPublished(w)
  <2> DEFINE l == [j EXCEPT !.sent = TRUE]
  <2>1. Update(w, Settling(l, "acked", NoReason))
    BY <1>2 DEF ResultPublished
  <2>2. l \in Jobs
    BY <1>1 DEF Jobs
  <2>3. /\ l.pc = j.pc /\ l.count = j.count /\ l.outcome = j.outcome
        /\ l.callback = j.callback /\ l.reports = j.reports /\ l.rescued = j.rescued
        /\ l.copy = j.copy /\ l.broken = j.broken /\ l.handled = j.handled /\ l.sent = TRUE
    BY <1>1 DEF Jobs
  <2> HIDE DEF l
  <2>4. RightDecision([l EXCEPT !.reason = NoReason], "acked")
    BY <1>1, <2>2, <2>3 DEF JobInv, RightDecision, Jobs
  <2>5. Sound(l) /\ Untold(l) /\ ~l.rescued /\ l.pc # "idle" /\ NoReason \in Reasons
    BY <1>1, <2>3 DEF JobInv, Sound, Untold, Fresh, Reasons
  <2>6. JobInv(Settling(l, "acked", NoReason))
    BY <2>2, <2>4, <2>5, SettlingInv
  <2>7. Settling(l, "acked", NoReason) \in Jobs
    BY <2>2, <2>5, SettlingType DEF Outcomes
  <2> QED  BY <2>1, <2>6, <2>7, UpdateInv
<1>3. ASSUME NEW failure \in {"nonretryable", "retryable"}, ResultFails(w, failure)
      PROVE  IInv'
  <2>1. PICK k \in Unpublished(j, ResultContext(j)) : Update(w, Fail(k, ClassifyPublish(k, failure)))
    BY <1>3 DEF ResultFails
  <2> DEFINE r == ClassifyPublish(k, failure)
  <2>2. /\ k \in Jobs
        /\ k.pc = j.pc /\ k.count = j.count /\ k.outcome = j.outcome
        /\ k.callback = j.callback /\ k.reports = j.reports /\ k.rescued = j.rescued
        /\ k.copy = j.copy /\ k.plan = j.plan
    <3>1. k = j \/ k = Broken(j)
      BY <2>1 DEF Unpublished
    <3>2. k \in Jobs
      BY <1>1, <3>1, BrokenType
    <3> HIDE DEF j
    <3> QED  BY <1>1, <3>1, <3>2, BrokenFields
  <2>3. Sound(k) /\ Untold(k) /\ Fresh(k) /\ k.plan = "pending" /\ k.pc # "idle"
    BY <1>1, <2>2 DEF JobInv, Sound, Untold, Fresh
  <2>4. r \in Reasons
    BY ClassifyType DEF Failures
  <2>5. r = NoReason => CanNack /\ ~PastMaxRetries(k)
    BY DEF ClassifyPublish, NoReason
  <2>6. k.count \in Nat /\ cfg.maxRetries \in Nat
    BY <1>1, <2>2 DEF Jobs, Configs
  <2>7. r = NoReason => /\ cfg.transport # "core" /\ k.copy # "failed"
                        /\ cfg.maxRetries > 0 /\ cfg.transport = "counted"
                             => k.count <= cfg.maxRetries
    BY <2>2, <1>1, <2>3, <2>5, <2>6 DEF CanNack, PastMaxRetries, CountKnown, Sound, Fresh
  <2> HIDE DEF r
  <2>8. JobInv(Fail(k, r))
    BY <2>2, <2>3, <2>4, <2>7, FailInv
  <2>9. Fail(k, r) \in Jobs
    BY <2>2, <2>4, FailType
  <2>10. Update(w, Fail(k, r))
    BY <2>1 DEF r
  <2> QED  BY <2>8, <2>9, <2>10, UpdateInv
<1> QED  BY <1>2, <1>3

LEMMA CopyInv ==
  ASSUME TypeOK, IInv, NEW w \in Workers, UNCHANGED cfg,
         CopyPublished(w) \/ CopyFails(w) \/ CopyRefused(w) \/ CopyPanics(w)
  PROVE  IInv'
<1> DEFINE j == job[w]
           c(o) == [j EXCEPT !.copy = o]
           Tried(k, o) == /\ k.copy = o /\ k.reason = j.reason
                          /\ k.pc = j.pc /\ k.count = j.count /\ k.outcome = j.outcome
                          /\ k.callback = j.callback /\ k.reports = j.reports /\ k.plan = j.plan
                          /\ o # "out" => k.broken
<1>1. /\ j \in Jobs /\ JobInv(j) /\ cfg \in Configs /\ j.pc = "copying" /\ j.reason \in Reasons
      /\ NoReason \in Reasons
  BY DEF TypeOK, IInv, CopyPublished, CopyFails, CopyRefused, CopyPanics, At, Jobs, Reasons
<1>2. ASSUME NEW o \in {"out", "failed", "refused", "panicked"}
      PROVE  /\ c(o) \in Jobs /\ Broken(c(o)) \in Jobs
             /\ Tried(Broken(c(o)), o)
             /\ o = "out" => Tried(c(o), o)
  <2>1. /\ c(o) \in Jobs /\ c(o).copy = o /\ c(o).reason = j.reason
        /\ c(o).pc = j.pc /\ c(o).count = j.count /\ c(o).outcome = j.outcome
        /\ c(o).callback = j.callback /\ c(o).reports = j.reports /\ c(o).plan = j.plan
    BY <1>1 DEF Jobs
  <2> HIDE DEF c
  <2> QED  BY <2>1, BrokenType, BrokenFields
<1> HIDE DEF c
<1>3. ASSUME NEW o \in {"out", "failed", "refused", "panicked"}, NEW k \in Jobs, Tried(k, o)
      PROVE  Sound(k) /\ Untold(k) /\ k.plan = "pending" /\ k.pc = "copying"
  BY <1>1, <1>3 DEF JobInv, Sound, Untold
<1>4. cfg.deadLetter /\ cfg.maxRetries \in Nat /\ j.count \in Nat
  BY <1>1 DEF JobInv, Jobs, Configs
<1>5. ASSUME NEW o \in {"out", "failed", "refused"}, NEW d \in {"nacked", "discarded"},
             NEW k \in Jobs, Tried(k, o),
             NEW r \in {NoReason, j.reason}, Update(w, Settling(k, d, r)),
             RightDecision([k EXCEPT !.reason = r], d)
      PROVE  IInv'
  <2>1. Sound(k) /\ Untold(k) /\ k.pc = "copying"
    BY <1>3, <1>5
  <2>2. k.rescued => d # "acked"
    OBVIOUS
  <2>3. JobInv(Settling(k, d, r))
    BY <1>1, <1>5, <2>1, <2>2, SettlingInv
  <2>4. Settling(k, d, r) \in Jobs
    BY <1>1, <1>5, SettlingType DEF Outcomes
  <2> QED  BY <1>5, <2>3, <2>4, UpdateInv
<1>6. CASE CopyPublished(w) \/ CopyRefused(w)
  <2>1. PICK o \in {"out", "refused"}, k \in Jobs :
          Tried(k, o) /\ Update(w, Settling(k, "discarded", j.reason))
    <3>1. CASE CopyPublished(w)
      BY <1>2, <3>1 DEF CopyPublished, c
    <3>2. CASE CopyRefused(w)
      <4>1. PICK k \in Unpublished(c("refused"), CopyContext(j)) :
              Update(w, Settling(k, "discarded", k.reason))
        BY <3>2 DEF CopyRefused, c
      <4>2. k = Broken(c("refused"))
        BY <4>1, DetachedFailure DEF CopyContext
      <4> QED  BY <1>2, <4>1, <4>2
    <3> QED  BY <1>6, <3>1, <3>2
  <2>2. RightDecision([k EXCEPT !.reason = j.reason], "discarded")
    BY <2>1 DEF RightDecision, Jobs
  <2> QED  BY <1>5, <2>1, <2>2
<1>7. CASE CopyFails(w)
  <2>1. PICK f \in Unpublished(c("failed"), CopyContext(j)) :
          \/ RedeliveryBounded(f) /\ Update(w, Settling(f, "nacked", NoReason))
          \/ ~RedeliveryBounded(f) /\ Update(w, Settling(f, "discarded", f.reason))
    BY <1>7 DEF CopyFails, c
  <2>2. f = Broken(c("failed"))
    BY <2>1, DetachedFailure DEF CopyContext
  <2>3. f \in Jobs /\ Tried(f, "failed")
    BY <1>2, <2>2
  <2>4. CASE RedeliveryBounded(f)
    <3>1. /\ cfg.transport = "counted" /\ cfg.maxRetries > 0 /\ f.count <= cfg.maxRetries
      BY <1>3, <1>4, <2>3, <2>4
      DEF RedeliveryBounded, CanNack, CountKnown, PastMaxRetries, Sound
    <3>2. RightDecision([f EXCEPT !.reason = NoReason], "nacked")
      BY <2>3, <3>1 DEF RightDecision, Jobs
    <3> QED  BY <1>5, <2>1, <2>3, <2>4, <3>2
  <2>5. CASE ~RedeliveryBounded(f)
    <3>1. cfg.transport # "counted" \/ f.count \notin 1 .. cfg.maxRetries
      BY <1>3, <1>4, <2>3, <2>5
      DEF RedeliveryBounded, CanNack, CountKnown, PastMaxRetries, Sound
    <3>2. RightDecision([f EXCEPT !.reason = j.reason], "discarded")
      BY <2>3, <3>1 DEF RightDecision, Jobs
    <3> QED  BY <1>5, <2>1, <2>3, <2>5, <3>2
  <2> QED  BY <2>4, <2>5
<1>8. CASE CopyPanics(w)
  <2> DEFINE k == Broken(c("panicked"))
  <2>1. Update(w, Panicked(k))
    BY <1>8 DEF CopyPanics, c
  <2>2. k \in Jobs /\ Tried(k, "panicked")
    BY <1>2
  <2> HIDE DEF k
  <2>3. Sound(k) /\ Untold(k) /\ k.plan = "pending" /\ k.pc = "copying"
    BY <1>3, <2>2
  <2>4. Reported(k) /\ Kept(k)
    BY <2>2, <2>3 DEF Reported, Untold, Kept
  <2>5. JobInv(Panicked(k))
    BY <1>4, <2>2, <2>3, <2>4, PanickedInv DEF Untold
  <2> QED  BY <2>1, <2>2, <2>5, PanickedType, UpdateInv
<1> QED  BY <1>6, <1>7, <1>8

LEMMA HandleStepInv ==
  ASSUME TypeOK, IInv, NEW w \in Workers, HandleStep(w)
  PROVE  IInv'
<1> DEFINE j == job[w]
<1>1. /\ j \in Jobs /\ JobInv(j) /\ j.reason \in Reasons
      /\ {"decode", "panic", NoReason} \subseteq Reasons
      /\ cfg \in Configs
  BY DEF TypeOK, IInv, Jobs, Reasons
<1>2. UNCHANGED cfg
  BY HandleStep(w), Zenon
  DEF HandleStep, At, UnchangedBroker, Undecodable, NoRouteFound, RouteMatches,
      PanicsOutsideHandler, PayloadDecodes, PayloadFails, HandlerReturns, HandlerFails,
      ResultPublished, ResultPanics, ResultFails, CopyPublished, CopyFails, CopyRefused,
      CopyPanics
<1>3. CASE Undecodable(w) \/ PayloadFails(w)
  <2>1. j.pc \in {"handling", "decoding"} /\ Update(w, Fail(j, "decode"))
    BY <1>3 DEF Undecodable, PayloadFails, At
  <2>2. JobInv(Fail(j, "decode"))
    BY <1>1, <2>1, FailInv DEF JobInv, Untold, NoReason
  <2> QED  BY <1>1, <1>2, <2>1, <2>2, FailType, UpdateInv
<1>4. CASE NoRouteFound(w)
  <2>1. j.pc = "handling" /\ Update(w, Settling(j, "discarded", NoReason))
    BY <1>4 DEF NoRouteFound, At
  <2>2. RightDecision([j EXCEPT !.reason = NoReason], "discarded")
    BY <1>1 DEF RightDecision, Jobs
  <2>3. JobInv(Settling(j, "discarded", NoReason))
    BY <1>1, <2>1, <2>2, SettlingInv DEF JobInv
  <2>4. Settling(j, "discarded", NoReason) \in Jobs
    BY <1>1, SettlingType DEF Outcomes
  <2> QED  BY <1>2, <2>1, <2>3, <2>4, UpdateInv
<1>5. CASE RouteMatches(w) \/ PayloadDecodes(w)
  <2>1. PICK p \in {"decoding", "invoking"} :
          j.pc \in {"handling", "decoding"} /\ Update(w, [j EXCEPT !.pc = p])
    BY <1>5 DEF RouteMatches, PayloadDecodes, At
  <2> DEFINE k == [j EXCEPT !.pc = p]
  <2>2. k \in Jobs
    BY <1>1 DEF Jobs, Places
  <2>3. /\ k.pc = p /\ k.count = j.count /\ k.broken = j.broken /\ k.outcome = j.outcome
        /\ k.callback = j.callback /\ k.reports = j.reports /\ k.rescued = j.rescued
        /\ k.copy = j.copy /\ k.plan = j.plan
    BY <1>1 DEF Jobs
  <2>4. JobInv(k)
    BY <1>1, <2>1, <2>3 DEF JobInv, Sound, Untold, Fresh
  <2> QED  BY <1>2, <2>1, <2>2, <2>4, UpdateInv
<1>6. CASE PanicsOutsideHandler(w) \/ ResultPanics(w)
  <2>1. PICK k \in {j, Broken(j)} :
          j.pc \in {"handling", "decoding", "publishing"} /\ Update(w, Panicked(k))
    BY <1>6 DEF PanicsOutsideHandler, ResultPanics, At
  <2>2. /\ k \in Jobs
        /\ k.pc = j.pc /\ k.count = j.count /\ k.outcome = j.outcome
        /\ k.callback = j.callback /\ k.reports = j.reports /\ k.rescued = j.rescued
        /\ k.copy = j.copy /\ k.plan = j.plan
    BY <1>1, <2>1, BrokenType, BrokenFields
  <2>3. /\ Sound(k) /\ Reported(k) /\ Kept(k) /\ ~k.rescued /\ k.pc # "idle"
        /\ k.outcome = "pending" /\ k.plan = "pending" /\ k.callback = "none"
    BY <1>1, <2>1, <2>2 DEF JobInv, Sound, Untold, Fresh, Reported, Kept
  <2>4. JobInv(Panicked(k))
    BY <2>2, <2>3, PanickedInv
  <2> QED  BY <1>2, <2>1, <2>2, <2>4, PanickedType, UpdateInv
<1>7. ASSUME NEW hasData \in BOOLEAN, HandlerReturns(w, hasData)
      PROVE  IInv'
  <2> DEFINE k == [j EXCEPT !.handled = TRUE, !.data = hasData]
             l == [k EXCEPT !.pc = "publishing"]
             s == Settling(k, "acked", NoReason)
  <2>1. /\ j.pc = "invoking"
        /\ \/ ~cfg.publishAfterAck /\ cfg.publishes /\ hasData /\ Update(w, l)
           \/ ~(~cfg.publishAfterAck /\ cfg.publishes /\ hasData) /\ Update(w, s)
    BY <1>7 DEF HandlerReturns, At
  <2>2. k \in Jobs /\ l \in Jobs
    BY <1>1 DEF Jobs, Places
  <2>3. s \in Jobs
    BY <1>1, <2>2, SettlingType DEF Outcomes
  <2>4. /\ k.pc = j.pc /\ k.count = j.count /\ k.broken = j.broken /\ k.outcome = j.outcome
        /\ k.callback = j.callback /\ k.reports = j.reports /\ k.rescued = j.rescued
        /\ k.copy = j.copy /\ k.plan = j.plan /\ k.handled = TRUE /\ k.data = hasData
    BY <1>1 DEF Jobs
  <2>5. /\ l.pc = "publishing" /\ l.count = j.count /\ l.broken = j.broken
        /\ l.outcome = j.outcome /\ l.callback = j.callback /\ l.reports = j.reports
        /\ l.rescued = j.rescued /\ l.copy = j.copy /\ l.plan = j.plan /\ l.handled = TRUE
    BY <1>1 DEF Jobs
  <2>6. JobInv(l)
    BY <1>1, <2>1, <2>5 DEF JobInv, Sound, Untold, Fresh
  <2>7. CASE ~(~cfg.publishAfterAck /\ cfg.publishes /\ hasData)
    <3>1. RightDecision([k EXCEPT !.reason = NoReason], "acked")
      BY <1>1, <2>7 DEF RightDecision, Jobs
    <3>2. Sound(k) /\ Untold(k) /\ ~k.rescued
      BY <1>1, <2>1, <2>4 DEF JobInv, Sound, Untold, Fresh
    <3>3. JobInv(s)
      BY <1>1, <2>1, <2>2, <2>4, <3>1, <3>2, SettlingInv
    <3> QED  BY <1>2, <2>1, <2>3, <2>7, <3>3, UpdateInv
  <2>8. CASE ~cfg.publishAfterAck /\ cfg.publishes /\ hasData
    BY <1>2, <2>1, <2>2, <2>6, <2>8, UpdateInv
  <2> QED  BY <2>7, <2>8
<1>8. ASSUME NEW failure \in Failures, HandlerFails(w, failure)
      PROVE  IInv'
  <2> DEFINE r == Classify(j, failure)
  <2>1. j.pc = "invoking" /\ Update(w, Fail(j, r))
    BY <1>8 DEF HandlerFails, At
  <2>2. r \in Reasons
    BY ClassifyType
  <2>3. r = NoReason => /\ cfg.transport # "core"
                        /\ cfg.maxRetries > 0 /\ cfg.transport = "counted"
                             => j.count <= cfg.maxRetries
    <3>1. r = NoReason => CanNack /\ ~PastMaxRetries(j)
      BY DEF Classify, NoReason, Failures
    <3> QED
      BY <1>1, <2>1, <3>1 DEF CanNack, PastMaxRetries, CountKnown, JobInv, Sound, Jobs, Configs
  <2> HIDE DEF r
  <2>4. JobInv(Fail(j, r))
    BY <1>1, <2>1, <2>2, <2>3, FailInv DEF JobInv, Untold, Fresh
  <2> QED  BY <1>1, <1>2, <2>1, <2>2, <2>4, FailType, UpdateInv
<1>9. CASE ResultPublished(w) \/ \E failure \in {"nonretryable", "retryable"} : ResultFails(w, failure)
  BY <1>1, <1>2, <1>9, ResultInv
<1>10. CASE CopyPublished(w) \/ CopyFails(w) \/ CopyRefused(w) \/ CopyPanics(w)
  BY <1>1, <1>2, <1>10, CopyInv
<1> QED
  BY <1>3, <1>4, <1>5, <1>6, <1>7, <1>8, <1>9, <1>10, HandleStep(w), Zenon DEF HandleStep

LEMMA SettleStepInv ==
  ASSUME TypeOK, IInv, NEW w \in Workers, SettleStep(w)
  PROVE  IInv'
<1> DEFINE j == job[w]
           d == Decide(j)
<1>1. j \in Jobs /\ JobInv(j) /\ cfg \in Configs
  BY DEF TypeOK, IInv
<1>2. UNCHANGED cfg
  BY SettleStep(w), Zenon
  DEF SettleStep, At, UnchangedBroker, Settle, SettleFails, SettlePanics, Observe,
      LateResultPublished, LateResultFails, LateResultPanics, RecoverDecided,
      RecoverUndecided, TransportReturns
<1>3. CASE Settle(w) \/ SettleFails(w) \/ SettlePanics(w)
  <2>1. j.pc = "settling"
    BY <1>3 DEF Settle, SettleFails, SettlePanics
  <2>2. d \in Jobs
    BY <1>1, DecideType
  <2>3. /\ d.outcome = j.plan /\ d.plan = j.plan /\ d.count = j.count /\ d.broken = j.broken
        /\ d.reports = j.reports /\ d.rescued = j.rescued /\ d.copy = j.copy /\ d.pc = j.pc
        /\ d.handled = j.handled /\ d.data = j.data /\ d.sent = j.sent /\ d.reason = j.reason
    BY <1>1, <2>1 DEF Decide, JobInv, Untold, Jobs
  <2>4. d.outcome # "pending" /\ d.reports = 0 /\ Sound(d) /\ (d.rescued => d.plan # "acked")
    BY <1>1, <2>1, <2>3 DEF JobInv, Untold, Sound
  <2>5. RightDecision(d, d.outcome)
    BY <1>1, <2>1, <2>3 DEF JobInv, RightDecision
  <2> HIDE DEF d
  <2>6. ASSUME NEW c \in {"none", "called"},
               Update(w, [d EXCEPT !.pc = "observing", !.ctx = "cancelled", !.callback = c])
        PROVE  IInv'
    <3> DEFINE k == [d EXCEPT !.pc = "observing", !.ctx = "cancelled", !.callback = c]
    <3>1. k \in Jobs
      BY <2>2 DEF Jobs, Places
    <3>2. /\ k.pc = "observing" /\ k.callback = c /\ k.outcome = d.outcome /\ k.plan = d.plan
          /\ k.count = d.count /\ k.broken = d.broken /\ k.reports = d.reports
          /\ k.rescued = d.rescued /\ k.copy = d.copy /\ k.handled = d.handled
          /\ k.data = d.data /\ k.sent = d.sent /\ k.reason = d.reason
      BY <2>2 DEF Jobs
    <3>3. RightDecision(k, k.outcome) /\ Sound(k)
      BY <2>1, <2>3, <2>4, <2>5, <3>2 DEF RightDecision, Sound
    <3>4. JobInv(k)
      BY <2>3, <2>4, <3>2, <3>3 DEF JobInv
    <3> QED  BY <1>2, <2>6, <3>1, <3>4, UpdateInv
  <2>7. CASE SettlePanics(w)
    <3> DEFINE k == [d EXCEPT !.callback = "panicked"]
    <3>1. Update(w, Panicked(k))
      BY <2>7 DEF SettlePanics, d
    <3>2. k \in Jobs
      BY <2>2 DEF Jobs
    <3>3. /\ k.pc = d.pc /\ k.callback = "panicked" /\ k.outcome = d.outcome /\ k.plan = d.plan
          /\ k.count = d.count /\ k.broken = d.broken /\ k.reports = d.reports
          /\ k.rescued = d.rescued /\ k.copy = d.copy /\ k.handled = d.handled
          /\ k.data = d.data /\ k.sent = d.sent /\ k.reason = d.reason
      BY <2>2 DEF Jobs
    <3> HIDE DEF k
    <3>4. /\ RightDecision(k, k.outcome) /\ Sound(k) /\ Reported(k) /\ Kept(k)
          /\ k.pc # "idle" /\ k.outcome # "pending" /\ k.plan = k.outcome
      BY <2>1, <2>3, <2>4, <2>5, <3>3 DEF RightDecision, Sound, Reported, Kept
    <3>5. JobInv(Panicked(k))
      BY <2>4, <3>2, <3>3, <3>4, PanickedInv
    <3> QED  BY <1>2, <3>1, <3>2, <3>5, PanickedType, UpdateInv
  <2>8. CASE Settle(w)
    BY <2>6, <2>8 DEF Settle, d
  <2>9. CASE SettleFails(w)
    BY <2>6, <2>9 DEF SettleFails, d
  <2> QED  BY <1>3, <2>7, <2>8, <2>9
<1>4. CASE Observe(w)
  <2> DEFINE n == j.reports + 1
             p == AfterReport(j)
             k == [j EXCEPT !.reports = n, !.reported = j.plan, !.pc = p]
  <2>1. j.pc = "observing" /\ Update(w, k)
    BY <1>4 DEF Observe, At
  <2>2. /\ p \in {"afterAck", "returned"} /\ p \in Places
        /\ p = "afterAck" => j.plan = "acked"
        /\ p = "returned" => ~(j.plan = "acked" /\ cfg.publishAfterAck /\ cfg.publishes /\ j.data)
        /\ n \in Nat /\ j.plan \in Outcomes
    BY <1>1 DEF AfterReport, Places, Jobs
  <2>3. j.reports = 0 => n = 1
    OBVIOUS
  <2> HIDE DEF n, p
  <2>4. k \in Jobs
    BY <1>1, <2>2, ReportType
  <2>5. /\ k.pc = p /\ k.callback = j.callback /\ k.outcome = j.outcome /\ k.plan = j.plan
        /\ k.count = j.count /\ k.broken = j.broken /\ k.reports = n
        /\ k.rescued = j.rescued /\ k.copy = j.copy /\ k.handled = j.handled
        /\ k.data = j.data /\ k.sent = j.sent /\ k.reason = j.reason /\ k.reported = j.plan
    BY <1>1, <2>2 DEF Jobs
  <2> HIDE DEF k
  <2>6. RightDecision(k, k.outcome) /\ Sound(k) /\ Reported(k)
    BY <1>1, <2>1, <2>2, <2>3, <2>5 DEF JobInv, RightDecision, Sound, Reported
  <2>7. p = "returned" => Kept(k)
    BY <1>1, <2>1, <2>2, <2>5, <2>6 DEF JobInv, RightDecision, Kept
  <2>8. JobInv(k)
    BY <1>1, <2>1, <2>2, <2>5, <2>6, <2>7 DEF JobInv
  <2> QED  BY <1>2, <2>1, <2>4, <2>8, UpdateInv DEF k
<1>5. CASE LateResultPublished(w) \/ LateResultFails(w)
  <2>1. PICK b \in {TRUE, j.sent}, e \in {TRUE, j.broken} :
          /\ j.pc = "afterAck" /\ (b \/ e)
          /\ Update(w, [j EXCEPT !.pc = "returned", !.sent = b, !.broken = e])
    <3>1. CASE LateResultPublished(w)
      <4>1. [j EXCEPT !.pc = "returned", !.sent = TRUE, !.broken = j.broken]
              = [j EXCEPT !.pc = "returned", !.sent = TRUE]
        BY <1>1 DEF Jobs
      <4> QED  BY <3>1, <4>1 DEF LateResultPublished, At
    <3>2. CASE LateResultFails(w)
      <4>1. Update(w, [Broken(j) EXCEPT !.pc = "returned"])
        BY <3>2, DetachedFailure DEF LateResultFails, LateContext
      <4>2. [j EXCEPT !.pc = "returned", !.sent = j.sent, !.broken = TRUE]
              = [Broken(j) EXCEPT !.pc = "returned"]
        BY <1>1 DEF Jobs, Broken
      <4> QED  BY <3>2, <4>1, <4>2 DEF LateResultFails, At
    <3> QED  BY <1>5, <3>1, <3>2
  <2> DEFINE k == [j EXCEPT !.pc = "returned", !.sent = b, !.broken = e]
  <2>2. k \in Jobs
    BY <1>1 DEF Jobs, Places
  <2>3. /\ k.pc = "returned" /\ k.callback = j.callback /\ k.outcome = j.outcome
        /\ k.plan = j.plan /\ k.count = j.count /\ k.broken \in {TRUE, j.broken}
        /\ k.reports = j.reports /\ k.rescued = j.rescued /\ k.copy = j.copy
        /\ k.handled = j.handled /\ k.data = j.data /\ k.sent \in {TRUE, j.sent}
        /\ k.reason = j.reason /\ k.reported = j.reported
        /\ k.sent \/ k.broken
    BY <1>1, <2>1 DEF Jobs
  <2> HIDE DEF k
  <2>4. /\ RightDecision(k, k.outcome) /\ Sound(k) /\ Reported(k) /\ Kept(k)
        /\ k.outcome # "pending"
    BY <1>1, <2>1, <2>3 DEF JobInv, RightDecision, Sound, Reported, Kept
  <2>5. JobInv(k)
    BY <1>1, <2>1, <2>3, <2>4 DEF JobInv
  <2> QED  BY <1>2, <2>1, <2>2, <2>5, UpdateInv DEF k
<1>6. CASE LateResultPanics(w)
  <2> DEFINE k == Broken(j)
  <2>1. j.pc = "afterAck" /\ Update(w, Panicked(k))
    BY <1>6 DEF LateResultPanics, At
  <2>2. /\ k \in Jobs
        /\ k.pc = j.pc /\ k.callback = j.callback /\ k.outcome = j.outcome
        /\ k.plan = j.plan /\ k.count = j.count /\ k.broken = TRUE
        /\ k.reports = j.reports /\ k.rescued = j.rescued /\ k.copy = j.copy
        /\ k.handled = j.handled /\ k.data = j.data /\ k.sent = j.sent
        /\ k.reason = j.reason /\ k.reported = j.reported
    BY <1>1, BrokenType, BrokenFields
  <2> HIDE DEF k
  <2>3. /\ RightDecision(k, k.outcome) /\ Sound(k) /\ Reported(k) /\ Kept(k)
        /\ k.outcome # "pending" /\ k.plan = k.outcome /\ ~k.rescued /\ k.pc # "idle"
    BY <1>1, <2>1, <2>2 DEF JobInv, RightDecision, Sound, Reported, Kept
  <2>4. JobInv(Panicked(k))
    BY <2>2, <2>3, PanickedInv
  <2> QED  BY <1>2, <2>1, <2>2, <2>4, PanickedType, UpdateInv
<1>7. CASE RecoverDecided(w)
  <2> DEFINE k == [j EXCEPT !.pc = "returned"]
  <2>1. j.pc = "recovering" /\ j.outcome # "pending" /\ Update(w, k)
    BY <1>7 DEF RecoverDecided, At
  <2>2. k \in Jobs
    BY <1>1 DEF Jobs, Places
  <2>3. /\ k.pc = "returned" /\ k.callback = j.callback /\ k.outcome = j.outcome
        /\ k.plan = j.plan /\ k.count = j.count /\ k.broken = j.broken
        /\ k.reports = j.reports /\ k.rescued = j.rescued /\ k.copy = j.copy
        /\ k.handled = j.handled /\ k.data = j.data /\ k.sent = j.sent
        /\ k.reason = j.reason /\ k.reported = j.reported
    BY <1>1 DEF Jobs
  <2> HIDE DEF k
  <2>4. RightDecision(k, k.outcome) /\ Sound(k) /\ Reported(k) /\ Kept(k)
    BY <1>1, <2>1, <2>3 DEF JobInv, RightDecision, Sound, Reported, Kept
  <2>5. JobInv(k)
    BY <1>1, <2>1, <2>3, <2>4 DEF JobInv
  <2> QED  BY <1>2, <2>1, <2>2, <2>5, UpdateInv DEF k
<1>8. CASE RecoverUndecided(w)
  <2> DEFINE k == [j EXCEPT !.rescued = TRUE]
  <2>1. j.pc = "recovering" /\ j.outcome = "pending" /\ Update(w, Fail(k, "panic"))
    BY <1>8 DEF RecoverUndecided, At
  <2>2. k \in Jobs /\ "panic" \in Reasons /\ "panic" # NoReason
    BY <1>1 DEF Jobs, Reasons, NoReason
  <2>3. /\ k.pc = j.pc /\ k.callback = j.callback /\ k.outcome = j.outcome
        /\ k.plan = j.plan /\ k.count = j.count /\ k.broken = j.broken
        /\ k.reports = j.reports /\ k.copy = j.copy
    BY <1>1 DEF Jobs
  <2> HIDE DEF k
  <2>4. Sound(k) /\ Untold(k) /\ k.plan = "pending" /\ k.pc # "idle"
    BY <1>1, <2>1, <2>3 DEF JobInv, Sound, Untold, Reported
  <2>5. JobInv(Fail(k, "panic"))
    BY <2>2, <2>4, FailInv
  <2> QED  BY <1>2, <2>1, <2>2, <2>5, FailType, UpdateInv
<1>9. CASE TransportReturns(w)
  <2>1. Update(w, Idle)
    BY <1>9 DEF TransportReturns
  <2> QED  BY <1>2, <2>1, IdleType, IdleInv, UpdateInv
<1> QED  BY <1>3, <1>4, <1>5, <1>6, <1>7, <1>8, <1>9 DEF SettleStep

-----------------------------------------------------------------------------
(* The broker's steps and the process's.                                    *)

LEMMA DeliverKeeps ==
  ASSUME TypeOK, IInv, NEW w \in Workers, NEW m \in Msgs, Deliver(w, m)
  PROVE  TypeOK' /\ IInv'
<1> DEFINE c == IF cfg.transport = "counted" THEN deliveries[m] + 1 ELSE 0
           k == [Idle EXCEPT !.pc = "handling", !.msg = m, !.count = c]
<1>1. deliveries[m] \in Nat /\ deliveries' \in [Msgs -> Nat] /\ c \in Nat
  BY DEF TypeOK, Deliver
<1>2. held' \subseteq Msgs /\ visible' \subseteq held' /\ UNCHANGED <<cfg, faults>>
  BY DEF TypeOK, Deliver, CanNack
<1>3. cfg.transport = "counted" => c > 0
  BY <1>1
<1>4. cfg.transport # "counted" => c = 0
  OBVIOUS
<1>5. Update(w, k)
  BY DEF Deliver
<1> HIDE DEF c
<1>6. k \in Jobs
  BY <1>1, IdleType DEF Jobs, Places
<1>7. /\ k.pc = "handling" /\ k.count = c /\ k.broken = FALSE /\ k.outcome = "pending"
      /\ k.callback = "none" /\ k.reports = 0 /\ k.copy = "none" /\ k.rescued = FALSE
      /\ k.plan = "pending"
  BY DEF Idle
<1> HIDE DEF k
<1>8. JobInv(k)
  BY <1>3, <1>4, <1>7 DEF JobInv, Sound, Untold, Fresh
<1>9. job' \in [Workers -> Jobs]
  BY <1>5, <1>6, UpdateType
<1>10. TypeOK'
  BY <1>1, <1>2, <1>9 DEF TypeOK
<1> QED  BY <1>2, <1>5, <1>6, <1>8, <1>10, UpdateInv

LEMMA CancelContextKeeps ==
  ASSUME TypeOK, IInv, NEW w \in Workers, CancelContext(w)
  PROVE  TypeOK' /\ IInv'
<1> DEFINE j == job[w]
           k == [j EXCEPT !.ctx = "cancelled"]
<1>1. j \in Jobs /\ JobInv(j) /\ Update(w, k) /\ UnchangedBroker /\ UNCHANGED faults
  BY DEF TypeOK, IInv, CancelContext
<1>2. k \in Jobs
  BY <1>1 DEF Jobs
<1>3. /\ k.pc = j.pc /\ k.callback = j.callback /\ k.outcome = j.outcome
      /\ k.plan = j.plan /\ k.count = j.count /\ k.broken = j.broken
      /\ k.reports = j.reports /\ k.rescued = j.rescued /\ k.copy = j.copy
      /\ k.handled = j.handled /\ k.data = j.data /\ k.sent = j.sent
      /\ k.reason = j.reason /\ k.reported = j.reported
  BY <1>1 DEF Jobs
<1> HIDE DEF k
<1>4. JobInv(k)
  BY <1>1, <1>3 DEF JobInv, Sound, RightDecision, Fresh, Untold, Reported, Kept
<1>5. job' \in [Workers -> Jobs]
  BY <1>1, <1>2, UpdateType
<1>6. TypeOK'
  BY <1>1, <1>5 DEF TypeOK, UnchangedBroker
<1> QED  BY <1>1, <1>2, <1>4, <1>6, UpdateInv DEF UnchangedBroker

LEMMA CrashKeeps ==
  ASSUME TypeOK, IInv, Crash
  PROVE  TypeOK' /\ IInv'
<1>1. job' = [w \in Workers |-> Idle] /\ UnchangedBroker /\ Fault
  BY DEF Crash
<1>2. job' \in [Workers -> Jobs]
  BY <1>1, IdleType
<1>3. TypeOK'
  BY <1>1, <1>2, FaultsStayBounded DEF TypeOK, UnchangedBroker
<1>4. \A w \in Workers : job'[w] = Idle
  BY <1>1
<1>5. ASSUME NEW w \in Workers
      PROVE  JobInv(job[w])'
  BY <1>1, <1>4, IdleInv DEF JobInv, Sound, RightDecision, Fresh, Untold, Reported, Kept, UnchangedBroker
<1> QED  BY <1>3, <1>5 DEF IInv

LEMMA RedeliverKeeps ==
  ASSUME TypeOK, IInv, NEW m \in Msgs, Redeliver(m) \/ RedeliverEarly(m)
  PROVE  TypeOK' /\ IInv'
<1>1. /\ m \in held /\ visible' = visible \cup {m} /\ UNCHANGED <<cfg, held, deliveries, job>>
      /\ UNCHANGED faults \/ Fault
  BY DEF Redeliver, RedeliverEarly
<1>2. TypeOK'
  BY <1>1, FaultsStayBounded DEF TypeOK
<1>3. IInv'
  BY <1>1 DEF IInv, JobInv, Sound, RightDecision, Fresh, Untold, Reported, Kept
<1> QED  BY <1>2, <1>3

-----------------------------------------------------------------------------
LEMMA InitKeeps == Init => TypeOK /\ IInv
<1> SUFFICES ASSUME Init PROVE TypeOK /\ IInv
  OBVIOUS
<1>1. TypeOK
  BY ConstantsAssumption, IdleType DEF Init, TypeOK
<1>2. IInv
  BY IdleInv DEF Init, IInv
<1> QED  BY <1>1, <1>2

LEMMA NextKeeps == TypeOK /\ IInv /\ [Next]_vars => TypeOK' /\ IInv'
<1> SUFFICES ASSUME TypeOK, IInv, [Next]_vars PROVE TypeOK' /\ IInv'
  OBVIOUS
<1>1. ASSUME NEW w \in Workers, Work(w) PROVE TypeOK' /\ IInv'
  BY <1>1, HandleStepType, HandleStepInv, SettleStepType, SettleStepInv DEF Work
<1>2. ASSUME NEW w \in Workers, CancelContext(w) PROVE TypeOK' /\ IInv'
  BY <1>2, CancelContextKeeps
<1>3. ASSUME NEW w \in Workers, NEW m \in Msgs, Deliver(w, m) PROVE TypeOK' /\ IInv'
  BY <1>3, DeliverKeeps
<1>4. ASSUME NEW m \in Msgs, Redeliver(m) \/ RedeliverEarly(m) PROVE TypeOK' /\ IInv'
  BY <1>4, RedeliverKeeps
<1>5. CASE Crash
  BY <1>5, CrashKeeps
<1>6. CASE UNCHANGED vars
  BY <1>6 DEF vars, TypeOK, IInv, JobInv, Sound, RightDecision, Fresh, Untold, Reported, Kept
<1> QED  BY <1>1, <1>2, <1>3, <1>4, <1>5, <1>6 DEF Next

(* Every variable keeps its type: the jobs, the broker's books, the         *)
(* configuration chosen at the start (Mux.handle and all it calls).         *)
THEOREM TypeCorrect == Spec => []TypeOK
<1>1. TypeOK /\ IInv /\ [Next]_vars => TypeOK' /\ IInv'
  BY NextKeeps
<1> QED  BY InitKeeps, <1>1, PTL DEF Spec

(* The inductive invariant: at every place of handle, what has been done    *)
(* for the message is enough for the decision taken or about to be taken.   *)
THEOREM JobsInvariant == Spec => []IInv
<1>1. TypeOK /\ IInv /\ [Next]_vars => TypeOK' /\ IInv'
  BY NextKeeps
<1> QED  BY InitKeeps, <1>1, PTL DEF Spec

(* recoverOutsideHandler never publishes or decides once the broker was     *)
(* told: whatever panics, one decision per delivery.                        *)
THEOREM DecidedOnceHolds == Spec => []DecidedOnce
<1>1. IInv => DecidedOnce
  BY DEF IInv, JobInv, Untold, DecidedOnce
<1> QED  BY <1>1, JobsInvariant, PTL

(* processAndHandle acknowledges only after a handler that succeeded, and   *)
(* in the default order only after its result was published.                *)
THEOREM AckedAfterResultHolds == Spec => []AckedAfterResult
<1>1. IInv => AckedAfterResult
  BY DEF IInv, JobInv, RightDecision, AckedAfterResult
<1> QED  BY <1>1, JobsInvariant, PTL

(* fail discards a failed message with a copy, or without one only when the *)
(* copy was refused for good or could not be retried within a bound.        *)
THEOREM DiscardedAfterCopyHolds == Spec => []DiscardedAfterCopy
<1>1. IInv => DiscardedAfterCopy
  BY DEF IInv, JobInv, RightDecision, DiscardedAfterCopy
<1> QED  BY <1>1, JobsInvariant, PTL

(* classify, classifyPublish and fail never nack where it leads nowhere or  *)
(* past Config.MaxRetries.                                                  *)
THEOREM NackedWithinLimitHolds == Spec => []NackedWithinLimit
<1>1. IInv => NackedWithinLimit
  BY DEF IInv, JobInv, RightDecision, NackedWithinLimit
<1> QED  BY <1>1, JobsInvariant, PTL

(* settle reports each decision to the Observer once and as recorded,       *)
(* unless the Delivery callback panics.                                     *)
THEOREM ReportedAsDecidedHolds == Spec => []ReportedAsDecided
<1>1. IInv => ReportedAsDecided
  BY DEF IInv, JobInv, Reported, ReportedAsDecided
<1> QED  BY <1>1, JobsInvariant, PTL

(* However contexts end, a delivery in which no publisher failed of itself  *)
(* leaves an acknowledged message with its result out and a discarded       *)
(* failure with its copy (processAndHandle, fail, publishDeadLetter).       *)
THEOREM WorkingPublishersSufficeHolds == Spec => []WorkingPublishersSuffice
<1>1. IInv => WorkingPublishersSuffice
  <2> SUFFICES ASSUME IInv, NEW w \in Workers, job[w].pc = "returned", ~job[w].broken
               PROVE  LET j == job[w] IN
                      /\ j.outcome = "acked" /\ cfg.publishes /\ j.data =>
                           j.sent \/ (cfg.publishAfterAck /\ j.callback = "panicked")
                      /\ j.outcome = "discarded" /\ j.reason # NoReason /\ cfg.deadLetter
                           => j.copy = "out"
    BY DEF WorkingPublishersSuffice
  <2>1. JobInv(job[w])
    BY DEF IInv
  <2> QED  BY <2>1 DEF JobInv, Sound, Kept, RightDecision
<1> QED  BY <1>1, JobsInvariant, PTL

(* handle returns undecided only after a dead-letter publisher panicked.    *)
THEOREM UndecidedOnlyByCopyPanicHolds == Spec => []UndecidedOnlyByCopyPanic
<1>1. IInv => UndecidedOnlyByCopyPanic
  BY DEF IInv, JobInv, UndecidedOnlyByCopyPanic
<1> QED  BY <1>1, JobsInvariant, PTL

-----------------------------------------------------------------------------
(* The mux implements Settlement.                                           *)

(* A step of handle that neither takes a message nor decides.               *)
Same(j, k) == k.msg = j.msg /\ k.outcome = j.outcome /\ k.pc # "idle"

LEMMA OperatorsKeep ==
  ASSUME NEW j \in Jobs, j.pc # "idle"
  PROVE  /\ \A o, r : Same(j, Settling(j, o, r))
         /\ \A r : Same(j, Fail(j, r))
         /\ Same(j, Panicked(j))
         /\ Same(j, Broken(j))
<1>1. \A o, r : Same(j, Settling(j, o, r))
  BY DEF Same, Settling, Jobs
<1>2. \A r : Same(j, [j EXCEPT !.pc = "copying", !.reason = r])
  BY DEF Same, Jobs
<1>3. \A r : Same(j, Fail(j, r))
  BY <1>1, <1>2 DEF Fail
<1>4. Same(j, Panicked(j))
  BY DEF Same, Panicked, Jobs
<1>5. Same(j, Broken(j))
  BY BrokenFields DEF Same
<1> QED  BY <1>1, <1>3, <1>4, <1>5

(* Such a step changes nothing Settlement sees.                             *)
LEMMA SameStutters ==
  ASSUME TypeOK, NEW w \in Workers, NEW k, Update(w, k), UNCHANGED <<cfg, held>>,
         job[w].pc # "idle", Same(job[w], k)
  PROVE  UNCHANGED Promise!vars
<1>1. \A v \in Workers : job'[v] = IF v = w THEN k ELSE job[v]
  BY DEF TypeOK, Update
<1>2. \A v \in Workers : /\ job'[v].msg = job[v].msg
                         /\ job'[v].outcome = job[v].outcome
                         /\ (job'[v].pc = "idle") = (job[v].pc = "idle")
  BY <1>1 DEF Same
<1> QED  BY <1>2 DEF Promise!vars, CanNack, Item, Phase

LEMMA HandleStepStutters ==
  ASSUME TypeOK, NEW w \in Workers, HandleStep(w)
  PROVE  UNCHANGED Promise!vars
<1> DEFINE j == job[w]
<1>1. UNCHANGED <<cfg, held>> /\ j.pc # "idle" /\ j \in Jobs
  BY HandleStep(w)
  DEF HandleStep, At, UnchangedBroker, Undecodable, NoRouteFound, RouteMatches,
      PanicsOutsideHandler, PayloadDecodes, PayloadFails, HandlerReturns, HandlerFails,
      ResultPublished, ResultPanics, ResultFails, CopyPublished, CopyFails, CopyRefused,
      CopyPanics, TypeOK
<1>2. ASSUME NEW k, Update(w, k), Same(j, k)
      PROVE  UNCHANGED Promise!vars
  BY <1>1, <1>2, SameStutters
<1>3. ASSUME NEW k \in Jobs, Same(j, k)
      PROVE  /\ \A o, r : Same(j, Settling(k, o, r))
             /\ \A r : Same(j, Fail(k, r))
             /\ Same(j, Panicked(k))
  BY <1>3, OperatorsKeep DEF Same
<1>4. Same(j, j)
  BY <1>1 DEF Same
<1>5. CASE Undecodable(w) \/ PayloadFails(w) \/ NoRouteFound(w)
           \/ PanicsOutsideHandler(w) \/ ResultPanics(w)
  <2>1. Broken(j) \in Jobs /\ Same(j, Broken(j))
    BY <1>1, BrokenType, OperatorsKeep
  <2> QED
    BY <1>1, <1>2, <1>3, <1>4, <1>5, <2>1
    DEF Undecodable, PayloadFails, NoRouteFound, PanicsOutsideHandler, ResultPanics
<1>6. CASE RouteMatches(w) \/ PayloadDecodes(w)
  <2>1. Same(j, [j EXCEPT !.pc = "decoding"]) /\ Same(j, [j EXCEPT !.pc = "invoking"])
    BY <1>1 DEF Same, Jobs
  <2> QED  BY <1>2, <1>6, <2>1 DEF RouteMatches, PayloadDecodes
<1>7. ASSUME NEW hasData \in BOOLEAN, HandlerReturns(w, hasData)
      PROVE  UNCHANGED Promise!vars
  <2> DEFINE k == [j EXCEPT !.handled = TRUE, !.data = hasData]
  <2>1. k \in Jobs /\ Same(j, k) /\ Same(j, [k EXCEPT !.pc = "publishing"])
    BY <1>1 DEF Same, Jobs
  <2> HIDE DEF k
  <2>2. Same(j, Settling(k, "acked", NoReason))
    BY <1>3, <2>1
  <2> QED  BY <1>2, <1>7, <2>1, <2>2 DEF HandlerReturns, k
<1>8. ASSUME NEW failure \in Failures, HandlerFails(w, failure)
      PROVE  UNCHANGED Promise!vars
  BY <1>1, <1>2, <1>3, <1>4, <1>8 DEF HandlerFails
<1>9. CASE ResultPublished(w)
  <2>1. [j EXCEPT !.sent = TRUE] \in Jobs /\ Same(j, [j EXCEPT !.sent = TRUE])
    BY <1>1 DEF Same, Jobs
  <2>2. Same(j, Settling([j EXCEPT !.sent = TRUE], "acked", NoReason))
    BY <1>3, <2>1
  <2> QED  BY <1>2, <1>9, <2>2 DEF ResultPublished
<1>10. ASSUME NEW failure \in {"nonretryable", "retryable"}, ResultFails(w, failure)
       PROVE  UNCHANGED Promise!vars
  <2>1. PICK k \in Unpublished(j, ResultContext(j)) : Update(w, Fail(k, ClassifyPublish(k, failure)))
    BY <1>10 DEF ResultFails
  <2>2. k \in Jobs /\ Same(j, k)
    BY <1>1, <1>4, <2>1, BrokenType, OperatorsKeep DEF Unpublished
  <2>3. Same(j, Fail(k, ClassifyPublish(k, failure)))
    BY <1>3, <2>2
  <2> QED  BY <1>2, <2>1, <2>3
<1>11. CASE CopyPublished(w) \/ CopyFails(w) \/ CopyRefused(w) \/ CopyPanics(w)
  <2> DEFINE c(o) == [j EXCEPT !.copy = o]
  <2>1. \A o \in {"out", "failed", "refused", "panicked"} : c(o) \in Jobs /\ Same(j, c(o))
    BY <1>1 DEF Same, Jobs
  <2> HIDE DEF c
  <2>2. ASSUME NEW o \in {"out", "failed", "refused", "panicked"},
               NEW k \in {c(o), Broken(c(o))}
        PROVE  /\ \A d, r : Same(j, Settling(k, d, r))
               /\ Same(j, Panicked(k))
    <3> DEFINE f == c(o)
    <3>1. f \in Jobs /\ Same(j, f)
      BY <2>1
    <3>2. k = f \/ k = Broken(f)
      OBVIOUS
    <3> HIDE DEF f
    <3>3. Broken(f) \in Jobs /\ Same(j, Broken(f))
      BY <3>1, BrokenType, BrokenFields DEF Same
    <3>4. k \in Jobs /\ Same(j, k)
      BY <3>1, <3>2, <3>3
    <3> QED  BY <1>3, <3>4
  <2>3. CASE CopyPublished(w)
    BY <1>2, <2>2, <2>3 DEF CopyPublished, c
  <2>4. CASE CopyFails(w)
    <3>1. PICK k \in {c("failed"), Broken(c("failed"))} :
            Update(w, Settling(k, "nacked", NoReason)) \/ Update(w, Settling(k, "discarded", k.reason))
      BY <2>4 DEF CopyFails, Unpublished, c
    <3> QED  BY <1>2, <2>2, <3>1
  <2>5. CASE CopyRefused(w)
    <3>1. PICK k \in {c("refused"), Broken(c("refused"))} : Update(w, Settling(k, "discarded", k.reason))
      BY <2>5 DEF CopyRefused, Unpublished, c
    <3> QED  BY <1>2, <2>2, <3>1
  <2>6. CASE CopyPanics(w)
    BY <1>2, <2>2, <2>6 DEF CopyPanics, c
  <2> QED  BY <1>11, <2>3, <2>4, <2>5, <2>6
<1> QED
  BY <1>5, <1>6, <1>7, <1>8, <1>9, <1>10, <1>11, HandleStep(w), Zenon DEF HandleStep

(* Message.decide is Settlement's Decide.                                   *)
LEMMA SettleDecides ==
  ASSUME TypeOK, IInv, NEW w \in Workers, Settle(w) \/ SettleFails(w) \/ SettlePanics(w)
  PROVE  Promise!Next
<1> DEFINE j == job[w]
           d == Decide(j)
           o == j.plan
<1>1. /\ j \in Jobs /\ JobInv(j) /\ j.pc = "settling" /\ UNCHANGED cfg
      /\ BrokerApplies(j) \/ UNCHANGED <<held, visible>>
  BY DEF TypeOK, IInv, Settle, SettleFails, SettlePanics
<1>2. /\ o \in {"acked", "nacked", "discarded"} /\ j.outcome = "pending"
      /\ o = "nacked" => CanNack
  BY <1>1 DEF JobInv, Untold, RightDecision, CanNack, Jobs, Outcomes
<1>3. d \in Jobs /\ d.msg = j.msg /\ d.outcome = o /\ d.pc = "settling"
  BY <1>1, <1>2, DecideType DEF Decide, Jobs
<1>4. PICK k : Update(w, k) /\ k.msg = j.msg /\ k.outcome = o /\ k.pc # "idle"
  <2> HIDE DEF d
  <2>1. \A c : LET k == [d EXCEPT !.pc = "observing", !.ctx = "cancelled", !.callback = c]
               IN  k.msg = d.msg /\ k.outcome = d.outcome /\ k.pc = "observing"
    BY <1>3 DEF Jobs
  <2>2. LET k == [d EXCEPT !.callback = "panicked"]
        IN  k \in Jobs /\ k.msg = d.msg /\ k.outcome = d.outcome /\ k.pc = d.pc
    BY <1>3 DEF Jobs
  <2>3. CASE Settle(w)
    BY <1>3, <2>1, <2>3 DEF Settle, d
  <2>4. CASE SettleFails(w)
    BY <1>3, <2>1, <2>4 DEF SettleFails, d
  <2>5. CASE SettlePanics(w)
    <3> DEFINE k == [d EXCEPT !.callback = "panicked"]
    <3>1. k \in Jobs /\ k.msg = d.msg /\ k.outcome = d.outcome /\ k.pc = d.pc
      BY <2>2
    <3>2. Update(w, Panicked(k))
      BY <2>5 DEF SettlePanics, d
    <3> HIDE DEF k
    <3>3. Same(k, Panicked(k))
      BY <1>3, <3>1, OperatorsKeep
    <3> QED  BY <1>3, <3>1, <3>2, <3>3 DEF Same
  <2> QED  BY <2>3, <2>4, <2>5
<1>5. \A v \in Workers : job'[v] = IF v = w THEN k ELSE job[v]
  BY <1>4 DEF TypeOK, Update
<1>6. \/ held' = held
      \/ held' = held \ {j.msg} /\ o # "nacked"
  BY <1>1, <1>2 DEF BrokerApplies
<1>7. Item' = Item /\ Phase' = [Phase EXCEPT ![w] = o]
  <2>1. Item' = Item
    BY <1>4, <1>5 DEF Item
  <2>2. Phase' = [Phase EXCEPT ![w] = o]
    BY <1>1, <1>2, <1>4, <1>5 DEF Phase
  <2> QED  BY <2>1, <2>2
<1>8. Phase[w] = "open" /\ Item[w] = j.msg
  BY <1>1, <1>2 DEF Item, Phase
<1>9. (~CanNack)' = ~CanNack
  BY <1>1 DEF CanNack
<1> HIDE DEF j, d, o
<1>10. \/ held' = held /\ (o = "nacked" => ~~CanNack)
       \/ held' = held \ {Item[w]} /\ o # "nacked"
  BY <1>2, <1>6, <1>8
<1>11. Promise!Decide(w, o)
  BY <1>7, <1>8, <1>9, <1>10 DEF Promise!Decide
<1> QED  BY <1>2, <1>11 DEF Promise!Next, Promise!Decisions

LEMMA SettleStepImplements ==
  ASSUME TypeOK, IInv, NEW w \in Workers, SettleStep(w)
  PROVE  [Promise!Next]_(Promise!vars)
<1> DEFINE j == job[w]
<1>1. j \in Jobs
  BY DEF TypeOK
<1>2. ASSUME NEW k, Update(w, k), UnchangedBroker, j.pc # "idle", Same(j, k)
      PROVE  UNCHANGED Promise!vars
  BY <1>2, SameStutters DEF UnchangedBroker
<1>3. CASE Settle(w) \/ SettleFails(w) \/ SettlePanics(w)
  BY <1>3, SettleDecides
<1>4. CASE Observe(w)
  <2> DEFINE n == j.reports + 1
             p == AfterReport(j)
             k == [j EXCEPT !.reports = n, !.reported = j.plan, !.pc = p]
  <2>1. j.pc = "observing" /\ Update(w, k) /\ UnchangedBroker
    BY <1>4 DEF Observe, At
  <2>2. p # "idle"
    BY DEF AfterReport
  <2> HIDE DEF n, p
  <2>3. Same(j, k)
    BY <1>1, <2>2 DEF Same, Jobs
  <2> QED  BY <1>2, <2>1, <2>3
<1>5. CASE LateResultPublished(w) \/ LateResultFails(w)
  <2>1. PICK k \in {j, Broken(j)} :
          \/ Update(w, [k EXCEPT !.pc = "returned", !.sent = TRUE])
          \/ Update(w, [k EXCEPT !.pc = "returned"])
    BY <1>5 DEF LateResultPublished, LateResultFails, Unpublished
  <2>2. j.pc = "afterAck" /\ UnchangedBroker
    BY <1>5 DEF LateResultPublished, LateResultFails, At
  <2>3. k \in Jobs /\ k.msg = j.msg /\ k.outcome = j.outcome
    BY <1>1, <2>1, BrokenType, BrokenFields
  <2>4. Same(j, [k EXCEPT !.pc = "returned", !.sent = TRUE]) /\ Same(j, [k EXCEPT !.pc = "returned"])
    BY <2>3 DEF Same, Jobs
  <2> QED  BY <1>2, <2>1, <2>2, <2>4
<1>6. CASE LateResultPanics(w)
  <2>1. j.pc = "afterAck" /\ UnchangedBroker /\ Update(w, Panicked(Broken(j)))
    BY <1>6 DEF LateResultPanics, At
  <2>2. Broken(j) \in Jobs /\ Broken(j).pc = "afterAck" /\ Same(j, Broken(j))
    BY <1>1, <2>1, BrokenType, BrokenFields DEF Same
  <2>3. Same(j, Panicked(Broken(j)))
    BY <2>2, OperatorsKeep DEF Same
  <2> QED  BY <1>2, <2>1, <2>3
<1>7. CASE RecoverDecided(w)
  <2>1. Same(j, [j EXCEPT !.pc = "returned"])
    BY <1>1 DEF Same, Jobs
  <2> QED  BY <1>2, <1>7, <2>1 DEF RecoverDecided, At
<1>8. CASE RecoverUndecided(w)
  <2> DEFINE k == [j EXCEPT !.rescued = TRUE]
  <2>1. j.pc = "recovering" /\ Update(w, Fail(k, "panic")) /\ UnchangedBroker
    BY <1>8 DEF RecoverUndecided, At
  <2>2. k \in Jobs /\ k.pc = j.pc /\ k.msg = j.msg /\ k.outcome = j.outcome
    BY <1>1 DEF Jobs
  <2> HIDE DEF k
  <2>3. Same(k, Fail(k, "panic"))
    BY <2>1, <2>2, OperatorsKeep
  <2> QED  BY <1>2, <2>1, <2>2, <2>3 DEF Same
<1>9. CASE TransportReturns(w)
  <2>1. j.pc = "returned" /\ Update(w, Idle) /\ UNCHANGED <<cfg, held>>
    BY <1>9 DEF TransportReturns, At, UnchangedBroker
  <2>2. \A v \in Workers : job'[v] = IF v = w THEN Idle ELSE job[v]
    BY <2>1 DEF TypeOK, Update
  <2> DEFINE idle == Idle
  <2>0. idle.msg = NoMsg /\ idle.pc = "idle"
    BY DEF Idle
  <2>a. \A v \in Workers : job'[v] = IF v = w THEN idle ELSE job[v]
    BY <2>2
  <2> HIDE DEF idle
  <2>3. Item' = [Item EXCEPT ![w] = NoMsg]
    BY <2>0, <2>a DEF Item
  <2>4. Phase' = [Phase EXCEPT ![w] = "free"]
    BY <2>0, <2>a DEF Phase
  <2>5. Phase[w] # "free"
    <3>1. j.outcome # "free"
      BY <1>1 DEF Jobs, Outcomes
    <3> QED  BY <2>1, <3>1 DEF Phase
  <2>6. (~CanNack)' = ~CanNack
    BY <2>1 DEF CanNack
  <2>7. Promise!LetGo(w)
    BY <2>1, <2>3, <2>4, <2>5, <2>6 DEF Promise!LetGo
  <2> QED  BY <2>7 DEF Promise!Next
<1> QED
  BY <1>3, <1>4, <1>5, <1>6, <1>7, <1>8, <1>9 DEF SettleStep

LEMMA DeliverTakes ==
  ASSUME TypeOK, NEW w \in Workers, NEW m \in Msgs, Deliver(w, m)
  PROVE  Promise!Next
<1> DEFINE c == IF cfg.transport = "counted" THEN deliveries[m] + 1 ELSE 0
           k == [Idle EXCEPT !.pc = "handling", !.msg = m, !.count = c]
<1>1. /\ job[w].pc = "idle" /\ m \in held /\ UNCHANGED cfg /\ Update(w, k)
      /\ held' = IF CanNack THEN held ELSE held \ {m}
  BY DEF Deliver, TypeOK
<1> HIDE DEF c
<1>2. k.pc = "handling" /\ k.msg = m /\ k.outcome = "pending"
  BY DEF Idle
<1> HIDE DEF k
<1>3. \A v \in Workers : job'[v] = IF v = w THEN k ELSE job[v]
  BY <1>1 DEF TypeOK, Update
<1>4. Item' = [Item EXCEPT ![w] = m]
  BY <1>2, <1>3 DEF Item
<1>5. Phase[w] = "free" /\ Phase' = [Phase EXCEPT ![w] = "open"]
  BY <1>1, <1>2, <1>3 DEF Phase
<1>6. Promise!Take(w, m)
  BY <1>1, <1>4, <1>5 DEF Promise!Take, CanNack
<1> QED  BY <1>6 DEF Promise!Next

(* Whatever fails, panics, crashes or overlaps, the mux keeps to Settlement: *)
(* it gives up a message only by the one decision of a delivery, and never  *)
(* asks a broker that keeps nothing to redeliver.                           *)
THEOREM MuxKeepsPromise == Spec => KeepsPromise
<1>1. Init => Promise!Init
  BY DEF Init, Promise!Init, Idle, CanNack, Item, Phase
<1>2. TypeOK /\ IInv /\ [Next]_vars => [Promise!Next]_(Promise!vars)
  <2> SUFFICES ASSUME TypeOK, IInv, [Next]_vars
               PROVE  [Promise!Next]_(Promise!vars)
    OBVIOUS
  <2>1. ASSUME NEW w \in Workers, Work(w)
        PROVE  [Promise!Next]_(Promise!vars)
    BY <2>1, HandleStepStutters, SettleStepImplements DEF Work
  <2>2. ASSUME NEW w \in Workers, CancelContext(w)
        PROVE  [Promise!Next]_(Promise!vars)
    <3>1. Same(job[w], [job[w] EXCEPT !.ctx = "cancelled"])
      BY <2>2 DEF Same, CancelContext, TypeOK, Jobs
    <3> QED  BY <2>2, <3>1, SameStutters DEF CancelContext, UnchangedBroker
  <2>3. ASSUME NEW w \in Workers, NEW m \in Msgs, Deliver(w, m)
        PROVE  [Promise!Next]_(Promise!vars)
    BY <2>3, DeliverTakes
  <2>4. ASSUME NEW m \in Msgs, Redeliver(m) \/ RedeliverEarly(m)
        PROVE  [Promise!Next]_(Promise!vars)
    BY <2>4 DEF Redeliver, RedeliverEarly, Promise!vars, CanNack, Item, Phase
  <2>5. CASE Crash
    <3>1. Promise!Restart
      BY <2>5 DEF Crash, UnchangedBroker, Promise!Restart, Idle, CanNack, Item, Phase
    <3> QED  BY <3>1 DEF Promise!Next
  <2>6. CASE UNCHANGED vars
    BY <2>6 DEF vars, Promise!vars, CanNack, Item, Phase
  <2> QED  BY <2>1, <2>2, <2>3, <2>4, <2>5, <2>6 DEF Next
<1> QED
  BY <1>1, <1>2, TypeCorrect, JobsInvariant, PTL DEF Spec, KeepsPromise, Promise!Spec

=============================================================================
