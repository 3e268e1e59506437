------------------------ MODULE HttpTransportProofs -------------------------
(***************************************************************************)
(* What the answer of a Publish says of the event (HttpTransport), for any  *)
(* number of retries, whatever integers a caller's ErrorRules answer and    *)
(* statuses its RetryOn repeats, and any number of messages lost.           *)
(***************************************************************************)
EXTENDS HttpTransport, TLAPS

(* The client keeps to its retries, and only sent requests are anything.    *)
Counted ==
  /\ pc = "waiting" => attempt >= 1
  /\ pc = "preparing" => attempt <= Limit
  /\ attempt <= Limit + 1
  /\ \A a \in Attempts : a > attempt => request[a] = NoRequest

(* The subscriber turned down the event of request q.                       *)
Refused(q) == cfg.verdict # NoStatus \/ q.outcome \in {"nacked", "discarded"}

(* A caller's rule answered for the event of request q.                     *)
Tolerated(q) ==
  /\ q.outcome \in {"nacked", "discarded"} /\ q.cause = "ruled"
  /\ q.status \in {Written(s) : s \in RuleStatuses}

(* What the status that answers q says of what became of it.                *)
Meant(q) ==
  /\ q.outcome = "acked" => q.status = 202
  /\ q.status \in Writable
  /\ q.status < 400 => q.outcome = "acked" \/ Tolerated(q)
  /\ permanentStatus(q.status) => Refused(q)

Sound(q) ==
  /\ q.pc \in {"none", "sent", "routing"} => q.outcome = "pending"
  /\ q.pc \in {"answered", "over"} => Meant(q)

Served == \A a \in Attempts : Sound(request[a])

(* Every attempt but the one that is waited for was heard, the answer as it *)
(* was given; each that was followed by another asked for it.               *)
Heard ==
  \A a \in Attempts :
    /\ a < attempt \/ (a = attempt /\ pc # "waiting") =>
         heard[a] = Error \/ (request[a].pc = "over" /\ heard[a] = request[a].status)
    /\ a < attempt \/ (a = attempt /\ pc = "preparing") => Repeats(heard[a])

(* What Publish returned is what it heard last.                             *)
Answered ==
  /\ answer # "none" => pc = "returned"
  /\ answer = "nil" => attempt >= 1 /\ heard[attempt] # Error /\ heard[attempt] < 400
  /\ answer = "nonretryable" => attempt >= 1 /\ permanentStatus(heard[attempt])

Inv == TypeOK /\ Counted /\ Served /\ Heard /\ Answered

-----------------------------------------------------------------------------
(* There is a request for every attempt Limit allows.                       *)
LEMMA LimitBounded ==
  ASSUME cfg \in Configs
  PROVE  Limit \in Nat /\ Limit < MostAttempts /\ MostAttempts \in Nat
BY HttpAssumption DEF Configs, Limit, RetryCount, MostAttempts

LEMMA Initially ==
  ASSUME Init
  PROVE  Inv
<1>1. TypeOK
  BY HttpAssumption, LimitBounded
  DEF Init, TypeOK, Request, NoRequest, Outcomes, Causes, NoStatus, Error
<1>2. Counted
  BY LimitBounded DEF Init, Counted
<1>3. Served
  BY DEF Init, Served, Sound, NoRequest
<1>4. Heard
  BY DEF Init, Heard, Attempts
<1>5. Answered
  BY DEF Init, Answered
<1> QED BY <1>1, <1>2, <1>3, <1>4, <1>5 DEF Inv

(* A step of the subscriber or of the network on request a, which is        *)
(* neither unsent nor over: only what it leaves of a has to be sound.       *)
LEMMA OneRequest ==
  ASSUME Inv, NEW a \in Attempts,
         UNCHANGED <<cfg, pc, attempt, heard, answer>>,
         serving' \in BOOLEAN, faults' \in 0 .. MaxFaults,
         request[a].pc \notin {"none", "over"},
         request' \in [Attempts -> Request],
         \A b \in Attempts \ {a} : request'[b] = request[b],
         Sound(request'[a])
  PROVE  Inv'
<1>1. TypeOK'
  BY DEF Inv, TypeOK
<1>2. a <= attempt
  BY DEF Inv, Counted, NoRequest, TypeOK, Attempts
<1>3. Counted'
  BY <1>2 DEF Inv, Counted, Limit, RetryCount, TypeOK, Attempts
<1>4. Served'
  BY DEF Inv, Served, Sound, Meant, Refused, Tolerated
<1>5. Heard'
  BY DEF Inv, Heard, Repeats
<1>6. Answered'
  BY DEF Inv, Answered
<1> QED BY <1>1, <1>3, <1>4, <1>5, <1>6 DEF Inv

-----------------------------------------------------------------------------
(* Publisher.Publish                                                        *)

LEMMA PreparationFailsKeeps ==
  ASSUME Inv, PreparationFails
  PROVE  Inv'
<1> USE DEF PreparationFails, Return
<1>1. TypeOK'
  BY DEF Inv, TypeOK
<1>2. Counted'
  BY DEF Inv, Counted, Limit, RetryCount
<1>3. Served'
  BY DEF Inv, Served, Sound, Meant, Refused, Tolerated
<1>4. Heard'
  BY DEF Inv, Heard, Repeats
<1>5. Answered'
  BY DEF Answered
<1> QED BY <1>1, <1>2, <1>3, <1>4, <1>5 DEF Inv

LEMMA SendKeeps ==
  ASSUME Inv, Send
  PROVE  Inv'
<1>1. attempt + 1 \in Attempts /\ attempt \in Nat /\ attempt <= Limit
  BY LimitBounded DEF Inv, TypeOK, Counted, Attempts, Send
<1>2. PICK a : a = attempt + 1
  OBVIOUS
<1>3. /\ request' \in [Attempts -> Request]
      /\ \A b \in Attempts \ {a} : request'[b] = request[b]
      /\ request'[a] = [NoRequest EXCEPT !.pc = "sent"]
  <2>1. request[a] = NoRequest
    BY <1>1, <1>2 DEF Inv, Counted
  <2>2. request' = [request EXCEPT ![a] = [NoRequest EXCEPT !.pc = "sent"]]
    BY <1>2, <2>1 DEF Send
  <2>3. [NoRequest EXCEPT !.pc = "sent"] \in Request
    BY DEF NoRequest, Request, Outcomes, Causes
  <2> QED BY <1>1, <1>2, <2>2, <2>3 DEF Inv, TypeOK
<1>4. /\ pc' = "waiting" /\ attempt' = a
      /\ UNCHANGED <<cfg, serving, heard, answer, faults>>
  BY <1>2 DEF Send
<1>5. TypeOK'
  BY <1>1, <1>2, <1>3, <1>4 DEF Inv, TypeOK, Attempts
<1>6. Counted'
  <2>1. Limit' = Limit /\ Limit \in Nat
    BY <1>4, LimitBounded DEF Limit, RetryCount, Inv, TypeOK
  <2>2. \A b \in Attempts : b > a => request'[b] = NoRequest
    BY <1>1, <1>2, <1>3 DEF Inv, Counted, Attempts
  <2> QED BY <2>1, <2>2, <1>1, <1>2, <1>4 DEF Counted
<1>7. Served'
  <2>1. Sound(request'[a])
    BY <1>3 DEF Sound, NoRequest
  <2>2. ASSUME NEW b \in Attempts \ {a} PROVE Sound(request'[b])
    BY <1>3, <1>4 DEF Inv, Served, Sound, Meant, Refused, Tolerated
  <2> QED BY <2>1, <2>2, <1>4 DEF Served, Sound, Meant, Refused, Tolerated
<1>8. Heard'
  <2> SUFFICES ASSUME NEW b \in Attempts, b < a
               PROVE  /\ heard[b] = Error \/ (request[b].pc = "over" /\ heard[b] = request[b].status)
                      /\ Repeats(heard[b]) /\ request'[b] = request[b]
    BY <1>1, <1>2, <1>4 DEF Heard, Attempts, Repeats
  <2>1. b < attempt \/ b = attempt
    BY <1>1, <1>2 DEF Attempts
  <2> QED BY <2>1, <1>3, <1>2, <1>1 DEF Inv, Heard, Send
<1>9. Answered'
  BY <1>4 DEF Inv, Answered, Send
<1> QED BY <1>5, <1>6, <1>7, <1>8, <1>9 DEF Inv

(* The attempt that is waited for is heard: the answer to its request,      *)
(* which is then over, or an error.                                         *)
LEMMA HearsKeeps ==
  ASSUME Inv, NEW status, Hears(status), faults' \in 0 .. MaxFaults,
         request' \in [Attempts -> Request],
         \A b \in Attempts \ {attempt} : request'[b] = request[b],
         Sound(request'[attempt]),
         status = Error \/ ( /\ status \in Writable
                            /\ status = request'[attempt].status
                            /\ request'[attempt].pc = "over" )
  PROVE  Inv'
<1>1. attempt \in Attempts /\ pc = "waiting" /\ answer = "none"
  BY DEF Hears, Inv, TypeOK, Counted, Answered, Attempts
<1>2. /\ UNCHANGED <<cfg, serving, attempt>>
      /\ heard' \in [Attempts -> {Error, NoStatus} \cup Writable]
      /\ heard'[attempt] = status
      /\ \A b \in Attempts \ {attempt} : heard'[b] = heard[b]
  BY <1>1 DEF Hears, Inv, TypeOK
<1>3. \/ /\ pc' = "preparing" /\ answer' = "none"
         /\ Repeats(status) /\ attempt <= Limit
      \/ /\ pc' = "returned"
         /\ answer' \in {"nil", "retryable", "nonretryable"}
         /\ answer' = "nil" => status # Error /\ status < 400
         /\ answer' = "nonretryable" => permanentStatus(status)
  <2>1. CASE Repeats(status) /\ attempt <= Limit
    BY <2>1, <1>1 DEF Hears
  <2>2. CASE ~(Repeats(status) /\ attempt <= Limit)
    <3>1. pc' = "returned" /\ answer' = (CASE status = Error -> "retryable"
                     [] permanentStatus(status) -> "nonretryable"
                     [] status >= 400 /\ ~permanentStatus(status) -> "retryable"
                     [] OTHER -> "nil")
      BY <2>2 DEF Hears, Return
    <3>2. status \in Int
      BY DEF Error, Writable
    <3> QED BY <3>1, <3>2 DEF permanentStatus, Error
  <2> QED BY <2>1, <2>2
<1>4. TypeOK'
  BY <1>2, <1>3 DEF Inv, TypeOK
<1>5. Counted'
  BY <1>1, <1>2, <1>3 DEF Inv, Counted, Limit, RetryCount, Attempts, TypeOK
<1>6. Served'
  BY <1>2 DEF Inv, Served, Sound, Meant, Refused, Tolerated
<1>7. Heard'
  <2> SUFFICES ASSUME NEW b \in Attempts
               PROVE  /\ b < attempt \/ (b = attempt /\ pc' # "waiting") =>
                           \/ heard'[b] = Error
                           \/ request'[b].pc = "over" /\ heard'[b] = request'[b].status
                      /\ b < attempt \/ (b = attempt /\ pc' = "preparing") =>
                           Repeats(heard'[b])
    BY <1>2 DEF Heard, Repeats
  <2>1. CASE b = attempt
    <3>1. ~(b < attempt) /\ heard'[b] = status
      BY <2>1, <1>1, <1>2 DEF Attempts
    <3> QED BY <2>1, <3>1, <1>3
  <2>2. CASE b # attempt
    <3>1. heard'[b] = heard[b] /\ request'[b] = request[b]
      BY <2>2, <1>2
    <3> QED BY <2>2, <3>1 DEF Inv, Heard
  <2> QED BY <2>1, <2>2
<1>8. Answered'
  BY <1>1, <1>2, <1>3 DEF Answered, permanentStatus, Attempts
<1> QED BY <1>4, <1>5, <1>6, <1>7, <1>8 DEF Inv

LEMMA HearsResponseKeeps ==
  ASSUME Inv, HearsResponse
  PROVE  Inv'
<1>1. attempt \in Attempts
  BY DEF HearsResponse, Inv, TypeOK, Counted, Attempts
<1>2. request' = [request EXCEPT ![attempt] = [request[attempt] EXCEPT !.pc = "over"]]
  BY DEF HearsResponse
<1>3. /\ request[attempt] \in Request /\ request[attempt].pc = "answered"
      /\ Sound(request[attempt])
  BY <1>1 DEF HearsResponse, Inv, TypeOK, Served
<1>4. PICK q : q = [request[attempt] EXCEPT !.pc = "over"]
  OBVIOUS
<1>5. /\ q \in Request /\ q.pc = "over" /\ q.status = request[attempt].status
      /\ q.outcome = request[attempt].outcome /\ q.cause = request[attempt].cause
  BY <1>3, <1>4 DEF Request
<1>6. Sound(q) /\ q.status \in Writable
  BY <1>3, <1>5 DEF Sound, Meant, Refused, Tolerated
<1>7. /\ request' \in [Attempts -> Request] /\ request'[attempt] = q
      /\ \A b \in Attempts \ {attempt} : request'[b] = request[b]
  BY <1>1, <1>2, <1>4, <1>5 DEF Inv, TypeOK
<1>8. Hears(q.status) /\ faults' \in 0 .. MaxFaults
  BY <1>5 DEF HearsResponse, Inv, TypeOK
<1> QED BY <1>5, <1>6, <1>7, <1>8, HearsKeeps

LEMMA AttemptTimesOutKeeps ==
  ASSUME Inv, AttemptTimesOut
  PROVE  Inv'
<1>1. attempt \in Attempts
  BY DEF AttemptTimesOut, Inv, TypeOK, Counted, Attempts
<1>2. request' \in [Attempts -> Request] /\ request' = request /\ Sound(request'[attempt])
  BY <1>1 DEF AttemptTimesOut, Inv, TypeOK, Served
<1>3. Hears(Error) /\ faults' \in 0 .. MaxFaults
  BY HttpAssumption DEF AttemptTimesOut, Fault, Inv, TypeOK
<1> QED BY <1>2, <1>3, HearsKeeps

-----------------------------------------------------------------------------
(* Subscriber.Handler and the network                                       *)

LEMMA ResponseIs ==
  ASSUME NEW a \in Attempts, NEW status, request \in [Attempts -> Request], Responds(a, status)
  PROVE  request' = [request EXCEPT ![a] =
                       [[request[a] EXCEPT !.pc = "answered"] EXCEPT !.status = status]]
BY DEF Responds

(* Request a is answered with a status that means what it should.           *)
LEMMA RespondsKeeps ==
  ASSUME Inv, NEW a \in Attempts, NEW status \in Writable, Responds(a, status),
         UNCHANGED <<cfg, serving, Publisher, faults>>,
         request[a].pc \in {"sent", "decided"},
         request[a].outcome = "acked" => status = 202,
         status < 400 => request[a].outcome = "acked" \/ Tolerated([request[a] EXCEPT !.status = status]),
         permanentStatus(status) => Refused(request[a])
  PROVE  Inv'
<1>1. PICK q : q = [[request[a] EXCEPT !.pc = "answered"] EXCEPT !.status = status]
  OBVIOUS
<1>2. request[a] \in Request /\ request \in [Attempts -> Request]
  BY DEF Inv, TypeOK
<1>3. /\ q \in Request /\ q.pc = "answered" /\ q.status = status
      /\ q.outcome = request[a].outcome /\ q.cause = request[a].cause
  <2>1. q = [pc |-> "answered", outcome |-> request[a].outcome, cause |-> request[a].cause,
             status |-> status]
    BY <1>1, <1>2 DEF Request
  <2>2. request[a].outcome \in Outcomes /\ request[a].cause \in Causes
    BY <1>2 DEF Request
  <2> QED BY <2>1, <2>2 DEF Request
<1>4. request' = [request EXCEPT ![a] = q]
  BY <1>1, <1>2, ResponseIs
<1>5. Sound(q)
  <2>1. Tolerated([request[a] EXCEPT !.status = status]) => Tolerated(q)
    BY <1>2, <1>3 DEF Tolerated, Request
  <2> QED BY <1>3, <2>1 DEF Sound, Meant, Refused
<1>6. /\ request' \in [Attempts -> Request] /\ request'[a] = q
      /\ \A b \in Attempts \ {a} : request'[b] = request[b]
  BY <1>2, <1>3, <1>4
<1>7. /\ UNCHANGED <<cfg, pc, attempt, heard, answer>>
      /\ serving' \in BOOLEAN /\ faults' \in 0 .. MaxFaults
  BY DEF Publisher, Inv, TypeOK
<1> QED BY <1>5, <1>6, <1>7, OneRequest

LEMMA UnavailableKeeps ==
  ASSUME Inv, NEW a \in Attempts, Unavailable(a)
  PROVE  Inv'
<1>1. request[a].outcome = "pending" /\ ~permanentStatus(503) /\ 503 \in Writable /\ ~(503 < 400)
  BY DEF Unavailable, Inv, Served, Sound, permanentStatus, Writable
<1> QED BY <1>1, RespondsKeeps DEF Unavailable

LEMMA RejectsKeeps ==
  ASSUME Inv, NEW a \in Attempts, Rejects(a)
  PROVE  Inv'
<1>1. request[a].outcome = "pending" /\ Refused(request[a])
  BY DEF Rejects, Inv, Served, Sound, Refused
<1>2. cfg.verdict \in Writable /\ ~(cfg.verdict < 400)
  BY DEF Rejects, Inv, TypeOK, Configs, Verdicts, NoStatus, Writable
<1> QED BY <1>1, <1>2, RespondsKeeps DEF Rejects

LEMMA AcceptsKeeps ==
  ASSUME Inv, NEW a \in Attempts, Accepts(a)
  PROVE  Inv'
<1>1. request[a] \in Request /\ request \in [Attempts -> Request] /\ Sound(request[a])
  BY DEF Inv, TypeOK, Served
<1>2. PICK q : q = [request[a] EXCEPT !.pc = "routing"]
  OBVIOUS
<1>3. q \in Request /\ q.pc = "routing" /\ q.outcome = request[a].outcome
  BY <1>1, <1>2 DEF Request
<1>4. Sound(q)
  BY <1>1, <1>3 DEF Accepts, Sound
<1>5. /\ request' \in [Attempts -> Request] /\ request'[a] = q
      /\ \A b \in Attempts \ {a} : request'[b] = request[b]
  BY <1>1, <1>2, <1>3 DEF Accepts
<1>6. /\ UNCHANGED <<cfg, pc, attempt, heard, answer>>
      /\ serving' \in BOOLEAN /\ faults' \in 0 .. MaxFaults
      /\ request[a].pc \notin {"none", "over"}
  BY DEF Accepts, Publisher, Inv, TypeOK
<1> QED BY <1>4, <1>5, <1>6, OneRequest

LEMMA RouterDecidesKeeps ==
  ASSUME Inv, NEW a \in Attempts, NEW outcome \in Outcomes, NEW cause \in Causes,
         RouterDecides(a, outcome, cause)
  PROVE  Inv'
<1>1. request[a] \in Request /\ request \in [Attempts -> Request]
  BY DEF Inv, TypeOK
<1>2. PICK q : q = [[[request[a] EXCEPT !.pc = "decided"] EXCEPT !.outcome = outcome]
                      EXCEPT !.cause = cause]
  OBVIOUS
<1>3. q \in Request /\ q.pc = "decided"
  BY <1>1, <1>2 DEF Request
<1>4. Sound(q)
  BY <1>3 DEF Sound
<1>5. request' = [request EXCEPT ![a] = q]
  BY <1>1, <1>2 DEF RouterDecides
<1>6. /\ request' \in [Attempts -> Request] /\ request'[a] = q
      /\ \A b \in Attempts \ {a} : request'[b] = request[b]
  BY <1>1, <1>3, <1>5
<1>7. /\ UNCHANGED <<cfg, pc, attempt, heard, answer>>
      /\ serving' \in BOOLEAN /\ faults' \in 0 .. MaxFaults
      /\ request[a].pc \notin {"none", "over"}
  BY DEF RouterDecides, Publisher, Inv, TypeOK
<1> QED BY <1>4, <1>6, <1>7, OneRequest

(* What the router decided can be read off a status it is answered with,    *)
(* but for an error a caller's rule matches.                                *)
LEMMA StatusTells ==
  ASSUME NEW outcome \in Outcomes, NEW cause \in Causes,
         NEW status \in Statuses(outcome, cause)
  PROVE  /\ outcome = "acked" => status = 202
         /\ status < 400 =>
              \/ outcome = "acked"
              \/ /\ outcome \in {"nacked", "discarded"} /\ cause = "ruled"
                 /\ status \in {Written(s) : s \in RuleStatuses}
         /\ permanentStatus(status) => outcome \in {"nacked", "discarded"}
<1>1. CASE outcome = "acked"
  BY <1>1 DEF Statuses, permanentStatus
<1>2. CASE outcome = "pending"
  BY <1>2 DEF Statuses, permanentStatus
<1>3. CASE outcome \in {"nacked", "discarded"} /\ cause = "ruled"
  <2>1. status \in {Written(s) : s \in RuleStatuses} \/ status = 500
    BY <1>3 DEF Statuses
  <2> QED BY <1>3, <2>1
<1>4. CASE outcome \in {"nacked", "discarded"} /\ cause # "ruled"
  <2>1. status = 400 \/ status = 500
    BY <1>4 DEF Statuses, Causes
  <2> QED BY <1>4, <2>1
<1> QED BY <1>1, <1>2, <1>3, <1>4 DEF Outcomes

LEMMA AnswersKeeps ==
  ASSUME Inv, NEW a \in Attempts, Answers(a)
  PROVE  Inv'
<1> DEFINE q == request[a]
<1>1. /\ q \in Request /\ q.outcome \in Outcomes /\ q.cause \in Causes
      /\ request \in [Attempts -> Request]
  BY DEF Inv, TypeOK, Request
<1>2. /\ UNCHANGED <<cfg, serving, Publisher, faults>> /\ q.pc = "decided"
  BY DEF Answers
<1>3. PICK status \in Statuses(q.outcome, q.cause) :
        IF status \in Writable
          THEN Responds(a, status)
          ELSE request' = [request EXCEPT ![a].pc = "lost"]
  BY DEF Answers
<1>4. CASE status \in Writable
  <2>1. /\ q.outcome = "acked" => status = 202
        /\ status < 400 => q.outcome = "acked" \/ Tolerated([q EXCEPT !.status = status])
        /\ permanentStatus(status) => Refused(q)
    BY <1>1, <1>3, StatusTells DEF Refused, Tolerated, Request
  <2> QED BY <1>2, <1>3, <1>4, <2>1, RespondsKeeps
<1>5. CASE status \notin Writable
  <2>1. request' = [request EXCEPT ![a].pc = "lost"]
    BY <1>3, <1>5
  <2>2. PICK r : r = [q EXCEPT !.pc = "lost"]
    OBVIOUS
  <2>3. r \in Request /\ Sound(r)
    BY <1>1, <2>2 DEF Request, Sound
  <2>4. /\ request' \in [Attempts -> Request] /\ request'[a] = r
        /\ \A b \in Attempts \ {a} : request'[b] = request[b]
    BY <1>1, <2>1, <2>2, <2>3
  <2>5. /\ UNCHANGED <<cfg, pc, attempt, heard, answer>>
        /\ serving' \in BOOLEAN /\ faults' \in 0 .. MaxFaults
    BY <1>2 DEF Publisher, Inv, TypeOK
  <2> QED BY <1>2, <2>3, <2>4, <2>5, OneRequest
<1> QED BY <1>4, <1>5

LEMMA LosesKeeps ==
  ASSUME Inv, NEW a \in Attempts, Loses(a)
  PROVE  Inv'
<1>1. request[a] \in Request /\ request \in [Attempts -> Request]
  BY DEF Inv, TypeOK
<1>2. PICK q : q = [request[a] EXCEPT !.pc = "lost"]
  OBVIOUS
<1>3. q \in Request /\ Sound(q)
  BY <1>1, <1>2 DEF Request, Sound
<1>4. /\ request' \in [Attempts -> Request] /\ request'[a] = q
      /\ \A b \in Attempts \ {a} : request'[b] = request[b]
  BY <1>1, <1>2, <1>3 DEF Loses
<1>5. /\ UNCHANGED <<cfg, pc, attempt, heard, answer>>
      /\ serving' \in BOOLEAN /\ faults' \in 0 .. MaxFaults
      /\ request[a].pc \notin {"none", "over"}
  BY HttpAssumption DEF Loses, Fault, Publisher, Inv, TypeOK
<1> QED BY <1>3, <1>4, <1>5, OneRequest

(* A step that leaves the publisher and the requests alone.                 *)
LEMMA OthersKeep ==
  ASSUME Inv, UNCHANGED <<cfg, Publisher, request>>,
         serving' \in BOOLEAN, faults' \in 0 .. MaxFaults
  PROVE  Inv'
<1>1. UNCHANGED <<cfg, pc, attempt, heard, answer, request>>
  BY DEF Publisher
<1>2. TypeOK'
  BY <1>1 DEF Inv, TypeOK
<1>3. Counted'
  BY <1>1 DEF Inv, Counted, Limit, RetryCount
<1>4. Served'
  BY <1>1 DEF Inv, Served, Sound, Meant, Refused, Tolerated
<1>5. Heard'
  BY <1>1 DEF Inv, Heard, Repeats
<1>6. Answered'
  BY <1>1 DEF Inv, Answered
<1> QED BY <1>2, <1>3, <1>4, <1>5, <1>6 DEF Inv

-----------------------------------------------------------------------------
LEMMA Invariance == Spec => []Inv
<1>1. Init => Inv
  BY Initially
<1>2. Inv /\ [Next]_vars => Inv'
  <2> SUFFICES ASSUME Inv, [Next]_vars PROVE Inv'
    OBVIOUS
  <2>1. CASE PublishStep
    BY <2>1, PreparationFailsKeeps, SendKeeps, HearsResponseKeeps, AttemptTimesOutKeeps
    DEF PublishStep
  <2>2. ASSUME NEW a \in Attempts, SubscriberStep(a) PROVE Inv'
    BY <2>2, UnavailableKeeps, RejectsKeeps, AcceptsKeeps, RouterDecidesKeeps, AnswersKeeps
    DEF SubscriberStep
  <2>3. ASSUME NEW a \in Attempts, Loses(a) PROVE Inv'
    BY <2>3, LosesKeeps
  <2>4. CASE Serve
    <3>1. serving' \in BOOLEAN /\ faults' \in 0 .. MaxFaults
      BY <2>4, HttpAssumption DEF Serve, Fault, Inv, TypeOK
    <3> QED BY <2>4, <3>1, OthersKeep DEF Serve
  <2>5. CASE UNCHANGED vars
    <3>1. /\ UNCHANGED <<cfg, Publisher, request>>
          /\ serving' \in BOOLEAN /\ faults' \in 0 .. MaxFaults
      BY <2>5 DEF vars, Publisher, Inv, TypeOK
    <3> QED BY <3>1, OthersKeep
  <2> QED BY <2>1, <2>2, <2>3, <2>4, <2>5 DEF Next
<1> QED BY <1>1, <1>2, PTL DEF Spec

(* Every variable keeps its type, so that no request is sent for which      *)
(* newClient allowed no retry (Publish, Handler).                           *)
THEOREM TypeCorrect == Spec => []TypeOK
<1>1. Inv => TypeOK
  BY DEF Inv
<1> QED BY <1>1, Invariance, PTL

(* A Publish sends one request and as many more as newClient was told to    *)
(* retry: one when Count is negative, or when the client library does not   *)
(* retry a POST.                                                            *)
THEOREM RetriesBounded ==
  Spec => [](attempt <= Limit + 1 /\ (cfg.negative \/ ~cfg.retriesPosts => attempt <= 1))
<1>1. Inv => attempt <= Limit + 1 /\ (cfg.negative \/ ~cfg.retriesPosts => attempt <= 1)
  BY DEF Inv, Counted, Limit, RetryCount
<1> QED BY <1>1, Invariance, PTL

(* Publish returns nil only for an event the router acked, or turned down   *)
(* for an error a caller's rule answers with success (Publish, Handler,     *)
(* Respond), whatever the network loses and whatever integers those rules   *)
(* carry.                                                                   *)
THEOREM SuccessIsAcked == Spec => []SuccessWasAcked
<1>1. Inv => SuccessWasAcked
  <2> SUFFICES ASSUME Inv, answer = "nil"
               PROVE  /\ heard[attempt] = request[attempt].status
                      /\ request[attempt].outcome = "acked" \/ Tolerated(request[attempt])
    BY DEF SuccessWasAcked, Tolerated
  <2>1. /\ attempt \in Attempts /\ pc = "returned"
        /\ heard[attempt] # Error /\ heard[attempt] < 400
    BY DEF Inv, Answered, TypeOK, Attempts
  <2>2. request[attempt].pc = "over" /\ heard[attempt] = request[attempt].status
    BY <2>1 DEF Inv, Heard
  <2> QED BY <2>1, <2>2 DEF Inv, Served, Sound, Meant
<1> QED BY <1>1, Invariance, PTL

(* An event that Publish calls non-retryable was turned down for itself in  *)
(* the last attempt (permanentStatus): never for a subscriber that is       *)
(* stopped, a message lost, or a router that returned undecided.            *)
THEOREM GivenUpIsRefused == Spec => []GivenUpWasRefused
<1>1. Inv => GivenUpWasRefused
  <2> SUFFICES ASSUME Inv, answer = "nonretryable"
               PROVE  heard[attempt] = request[attempt].status /\ Refused(request[attempt])
    BY DEF GivenUpWasRefused, Refused
  <2>1. attempt \in Attempts /\ pc = "returned" /\ permanentStatus(heard[attempt])
    BY DEF Inv, Answered, TypeOK, Attempts
  <2>2. heard[attempt] # Error
    BY <2>1 DEF permanentStatus, Error
  <2>3. request[attempt].pc = "over" /\ heard[attempt] = request[attempt].status
    BY <2>1, <2>2 DEF Inv, Heard
  <2> QED BY <2>1, <2>3 DEF Inv, Served, Sound, Meant
<1> QED BY <1>1, Invariance, PTL

(* An event the router acked is sent again only when its answer was not     *)
(* heard, or when the caller's RetryOn asks to repeat it                    *)
(* (defaultRetryCondition, newClient).                                      *)
THEOREM RepeatsAreUnheard == Spec => []RepeatedOnlyUnheard
<1>1. Inv => RepeatedOnlyUnheard
  <2> SUFFICES ASSUME Inv, NEW a \in 1 .. attempt - 1, request[a].outcome = "acked",
                      heard[a] # Error
               PROVE  heard[a] \in cfg.retryOn
    BY DEF RepeatedOnlyUnheard
  <2>1. a \in Attempts /\ a < attempt
    BY LimitBounded DEF Inv, TypeOK, Attempts
  <2>2. /\ request[a].pc = "over" /\ heard[a] = request[a].status
        /\ Repeats(heard[a])
    BY <2>1 DEF Inv, Heard
  <2>3. request[a].status = 202
    BY <2>1, <2>2 DEF Inv, Served, Sound, Meant
  <2> QED BY <2>2, <2>3 DEF Repeats, defaultRetryCondition, Error
<1> QED BY <1>1, Invariance, PTL

=============================================================================
