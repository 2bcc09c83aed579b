---------------------------- MODULE CaptureUI_proofs ----------------------------
(***************************************************************************)
(* That the buttons of the page tell the truth, for any number of clients, *)
(* sessions and views.                                                     *)
(***************************************************************************)
EXTENDS CaptureUI, SequenceTheorems, TLAPS

\* Taking one element out of a sequence leaves a sequence.
LEMMA RemoveAtSeq ==
    ASSUME NEW S, NEW s \in Seq(S), NEW n \in DOMAIN s
    PROVE  RemoveAt(s, n) \in Seq(S)
<1>1. n \in 1..Len(s) /\ Len(s) \in Nat
  OBVIOUS
<1>2. SubSeq(s, 1, n - 1) \in Seq(S) /\ SubSeq(s, n + 1, Len(s)) \in Seq(S)
  BY <1>1
<1> QED
  BY <1>2 DEF RemoveAt

\* Delivering the only event leaves none.
LEMMA RemoveOnly ==
    ASSUME NEW m, NEW n \in DOMAIN <<m>>
    PROVE  n = 1 /\ RemoveAt(<<m>>, n) = <<>>
<1>1. n = 1 /\ Len(<<m>>) = 1
  OBVIOUS
<1>2. SubSeq(<<m>>, 1, 0) = <<>> /\ SubSeq(<<m>>, 2, 1) = <<>>
  OBVIOUS
<1> QED
  BY <1>1, <1>2 DEF RemoveAt

\* What the service and the page say of the status are statuses.
LEMMA StatusTypes ==
    ASSUME TypeOK
    PROVE  CaptureStatus \in Status /\ ErrorStatus \in Status /\ NoStatus \in Status
  BY DEF TypeOK, CaptureStatus, ErrorStatus, NoStatus, Status, State, Session, NoSession

LEMMA InitTyped == Init => TypeOK
<1> SUFFICES ASSUME Init PROVE TypeOK
  OBVIOUS
<1>1. NoStatus \in Status /\ events \in Seq(Status)
  BY DEF Init, NoStatus, Status, State, Session, NoSession
<1>2. loads \in [Views -> [Session -> 0..MaxLoads]]
  BY UIAssumption DEF Init
<1> QED
  BY <1>1, <1>2 DEF Init, LifeInit, TypeOK, State, CallAt, RunAt, Request

\* A view's loads stay within the bound.
LEMMA LoadsTyped ==
    ASSUME TypeOK, NEW v \in Views, NEW i \in Session, NEW n \in 0..MaxLoads,
           loads' = [loads EXCEPT ![v][i] = n]
    PROVE  loads' \in [Views -> [Session -> 0..MaxLoads]]
<1>1. loads[v] \in [Session -> 0..MaxLoads]
  BY DEF TypeOK
<1>2. [loads[v] EXCEPT ![i] = n] \in [Session -> 0..MaxLoads]
  BY <1>1
<1> QED
  BY <1>2 DEF TypeOK

\* Calls and pipelines keep the types of the service.
LEMMA LifeTyped ==
    ASSUME TypeOK, LifeNext
    PROVE  /\ state' \in State /\ sessionID' \in Session \cup {NoSession}
           /\ call' \in [Clients -> CallAt] /\ run' \in [Session -> RunAt]
<1> USE DEF TypeOK, State, CallAt, RunAt
<1>1. ASSUME NEW c \in Clients,
             Claim(c) \/ Publish(c) \/ StartFails(c) \/ ClaimStop(c) \/ Finish(c) \/ ReportByCall(c)
      PROVE  /\ state' \in State /\ sessionID' \in Session \cup {NoSession}
             /\ call' \in [Clients -> CallAt] /\ run' \in [Session -> RunAt]
  BY <1>1 DEF Claim, Publish, StartFails, ClaimStop, Finish, ReportByCall, CallMoves
<1>2. ASSUME NEW c \in Clients, Spawn(c)
      PROVE  /\ state' \in State /\ sessionID' \in Session \cup {NoSession}
             /\ call' \in [Clients -> CallAt] /\ run' \in [Session -> RunAt]
  BY <1>2 DEF Spawn
<1>3. ASSUME NEW i \in Session, Opened(i) \/ ReportByRun(i)
      PROVE  /\ state' \in State /\ sessionID' \in Session \cup {NoSession}
             /\ call' \in [Clients -> CallAt] /\ run' \in [Session -> RunAt]
  BY <1>3 DEF Opened, ReportByRun
<1> QED
  BY <1>1, <1>2, <1>3 DEF LifeNext

\* Every step keeps the types.
LEMMA TypeKept ==
    ASSUME TypeOK, [Next]_vars
    PROVE  TypeOK'
<1> USE DEF TypeOK
<1>0. CaptureStatus \in Status /\ ErrorStatus \in Status /\ NoStatus \in Status
  BY StatusTypes
<1>1. ASSUME NEW c \in Clients, ClickStart(c) \/ ClickStop(c) PROVE TypeOK'
  BY <1>1 DEF ClickStart, ClickStop, Sends, Request, lifeVars, storeVars, viewVars
<1>2. ASSUME NEW c \in Clients, StartArrives(c) \/ StopArrives(c) PROVE TypeOK'
  <2>1. Claim(c) \/ ClaimStop(c) \/ UNCHANGED lifeVars
    BY <1>2 DEF StartArrives, StopArrives
  <2>2. /\ state' \in State /\ sessionID' \in Session \cup {NoSession}
        /\ call' \in [Clients -> CallAt] /\ run' \in [Session -> RunAt]
    BY <2>1, LifeTyped DEF LifeNext, lifeVars
  <2>3. request' \in [Clients -> Request]
    BY <1>2 DEF StartArrives, StopArrives, Arrives, RequestMoves, Request
  <2> QED
    BY <1>2, <2>2, <2>3 DEF StartArrives, StopArrives, Arrives, storeVars, viewVars
<1>3. ASSUME NEW c \in Clients, StartRejected(c) PROVE TypeOK'
  BY <1>0, <1>3 DEF StartRejected, RequestMoves, Shows, Request, lifeVars, viewVars
<1>4. ASSUME NEW c \in Clients, Unnoticed(c) PROVE TypeOK'
  BY <1>4, LifeTyped DEF Unnoticed, LifeNext, storeVars, viewVars
<1>5. ASSUME NEW c \in Clients, StartReturns(c) PROVE TypeOK'
  <2>1. request' \in [Clients -> Request]
    BY <1>5 DEF StartReturns, RequestMoves, Request
  <2> QED
    BY <1>5, <2>1, LifeTyped DEF StartReturns, LifeNext, storeVars, viewVars
<1>6. ASSUME NEW c \in Clients, StopReturns(c) PROVE TypeOK'
  <2>1. request' \in [Clients -> Request] /\ events' \in Seq(Status)
    BY <1>0, <1>6 DEF StopReturns, Emits, RequestMoves, Request
  <2> QED
    BY <1>6, <2>1, LifeTyped DEF StopReturns, LifeNext, storeVars, viewVars
<1>7. ASSUME NEW i \in Session, PipelineStep(i) PROVE TypeOK'
  <2>1. events' \in Seq(Status)
    <3>1. Append(events, CaptureStatus) \in Seq(Status)
      BY <1>0
    <3> QED
      BY <1>7, <3>1 DEF PipelineStep, Emits
  <2> QED
    BY <1>7, <2>1, LifeTyped DEF PipelineStep, LifeNext, storeVars, viewVars
<1>8. CASE PollRead \/ PollAnswered
  BY <1>0, <1>8 DEF PollRead, PollAnswered, Shows, lifeVars, viewVars
<1>9. CASE Deliver
  <2>1. PICK n \in DOMAIN events : events' = RemoveAt(events, n) /\ Shows(events[n])
    BY <1>9 DEF Deliver
  <2>2. events' \in Seq(Status) /\ status' \in Status /\ overtaken' \in BOOLEAN
    BY <2>1, RemoveAtSeq DEF Shows
  <2> QED
    BY <1>9, <2>2 DEF Deliver, lifeVars, viewVars
<1>10. ASSUME NEW v \in Views, Effect(v) \/ Interval(v) \/ \E i \in Session : Answer(v, i)
       PROVE  TypeOK'
  <2>1. status.sessionID \in Session \cup {NoSession}
    BY DEF Status
  <2>5. ASSUME NEW i \in Session, Asks(v, i)
        PROVE  loads' \in [Views -> [Session -> 0..MaxLoads]]
    <3>1. loads[v][i] \in 0..MaxLoads /\ loads[v][i] + 1 \in 0..MaxLoads
      BY <2>5, UIAssumption DEF Asks
    <3> QED
      BY <2>5, <3>1, LoadsTyped DEF Asks
  <2>2. CASE Effect(v)
    <3>1. loads' \in [Views -> [Session -> 0..MaxLoads]]
      BY <2>1, <2>2, <2>5 DEF Effect
    <3>2. key' \in [Views -> Session \cup {NoSession}] /\ rows' \in [Views -> Session \cup {NoSession}]
      BY <2>1, <2>2 DEF Effect
    <3> QED
      BY <2>2, <3>1, <3>2 DEF Effect, lifeVars, storeVars
  <2>3. CASE Interval(v)
    <3>1. key[v] \in Session /\ Asks(v, key[v])
      BY <2>3 DEF Interval, Polled
    <3> QED
      BY <2>3, <2>5, <3>1 DEF Interval, lifeVars, storeVars
  <2>4. CASE \E i \in Session : Answer(v, i)
    <3>1. PICK i \in Session : Answer(v, i)
      BY <2>4
    <3>2. loads[v][i] \in 0..MaxLoads /\ loads[v][i] - 1 \in 0..MaxLoads
      BY <3>1, UIAssumption DEF Answer
    <3>3. loads' \in [Views -> [Session -> 0..MaxLoads]]
      BY <3>1, <3>2, LoadsTyped DEF Answer
    <3>4. rows' \in [Views -> Session \cup {NoSession}]
      BY <3>1 DEF Answer
    <3> QED
      BY <3>1, <3>3, <3>4 DEF Answer, lifeVars, storeVars
  <2> QED
    BY <1>10, <2>2, <2>3, <2>4
<1>11. CASE UNCHANGED vars
  BY <1>11 DEF vars, lifeVars, storeVars, viewVars
<1> QED
  BY <1>1, <1>2, <1>3, <1>4, <1>5, <1>6, <1>7, <1>8, <1>9, <1>10, <1>11 DEF Next, ClientStep

\* The initial state is orderly.
LEMMA InitOrderly == Init => Orderly
  BY DEF Init, LifeInit, Orderly, OneAtATime, StateTells, StoreFollows, PollIsFirst,
         Underway, Outstanding, Active, CaptureStatus, NoStatus

\* Pressing a button puts a request on its way, under the status that is shown.
LEMMA ClickOrderly ==
    ASSUME TypeOK, Orderly, NEW c \in Clients, ClickStart(c) \/ ClickStop(c), ~overtaken'
    PROVE  Orderly'
<1>1. /\ UNCHANGED <<state, sessionID, call, run, events, status, poll, pollMsg>>
      /\ poll = "done"
      /\ \E w \in {"start", "stop"} : /\ request' = [request EXCEPT ![c] = w]
                                      /\ w = "start" => status.state = "idle"
                                      /\ w = "stop" => status.state = "running"
      /\ request[c] = "none"
  BY DEF ClickStart, ClickStop, Sends, OffersStart, OffersStop, lifeVars, storeVars
<1>2. Underway' = Underway /\ Outstanding' = Outstanding /\ CaptureStatus' = CaptureStatus
  BY <1>1 DEF Underway, Outstanding, Active, CaptureStatus
<1>3. OneAtATime' /\ StateTells' /\ PollIsFirst'
  BY <1>1, <1>2 DEF Orderly, OneAtATime, StateTells, PollIsFirst, Active
<1>4. StoreFollows'
  BY <1>1, <1>2 DEF Orderly, StoreFollows, TypeOK
<1> QED
  BY <1>3, <1>4 DEF Orderly

\* StartCapture is accepted: nothing was outstanding, the page was right to offer it.
LEMMA ClaimOrderly ==
    ASSUME TypeOK, Orderly, NEW c \in Clients,
           Arrives(c, "start", "accepted"), Claim(c), ~overtaken'
    PROVE  Orderly'
<1>1. /\ request[c] = "start" /\ request' = [request EXCEPT ![c] = "accepted"]
      /\ UNCHANGED <<status, poll, pollMsg, events, sessionID, run>>
      /\ call[c] = "ready" /\ call' = [call EXCEPT ![c] = "create"]
      /\ state = "idle" /\ state' = "starting"
  BY DEF Arrives, RequestMoves, Claim, CallMoves, MayStart, storeVars
<1>2. status.state = "idle" /\ ~Outstanding /\ poll = "done" /\ events = <<>>
  BY <1>1 DEF Orderly, StoreFollows, PollIsFirst, Outstanding
<1>3. \A d \in Clients : call[d] = "ready" /\ (d # c => call'[d] = "ready")
  BY <1>1, <1>2 DEF Outstanding, Underway, TypeOK
<1>4. \A i \in Session : ~Active(i) /\ ~Active(i)'
  BY <1>1, <1>2 DEF Outstanding, Underway, Active
<1>5. call'[c] = "create" /\ Underway' /\ Outstanding'
  BY <1>1 DEF TypeOK, Underway, Outstanding
<1>6. OneAtATime' /\ StateTells' /\ PollIsFirst'
  BY <1>1, <1>2, <1>3, <1>4, <1>5 DEF OneAtATime, StateTells, PollIsFirst, Active
<1>7. StoreFollows'
  BY <1>1, <1>2, <1>5 DEF Orderly, StoreFollows, TypeOK
<1> QED
  BY <1>6, <1>7 DEF Orderly

\* So is StopCapture.
LEMMA ClaimStopOrderly ==
    ASSUME TypeOK, Orderly, NEW c \in Clients,
           Arrives(c, "stop", "accepted"), ClaimStop(c), ~overtaken'
    PROVE  Orderly'
<1>1. /\ request[c] = "stop" /\ request' = [request EXCEPT ![c] = "accepted"]
      /\ UNCHANGED <<status, poll, pollMsg, events, sessionID, run>>
      /\ call[c] = "ready" /\ call' = [call EXCEPT ![c] = "stop"]
      /\ state = "running" /\ state' = "stopping"
  BY DEF Arrives, RequestMoves, ClaimStop, CallMoves, MayStop, storeVars
<1>2. status.state = "running" /\ ~Outstanding /\ poll = "done" /\ events = <<>>
  BY <1>1 DEF Orderly, StoreFollows, PollIsFirst, Outstanding
<1>3. \A d \in Clients : call[d] = "ready" /\ (d # c => call'[d] = "ready")
  BY <1>1, <1>2 DEF Outstanding, Underway, TypeOK
<1>4. \A i \in Session : ~Active(i) /\ ~Active(i)'
  BY <1>1, <1>2 DEF Outstanding, Underway, Active
<1>5. call'[c] = "stop" /\ Underway' /\ Outstanding'
  BY <1>1 DEF TypeOK, Underway, Outstanding
<1>6. OneAtATime' /\ StateTells' /\ PollIsFirst'
  BY <1>1, <1>2, <1>3, <1>4, <1>5 DEF OneAtATime, StateTells, PollIsFirst, Active
<1>7. StoreFollows'
  BY <1>1, <1>2, <1>5 DEF Orderly, StoreFollows, TypeOK
<1> QED
  BY <1>6, <1>7 DEF Orderly

\* A refused request changes nothing but itself.
LEMMA RefusedOrderly ==
    ASSUME TypeOK, Orderly, NEW c \in Clients, UNCHANGED lifeVars,
           Arrives(c, "start", "failed") \/ Arrives(c, "stop", "none"), ~overtaken'
    PROVE  Orderly'
<1>1. /\ UNCHANGED <<state, sessionID, call, run, events, status, poll, pollMsg>>
      /\ request[c] \in {"start", "stop"}
      /\ \E w \in {"failed", "none"} : request' = [request EXCEPT ![c] = w]
  BY DEF Arrives, RequestMoves, lifeVars, storeVars
<1>2. Underway' = Underway /\ Outstanding' = Outstanding /\ CaptureStatus' = CaptureStatus
  BY <1>1 DEF Underway, Outstanding, Active, CaptureStatus
<1>3. poll = "done"
  BY <1>1 DEF Orderly, PollIsFirst
<1>4. OneAtATime' /\ StateTells' /\ PollIsFirst'
  BY <1>1, <1>2, <1>3 DEF Orderly, OneAtATime, StateTells, PollIsFirst, Active
<1>5. StoreFollows'
  BY <1>1, <1>2 DEF Orderly, StoreFollows, TypeOK
<1> QED
  BY <1>4, <1>5 DEF Orderly

\* An error that reaches the page leaves a status that is an error.
LEMMA RejectedOrderly ==
    ASSUME TypeOK, Orderly, NEW c \in Clients, StartRejected(c), ~overtaken'
    PROVE  Orderly'
<1>1. /\ UNCHANGED <<state, sessionID, call, run, events, poll, pollMsg>>
      /\ request[c] = "failed" /\ request' = [request EXCEPT ![c] = "none"]
      /\ status'.state = "error"
      /\ \A d \in Clients : request'[d] \notin {"start", "stop"}
  BY DEF StartRejected, RequestMoves, Shows, ErrorStatus, NoStatus, lifeVars
<1>2. Underway' = Underway /\ Outstanding' = Outstanding /\ CaptureStatus' = CaptureStatus
  BY <1>1 DEF Underway, Outstanding, Active, CaptureStatus
<1>3. poll = "done"
  BY <1>1 DEF Orderly, PollIsFirst
<1>4. OneAtATime' /\ StateTells' /\ PollIsFirst'
  BY <1>1, <1>2, <1>3 DEF Orderly, OneAtATime, StateTells, PollIsFirst, Active
<1>5. StoreFollows'
  BY <1>1, <1>2 DEF StoreFollows
<1> QED
  BY <1>4, <1>5 DEF Orderly

\* A call at work goes on, still the only one, with the state its place asks for.
LEMMA CallOrderly ==
    ASSUME TypeOK, Orderly, NEW c \in Clients, NEW to \in CallAt \ {"ready"},
           call[c] # "ready", call' = [call EXCEPT ![c] = to],
           UNCHANGED <<run, storeVars, request, events>>,
           to \in {"create", "spawn"} => state' = "starting",
           to = "stop" => state' = "stopping",
           to = "report" => state' = "idle",
           state' \in {"idle", "stopping"} <=> state \in {"idle", "stopping"}
    PROVE  Orderly'
<1>1. call'[c] = to /\ \A d \in Clients : d # c => call[d] = "ready" /\ call'[d] = "ready"
  BY DEF Orderly, OneAtATime, TypeOK
<1>2. Underway /\ Underway' /\ Outstanding /\ Outstanding' /\ events = <<>> /\ poll = "done"
  BY <1>1 DEF Orderly, OneAtATime, PollIsFirst, Underway, Outstanding, storeVars
<1>3. \A i \in Session : ~Active(i) /\ ~Active(i)'
  BY DEF Orderly, OneAtATime, Active
<1>4. OneAtATime' /\ StateTells' /\ PollIsFirst'
  BY <1>1, <1>2, <1>3 DEF OneAtATime, StateTells, PollIsFirst, Active, storeVars
<1>5. StoreFollows'
  <2>1. state \in State /\ (Outstanding => status.state \in
            IF state \in {"starting", "running", "error"} THEN {"idle", "error"} ELSE {"running", "error"})
    BY DEF TypeOK, Orderly, StoreFollows
  <2>2. state' \in {"starting", "stopping", "idle"}
    BY DEF CallAt
  <2> QED
    BY <1>2, <2>1, <2>2 DEF Orderly, StoreFollows, storeVars, State
<1> QED
  BY <1>4, <1>5 DEF Orderly

LEMMA UnnoticedOrderly ==
    ASSUME TypeOK, Orderly, NEW c \in Clients, Unnoticed(c), ~overtaken'
    PROVE  Orderly'
<1>1. CASE Publish(c)
  <2>1. state = "starting"
    BY <1>1 DEF Publish, CallMoves, Orderly, StateTells
  <2> QED
    BY <1>1, <2>1, CallOrderly DEF Publish, CallMoves, Unnoticed, CallAt
<1>2. CASE Finish(c)
  BY <1>2, CallOrderly DEF Finish, CallMoves, Unnoticed, CallAt
<1> QED
  BY <1>1, <1>2 DEF Unnoticed

\* A start that fails leaves nothing outstanding but its answer.
LEMMA StartFailsOrderly ==
    ASSUME TypeOK, Orderly, NEW c \in Clients, StartReturns(c), StartFails(c), ~overtaken'
    PROVE  Orderly'
<1>1. /\ call[c] = "create" /\ call' = [call EXCEPT ![c] = "ready"] /\ state' = "error"
      /\ UNCHANGED <<sessionID, run, events, status, poll, pollMsg>>
      /\ request' = [request EXCEPT ![c] = "failed"]
  BY DEF StartFails, CallMoves, StartReturns, RequestMoves, Spawn, storeVars
<1>2. state = "starting" /\ Outstanding /\ poll = "done" /\ events = <<>>
  BY <1>1 DEF Orderly, StateTells, Outstanding, Underway, PollIsFirst, OneAtATime
<1>3. status.state \in {"idle", "error"}
  BY <1>2 DEF Orderly, StoreFollows
<1>4. (\A d \in Clients : call'[d] = "ready") /\ \A i \in Session : ~Active(i) /\ ~Active(i)'
  BY <1>1 DEF Orderly, OneAtATime, Active, TypeOK
<1>5. ~Underway' /\ ~Outstanding'
  BY <1>1, <1>2, <1>4 DEF Underway, Outstanding
<1>6. OneAtATime' /\ StateTells' /\ PollIsFirst'
  BY <1>1, <1>2, <1>4, <1>5 DEF OneAtATime, StateTells, PollIsFirst, Active
<1>7. request'[c] = "failed"
  BY <1>1 DEF TypeOK
<1>8. StoreFollows'
  BY <1>1, <1>3, <1>5, <1>7 DEF Orderly, StoreFollows, TypeOK
<1> QED
  BY <1>6, <1>8 DEF Orderly

\* StartCapture hands over to its pipeline.
LEMMA SpawnOrderly ==
    ASSUME TypeOK, Orderly, NEW c \in Clients, StartReturns(c), Spawn(c), ~overtaken'
    PROVE  Orderly'
<1>1. /\ call[c] = "spawn" /\ call' = [call EXCEPT ![c] = "ready"]
      /\ sessionID \in Session /\ run' = [run EXCEPT ![sessionID] = "opening"]
      /\ UNCHANGED <<state, sessionID, events, status, poll, pollMsg>>
      /\ request' = [request EXCEPT ![c] = "none"]
  BY DEF Spawn, StartFails, CallMoves, StartReturns, RequestMoves, storeVars, TypeOK
<1>2. state = "starting" /\ Outstanding /\ poll = "done" /\ events = <<>>
  BY <1>1 DEF Orderly, StateTells, Outstanding, Underway, PollIsFirst, OneAtATime
<1>3. status.state \in {"idle", "error"}
  BY <1>2 DEF Orderly, StoreFollows
<1>4. /\ \A d \in Clients : call'[d] = "ready"
      /\ \A i \in Session : Active(i)' <=> i = sessionID
      /\ run'[sessionID] = "opening"
      /\ \A i \in Session : run'[i] # "report" /\ (run'[i] = "opening" => i = sessionID)
  BY <1>1 DEF Orderly, OneAtATime, Active, TypeOK
<1>5. Underway' /\ Outstanding'
  BY <1>1, <1>4 DEF Underway, Outstanding
<1>6. OneAtATime' /\ StateTells' /\ PollIsFirst'
  BY <1>1, <1>2, <1>4, <1>5 DEF OneAtATime, StateTells, PollIsFirst
<1>7. StoreFollows'
  BY <1>1, <1>2, <1>3, <1>5 DEF Orderly, StoreFollows, TypeOK
<1> QED
  BY <1>6, <1>7 DEF Orderly

\* StopCapture reports, and so returns.
LEMMA StopReturnsOrderly ==
    ASSUME TypeOK, Orderly, NEW c \in Clients, StopReturns(c), ~overtaken'
    PROVE  Orderly'
<1>1. /\ call[c] = "report" /\ call' = [call EXCEPT ![c] = "ready"]
      /\ UNCHANGED <<state, sessionID, run, status, poll, pollMsg>>
      /\ events' = Append(events, CaptureStatus)
      /\ request' = [request EXCEPT ![c] = "none"]
  BY DEF StopReturns, Emits, ReportByCall, CallMoves, RequestMoves, storeVars
<1>2. state = "idle" /\ Outstanding /\ poll = "done" /\ events = <<>>
  BY <1>1 DEF Orderly, StateTells, Outstanding, Underway, PollIsFirst, OneAtATime
<1>3. status.state \in {"running", "error"}
  BY <1>2 DEF Orderly, StoreFollows
<1>4. (\A d \in Clients : call'[d] = "ready") /\ \A i \in Session : ~Active(i) /\ ~Active(i)'
  BY <1>1 DEF Orderly, OneAtATime, Active, TypeOK
<1>5. events' = <<CaptureStatus'>> /\ events' # <<>>
  BY <1>1, <1>2 DEF CaptureStatus
<1>6. ~Underway' /\ Outstanding'
  BY <1>4, <1>5 DEF Underway, Outstanding
<1>7. OneAtATime' /\ StateTells' /\ PollIsFirst'
  BY <1>1, <1>2, <1>4, <1>5, <1>6 DEF OneAtATime, StateTells, PollIsFirst, Active
<1>8. StoreFollows'
  BY <1>1, <1>2, <1>3, <1>6 DEF Orderly, StoreFollows, TypeOK
<1> QED
  BY <1>7, <1>8 DEF Orderly

\* A pipeline comes up or fails, and the store does not know yet.
LEMMA OpenedOrderly ==
    ASSUME TypeOK, Orderly, NEW i \in Session, PipelineStep(i), Opened(i), ~overtaken'
    PROVE  Orderly'
<1>1. /\ run[i] = "opening" /\ run' = [run EXCEPT ![i] = "report"]
      /\ state = "starting" /\ state' \in {"running", "error"}
      /\ UNCHANGED <<sessionID, call, events, status, poll, pollMsg, request>>
  BY DEF PipelineStep, Opened, ReportByRun, storeVars
<1>2. Outstanding /\ poll = "done" /\ events = <<>>
  BY <1>1 DEF Orderly, Outstanding, Underway, Active, PollIsFirst, OneAtATime
<1>3. status.state \in {"idle", "error"}
  BY <1>1, <1>2 DEF Orderly, StoreFollows
<1>4. /\ \A c \in Clients : call[c] = "ready" /\ call'[c] = "ready"
      /\ \A j \in Session : /\ Active(j)' <=> j = i
                            /\ run'[j] # "opening" /\ (run'[j] = "report" => j = i)
  BY <1>1 DEF Orderly, OneAtATime, Active, TypeOK
<1>5. Underway' /\ Outstanding'
  BY <1>1, <1>4 DEF Underway, Outstanding
<1>6. OneAtATime' /\ StateTells' /\ PollIsFirst'
  BY <1>1, <1>2, <1>4, <1>5 DEF OneAtATime, StateTells, PollIsFirst
<1>7. StoreFollows'
  BY <1>1, <1>3, <1>5 DEF Orderly, StoreFollows
<1> QED
  BY <1>6, <1>7 DEF Orderly

\* A pipeline reports: its event is the only one.
LEMMA RunReportOrderly ==
    ASSUME TypeOK, Orderly, NEW i \in Session, PipelineStep(i), ReportByRun(i), ~overtaken'
    PROVE  Orderly'
<1>1. /\ run[i] = "report" /\ run' = [run EXCEPT ![i] = "over"]
      /\ UNCHANGED <<state, sessionID, call, status, poll, pollMsg, request>>
      /\ events' = Append(events, CaptureStatus)
  BY DEF PipelineStep, Opened, ReportByRun, Emits, storeVars
<1>2. state \in {"running", "error"} /\ Outstanding /\ poll = "done" /\ events = <<>>
  BY <1>1 DEF Orderly, StateTells, Outstanding, Underway, Active, PollIsFirst, OneAtATime
<1>3. status.state \in {"idle", "error"}
  BY <1>2 DEF Orderly, StoreFollows
<1>4. /\ \A c \in Clients : call[c] = "ready" /\ call'[c] = "ready"
      /\ \A j \in Session : ~Active(j)'
  BY <1>1 DEF Orderly, OneAtATime, Active, TypeOK
<1>5. events' = <<CaptureStatus'>> /\ events' # <<>>
  BY <1>1, <1>2 DEF CaptureStatus
<1>6. ~Underway' /\ Outstanding'
  BY <1>4, <1>5 DEF Underway, Outstanding
<1>7. OneAtATime' /\ StateTells' /\ PollIsFirst'
  BY <1>1, <1>2, <1>4, <1>5, <1>6 DEF OneAtATime, StateTells, PollIsFirst, Active
<1>8. StoreFollows'
  BY <1>1, <1>2, <1>3, <1>6 DEF Orderly, StoreFollows
<1> QED
  BY <1>7, <1>8 DEF Orderly

\* The poll is read and answered before anything else happens.
LEMMA PollOrderly ==
    ASSUME TypeOK, Orderly, PollRead \/ PollAnswered, ~overtaken'
    PROVE  Orderly'
<1>1. /\ UNCHANGED <<state, sessionID, call, run, events, request>>
      /\ poll # "done"
      /\ status' = CaptureStatus /\ CaptureStatus' = CaptureStatus /\ status = CaptureStatus
      /\ poll' = "answered" => pollMsg' = CaptureStatus
  BY DEF PollRead, PollAnswered, Shows, Orderly, PollIsFirst, lifeVars, CaptureStatus
<1>2. Underway' = Underway /\ Outstanding' = Outstanding
  BY <1>1 DEF Underway, Outstanding, Active
<1>3. OneAtATime' /\ StateTells' /\ StoreFollows'
  BY <1>1, <1>2 DEF Orderly, OneAtATime, StateTells, StoreFollows, Active
<1>4. PollIsFirst'
  <2>1. state = "idle" /\ ~Outstanding /\ \A c \in Clients : request[c] = "none"
    BY <1>1 DEF Orderly, PollIsFirst
  <2> QED
    BY <1>1, <1>2, <2>1 DEF PollIsFirst
<1> QED
  BY <1>3, <1>4 DEF Orderly

\* The only event is delivered and brings the store up to date.
LEMMA DeliverOrderly ==
    ASSUME TypeOK, Orderly, Deliver, ~overtaken'
    PROVE  Orderly'
<1>1. PICK n \in DOMAIN events : events' = RemoveAt(events, n) /\ Shows(events[n])
  BY DEF Deliver
<1>2. UNCHANGED <<state, sessionID, call, run, request, poll, pollMsg>>
  BY DEF Deliver, lifeVars
<1>3. events = <<CaptureStatus>>
  BY <1>1 DEF Orderly, OneAtATime
<1>4. events' = <<>> /\ status' = CaptureStatus'
  BY <1>1, <1>2, <1>3, RemoveOnly DEF Shows, CaptureStatus
<1>5. Outstanding /\ ~Underway /\ ~Underway' /\ ~Outstanding' /\ poll' = "done"
  BY <1>2, <1>3, <1>4 DEF Orderly, OneAtATime, Underway, Outstanding, Active, PollIsFirst
<1>6. OneAtATime' /\ StateTells' /\ PollIsFirst'
  BY <1>2, <1>4, <1>5 DEF Orderly, OneAtATime, StateTells, PollIsFirst, Active, Underway
<1>7. \A c \in Clients : request'[c] \notin {"start", "stop"}
  BY <1>1 DEF Shows
<1>8. StoreFollows'
  BY <1>4, <1>5, <1>7 DEF StoreFollows
<1> QED
  BY <1>6, <1>8 DEF Orderly

\* Views only look at the store.
LEMMA ViewOrderly ==
    ASSUME Orderly, UNCHANGED <<lifeVars, storeVars, request, events>>
    PROVE  Orderly'
<1>1. UNCHANGED <<state, sessionID, call, run, status, poll, pollMsg, request, events>>
  BY DEF lifeVars, storeVars
<1>2. Underway' = Underway /\ Outstanding' = Outstanding /\ CaptureStatus' = CaptureStatus
  BY <1>1 DEF Underway, Outstanding, Active, CaptureStatus
<1> QED
  BY <1>1, <1>2 DEF Orderly, OneAtATime, StateTells, StoreFollows, PollIsFirst, Active

\* Once overtaken, always overtaken.
LEMMA OvertakenStays == TypeOK /\ [Next]_vars /\ ~overtaken' => ~overtaken
<1> SUFFICES ASSUME TypeOK, [Next]_vars, ~overtaken' PROVE ~overtaken
  OBVIOUS
<1>1. ASSUME NEW c \in Clients, ClickStart(c) \/ ClickStop(c) \/ ClientStep(c)
      PROVE  ~overtaken
  BY <1>1 DEF ClickStart, ClickStop, Sends, ClientStep, StartArrives, StopArrives, Arrives,
              StartRejected, Shows, Unnoticed, StartReturns, StopReturns
<1>2. ASSUME NEW i \in Session, PipelineStep(i) PROVE ~overtaken
  BY <1>2 DEF PipelineStep
<1>3. CASE PollRead \/ PollAnswered \/ Deliver
  BY <1>3 DEF PollRead, PollAnswered, Deliver, Shows
<1>4. ASSUME NEW v \in Views, Effect(v) \/ Interval(v) \/ \E i \in Session : Answer(v, i)
      PROVE  ~overtaken
  BY <1>4 DEF Effect, Interval, Answer
<1>5. CASE UNCHANGED vars
  BY <1>5 DEF vars
<1> QED
  BY <1>1, <1>2, <1>3, <1>4, <1>5 DEF Next

\* Every step keeps the order.
LEMMA OrderKept ==
    ASSUME TypeOK, Orderly, [Next]_vars, ~overtaken'
    PROVE  Orderly'
<1>1. ASSUME NEW c \in Clients, ClickStart(c) \/ ClickStop(c) PROVE Orderly'
  BY <1>1, ClickOrderly
<1>2. ASSUME NEW c \in Clients, StartArrives(c) \/ StopArrives(c) PROVE Orderly'
  BY <1>2, ClaimOrderly, ClaimStopOrderly, RefusedOrderly DEF StartArrives, StopArrives
<1>3. ASSUME NEW c \in Clients, StartRejected(c) \/ Unnoticed(c) PROVE Orderly'
  BY <1>3, RejectedOrderly, UnnoticedOrderly
<1>4. ASSUME NEW c \in Clients, StartReturns(c) PROVE Orderly'
  BY <1>4, StartFailsOrderly, SpawnOrderly DEF StartReturns
<1>5. ASSUME NEW c \in Clients, StopReturns(c) PROVE Orderly'
  BY <1>5, StopReturnsOrderly
<1>6. ASSUME NEW i \in Session, PipelineStep(i) PROVE Orderly'
  BY <1>6, OpenedOrderly, RunReportOrderly DEF PipelineStep
<1>7. CASE PollRead \/ PollAnswered
  BY <1>7, PollOrderly
<1>8. CASE Deliver
  BY <1>8, DeliverOrderly
<1>9. ASSUME NEW v \in Views, Effect(v) \/ Interval(v) \/ \E i \in Session : Answer(v, i)
      PROVE  Orderly'
  BY <1>9, ViewOrderly DEF Effect, Interval, Answer
<1>10. CASE UNCHANGED vars
  BY <1>10, ViewOrderly DEF vars
<1> QED
  BY <1>1, <1>2, <1>3, <1>4, <1>5, <1>6, <1>7, <1>8, <1>9, <1>10 DEF Next, ClientStep

\* The invariant of the page: as long as no request or poll has been overtaken, at
\* most one call, pipeline or event is on its way, and the store is exactly that one
\* event behind the service.
THEOREM PageInvariant == Spec => []Inv
<1>1. Init => Inv
  BY InitTyped, InitOrderly DEF Inv
<1>2. Inv /\ [Next]_vars => Inv'
  BY TypeKept, OrderKept, OvertakenStays DEF Inv
<1> QED
  BY <1>1, <1>2, PTL DEF Spec

\* Once nothing is under way the page shows the status of the service or an error,
\* for any number of clients, presses and sessions: Start is offered when the
\* service accepts it, and Stop for the session it stops.
THEOREM ButtonsAreTruthful == Spec => []ButtonsTellTheTruth
<1>1. Inv => ButtonsTellTheTruth
  <2> SUFFICES ASSUME Inv, Quiet, ~overtaken
               PROVE  status = CaptureStatus \/ status.state = "error"
    BY DEF ButtonsTellTheTruth
  <2>1. ~Outstanding
    BY DEF Quiet, Outstanding, Underway, Active
  <2> QED
    BY <2>1 DEF Inv, Orderly, StoreFollows, Quiet
<1> QED
  BY <1>1, PageInvariant, PTL

-------------------------------------------------------------------------------
(* The service behind the page *)

\* Whatever requests the page sends, and in whatever order they arrive, the service
\* sees a behaviour of its own contract: the page takes no step on its behalf, and a
\* request that is refused, lost in an error or sent twice changes nothing in it
\* (capture_service.go:59-137).  With the theorem that CaptureService implements the
\* same contract, what is proved of the page holds in front of the detailed service.
THEOREM PageKeepsLifecycle == Spec => LifeSpec
<1>1. Init => LifeInit
  BY DEF Init
<1>2. [Next]_vars => [LifeNext]_lifeVars
  <2> SUFFICES ASSUME [Next]_vars PROVE LifeNext \/ UNCHANGED lifeVars
    OBVIOUS
  <2>1. ASSUME NEW c \in Clients, ClickStart(c) \/ ClickStop(c) \/ StartRejected(c)
        PROVE  UNCHANGED lifeVars
    BY <2>1 DEF ClickStart, ClickStop, Sends, StartRejected
  <2>2. ASSUME NEW c \in Clients, StartArrives(c) \/ StopArrives(c)
        PROVE  Claim(c) \/ ClaimStop(c) \/ UNCHANGED lifeVars
    BY <2>2 DEF StartArrives, StopArrives
  <2>3. ASSUME NEW c \in Clients, Unnoticed(c) \/ StartReturns(c) \/ StopReturns(c)
        PROVE  Publish(c) \/ Finish(c) \/ StartFails(c) \/ Spawn(c) \/ ReportByCall(c)
    BY <2>3 DEF Unnoticed, StartReturns, StopReturns
  <2>4. ASSUME NEW i \in Session, PipelineStep(i)
        PROVE  Opened(i) \/ ReportByRun(i)
    BY <2>4 DEF PipelineStep
  <2>5. CASE PollRead \/ PollAnswered \/ Deliver
    BY <2>5 DEF PollRead, PollAnswered, Deliver
  <2>6. ASSUME NEW v \in Views, Effect(v) \/ Interval(v) \/ \E i \in Session : Answer(v, i)
        PROVE  UNCHANGED lifeVars
    BY <2>6 DEF Effect, Interval, Answer
  <2>7. CASE UNCHANGED vars
    BY <2>7 DEF vars
  <2> QED
    BY <2>1, <2>2, <2>3, <2>4, <2>5, <2>6, <2>7 DEF Next, ClientStep, LifeNext
<1> QED
  BY <1>1, <1>2, PTL DEF Spec, LifeSpec
===============================================================================
