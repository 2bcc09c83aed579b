---------------------------- MODULE CaptureService ----------------------------
(***************************************************************************)
(* CaptureService: the capture lifecycle shared by concurrent calls of the *)
(* frontend (each runs in a goroutine of its own), the runPipeline         *)
(* goroutine of every session started so far, and the three stages each of *)
(* them launches.  Calls and runPipeline are split where another goroutine *)
(* can get in between: at every lock section, database call, wait, status  *)
(* read and Emit.  The stages behave as StageGroup says.                   *)
(***************************************************************************)
EXTENDS Naturals, FiniteSets

CONSTANTS Clients,     \* the goroutines that run the frontend's calls
          MaxSessions  \* bound: rows InsertSession creates

ASSUME ServiceAssumption == MaxSessions \in Nat

Session   == 1..MaxSessions
NoSession == 0
Stages    == {"capture", "processor", "aggregator"}

State   == {"idle", "starting", "running", "stopping", "error"}
Status  == [state : State, sessionID : Session \cup {NoSession}]
Failure == {"none", "insert", "open"}

VARIABLES
    state, sessionID, errorMessage,  \* the fields guarded by s.mu
    cancel,     \* s.cancel: the session whose context it cancels, NoSession for nil
    drops,      \* s.overflowDrops: the sessions whose drops it counts since its reset
    rows,       \* the sessions table: "absent", "open" or "ended" for every id
    lastID,     \* the AUTOINCREMENT sequence of that table
    cpc,        \* where the call of each client is
    csid,       \* the local variable sessionID of each call, NoSession outside one
    cmsg,       \* the status a StopCapture is about to emit
    rpc,        \* where the runPipeline of each session is
    rmsg,       \* the status a runPipeline is about to emit
    alive,      \* per session: stages counted by s.wg
    cancelled,  \* per session: its ctx.Done() is closed
    over,       \* per session: its capture loop ended on a NextPacket error
    readIDs     \* per session, history: what its goroutines read from s.sessionID

lockVars == <<state, sessionID, errorMessage>>
dbVars   == <<rows, lastID>>
callVars == <<cpc, csid, cmsg>>
runVars  == <<rpc, rmsg>>
ctxVars  == <<alive, cancelled, over, readIDs>>
vars == <<lockVars, cancel, drops, dbVars, callVars, runVars, ctxVars>>

CallPC == {"ready", "insert", "refuse", "publish", "spawn",
           "cancel", "wait", "end", "finish", "status", "emit"}
RunPC  == {"none", "context", "open", "fail", "failstatus", "failemit",
           "capture", "processor", "aggregator", "running",
           "status", "emit", "block", "returned"}

\* What CaptureStatus returns.
CaptureStatus == [state |-> state, sessionID |-> sessionID]

NoStatus == [state |-> "idle", sessionID |-> NoSession]

Init ==
    /\ state = "idle" /\ sessionID = NoSession /\ errorMessage = "none"
    /\ cancel = NoSession /\ drops = {}
    /\ rows = [i \in Session |-> "absent"] /\ lastID = 0
    /\ cpc = [c \in Clients |-> "ready"]
    /\ csid = [c \in Clients |-> NoSession]
    /\ cmsg = [c \in Clients |-> NoStatus]
    /\ rpc = [i \in Session |-> "none"]
    /\ rmsg = [i \in Session |-> NoStatus]
    /\ alive = [i \in Session |-> {}]
    /\ cancelled = [i \in Session |-> FALSE]
    /\ over = [i \in Session |-> FALSE]
    /\ readIDs = [i \in Session |-> {}]

-------------------------------------------------------------------------------
(* StartCapture *)

\* Mutant: only a running capture keeps another one from starting.
MayStartUnlessRunning == state # "running"

\* The check of StartCapture.
MayStart == state = "idle"

\* The first lock section finds the service not idle: the call returns an error.
StartRefused(c) ==
    /\ cpc[c] = "ready"
    /\ ~MayStart
    /\ UNCHANGED vars

\* The first lock section claims the service.
StartBegin(c) ==
    /\ cpc[c] = "ready"
    /\ MayStart
    /\ lastID < MaxSessions
    /\ state' = "starting"
    /\ cpc' = [cpc EXCEPT ![c] = "insert"]
    /\ UNCHANGED <<sessionID, errorMessage, cancel, drops, dbVars, csid, cmsg,
                   runVars, ctxVars>>

\* InsertSession creates a row under a fresh id.
StartInsert(c) ==
    /\ cpc[c] = "insert"
    /\ lastID' = lastID + 1
    /\ rows' = [rows EXCEPT ![lastID + 1] = "open"]
    /\ csid' = [csid EXCEPT ![c] = lastID + 1]
    /\ cpc' = [cpc EXCEPT ![c] = "publish"]
    /\ UNCHANGED <<lockVars, cancel, drops, cmsg, runVars, ctxVars>>

\* InsertSession fails.
StartInsertFails(c) ==
    /\ cpc[c] = "insert"
    /\ cpc' = [cpc EXCEPT ![c] = "refuse"]
    /\ UNCHANGED <<lockVars, cancel, drops, dbVars, csid, cmsg, runVars, ctxVars>>

\* The lock section of the failed insert; the call returns the error.
StartFail(c) ==
    /\ cpc[c] = "refuse"
    /\ state' = "error"
    /\ errorMessage' = "insert"
    /\ cpc' = [cpc EXCEPT ![c] = "ready"]
    /\ UNCHANGED <<sessionID, cancel, drops, dbVars, csid, cmsg, runVars, ctxVars>>

\* overflowDrops.Store(0).
DropsReset == {}

\* The second lock section: the new session becomes the current one and the drop
\* counter starts from zero.
StartPublish(c) ==
    /\ cpc[c] = "publish"
    /\ sessionID' = csid[c]
    /\ drops' = DropsReset
    /\ cpc' = [cpc EXCEPT ![c] = "spawn"]
    /\ UNCHANGED <<state, errorMessage, cancel, dbVars, csid, cmsg, runVars, ctxVars>>

\* go s.runPipeline(...), and StartCapture returns nil.
StartSpawn(c) ==
    /\ cpc[c] = "spawn"
    /\ rpc' = [rpc EXCEPT ![csid[c]] = "context"]
    /\ cpc' = [cpc EXCEPT ![c] = "ready"]
    /\ csid' = [csid EXCEPT ![c] = NoSession]
    /\ UNCHANGED <<lockVars, cancel, drops, dbVars, cmsg, rmsg, ctxVars>>

-------------------------------------------------------------------------------
(* StopCapture *)

\* Mutant: a capture can be stopped while it is starting.
MayStopWhenStarting == state \in {"starting", "running"}

\* The check of StopCapture.
MayStop == state = "running"

\* The first lock section finds no running capture: the call returns an error.
StopRefused(c) ==
    /\ cpc[c] = "ready"
    /\ ~MayStop
    /\ UNCHANGED vars

\* Mutant: the session is cleared before its pipeline has stopped.
StopBeginClearing(c) ==
    /\ cpc[c] = "ready"
    /\ MayStop
    /\ state' = "stopping"
    /\ sessionID' = NoSession
    /\ csid' = [csid EXCEPT ![c] = sessionID]
    /\ cpc' = [cpc EXCEPT ![c] = "cancel"]
    /\ UNCHANGED <<errorMessage, cancel, drops, dbVars, cmsg, runVars, ctxVars>>

\* The first lock section claims the stop and copies the session id.
StopBegin(c) ==
    /\ cpc[c] = "ready"
    /\ MayStop
    /\ state' = "stopping"
    /\ csid' = [csid EXCEPT ![c] = sessionID]
    /\ cpc' = [cpc EXCEPT ![c] = "cancel"]
    /\ UNCHANGED <<sessionID, errorMessage, cancel, drops, dbVars, cmsg,
                   runVars, ctxVars>>

\* Mutant: the session is marked as ended without waiting for its stages.
StopCancelWithoutWait(c) ==
    /\ cpc[c] = "cancel"
    /\ cancelled' = [i \in Session |-> cancelled[i] \/ i = cancel]
    /\ cpc' = [cpc EXCEPT ![c] = "end"]
    /\ UNCHANGED <<lockVars, cancel, drops, dbVars, csid, cmsg, runVars,
                   alive, over, readIDs>>

\* s.cancel() is called, outside the lock, unless it is nil.
StopCancel(c) ==
    /\ cpc[c] = "cancel"
    /\ cancelled' = [i \in Session |-> cancelled[i] \/ i = cancel]
    /\ cpc' = [cpc EXCEPT ![c] = "wait"]
    /\ UNCHANGED <<lockVars, cancel, drops, dbVars, csid, cmsg, runVars,
                   alive, over, readIDs>>

\* Mutant: only the capture and processor goroutines are counted.
WaitGroupIgnoresAggregator == \A i \in Session : alive[i] \subseteq {"aggregator"}

\* The counter of s.wg is zero.
WaitGroupIsZero == \A i \in Session : alive[i] = {}

\* s.wg.Wait() returns once the WaitGroup counts no stage.
StopWait(c) ==
    /\ cpc[c] = "wait"
    /\ WaitGroupIsZero
    /\ cpc' = [cpc EXCEPT ![c] = "end"]
    /\ UNCHANGED <<lockVars, cancel, drops, dbVars, csid, cmsg, runVars, ctxVars>>

\* EndSession marks the row ended, or fails, which is ignored.
StopEnd(c) ==
    /\ cpc[c] = "end"
    /\ rows' \in {rows, [rows EXCEPT ![csid[c]] = "ended"]}
    /\ cpc' = [cpc EXCEPT ![c] = "finish"]
    /\ UNCHANGED <<lockVars, cancel, drops, lastID, csid, cmsg, runVars, ctxVars>>

\* The value of s.sessionID outside a session.
ResetSession == NoSession

\* The second lock section releases the service.
StopFinish(c) ==
    /\ cpc[c] = "finish"
    /\ state' = "idle"
    /\ sessionID' = ResetSession
    /\ cpc' = [cpc EXCEPT ![c] = "status"]
    /\ UNCHANGED <<errorMessage, cancel, drops, dbVars, csid, cmsg, runVars, ctxVars>>

\* CaptureStatus() is evaluated for the final event ...
StopReadStatus(c) ==
    /\ cpc[c] = "status"
    /\ cmsg' = [cmsg EXCEPT ![c] = CaptureStatus]
    /\ cpc' = [cpc EXCEPT ![c] = "emit"]
    /\ UNCHANGED <<lockVars, cancel, drops, dbVars, csid, runVars, ctxVars>>

\* ... which is emitted after the read lock is gone.
StopEmit(c) ==
    /\ cpc[c] = "emit"
    /\ cpc' = [cpc EXCEPT ![c] = "ready"]
    /\ csid' = [csid EXCEPT ![c] = NoSession]
    /\ cmsg' = [cmsg EXCEPT ![c] = NoStatus]
    /\ UNCHANGED <<lockVars, cancel, drops, dbVars, runVars, ctxVars>>

-------------------------------------------------------------------------------
(* runPipeline of session i *)

RunGoto(i, pc) == rpc' = [rpc EXCEPT ![i] = pc]

\* Mutant: the cancel function is kept in a local variable only.
CancelNotStored(i) == cancel

\* s.cancel = cancel.
CancelStored(i) == i

\* The context is created and its cancel function stored in s.cancel, no lock held.
RunContext(i) ==
    /\ rpc[i] = "context"
    /\ cancel' = CancelStored(i)
    /\ RunGoto(i, "open")
    /\ UNCHANGED <<lockVars, drops, dbVars, callVars, rmsg, ctxVars>>

\* NewLiveHandle opens the interface, or fails.
RunOpen(i) ==
    /\ rpc[i] = "open"
    /\ \/ RunGoto(i, "capture")
       \/ RunGoto(i, "fail")
    /\ UNCHANGED <<lockVars, cancel, drops, dbVars, callVars, rmsg, ctxVars>>

\* Mutant: a failed open is only emitted.
RunFailUnmarked(i) ==
    /\ rpc[i] = "fail"
    /\ RunGoto(i, "failstatus")
    /\ UNCHANGED <<lockVars, cancel, drops, dbVars, callVars, rmsg, ctxVars>>

\* The lock section after a failed open.
RunFail(i) ==
    /\ rpc[i] = "fail"
    /\ state' = "error"
    /\ errorMessage' = "open"
    /\ RunGoto(i, "failstatus")
    /\ UNCHANGED <<sessionID, cancel, drops, dbVars, callVars, rmsg, ctxVars>>

\* What runPipeline does after it has launched a stage.
AfterLaunch == [capture |-> "processor", processor |-> "aggregator", aggregator |-> "running"]

\* s.wg.Add(1) and the go statement, one stage after the other.  The Aggregator
\* is created with the session id read from s, no lock held.
RunLaunch(i) ==
    /\ rpc[i] \in Stages
    /\ alive' = [alive EXCEPT ![i] = @ \cup {rpc[i]}]
    /\ RunGoto(i, AfterLaunch[rpc[i]])
    /\ readIDs' = IF rpc[i] = "aggregator"
                  THEN [readIDs EXCEPT ![i] = @ \cup {sessionID}] ELSE readIDs
    /\ UNCHANGED <<lockVars, cancel, drops, dbVars, callVars, rmsg,
                   cancelled, over>>

\* The lock section that sets StateRunning, whatever the state is by then.
RunRunning(i) ==
    /\ rpc[i] = "running"
    /\ state' = "running"
    /\ RunGoto(i, "status")
    /\ UNCHANGED <<sessionID, errorMessage, cancel, drops, dbVars, callVars, rmsg,
                   ctxVars>>

\* CaptureStatus() is evaluated for the status event ...
RunReadStatus(i) ==
    /\ rpc[i] \in {"status", "failstatus"}
    /\ rmsg' = [rmsg EXCEPT ![i] = CaptureStatus]
    /\ RunGoto(i, IF rpc[i] = "status" THEN "emit" ELSE "failemit")
    /\ UNCHANGED <<lockVars, cancel, drops, dbVars, callVars, ctxVars>>

\* ... which is emitted later; after a failed open runPipeline then returns,
\* and the deferred cancel() runs.
RunEmit(i) ==
    /\ rpc[i] \in {"emit", "failemit"}
    /\ rmsg' = [rmsg EXCEPT ![i] = NoStatus]
    /\ RunGoto(i, IF rpc[i] = "emit" THEN "block" ELSE "returned")
    /\ cancelled' = [cancelled EXCEPT ![i] = @ \/ rpc[i] = "failemit"]
    /\ UNCHANGED <<lockVars, cancel, drops, dbVars, callVars, alive, over, readIDs>>

\* <-ctx.Done() lets runPipeline return.
RunReturn(i) ==
    /\ rpc[i] = "block"
    /\ cancelled[i]
    /\ RunGoto(i, "returned")
    /\ UNCHANGED <<lockVars, cancel, drops, dbVars, callVars, rmsg, ctxVars>>

-------------------------------------------------------------------------------
(* The stages of session i *)

\* The capture loop counts a packet it could not send.
StageDrop(i) ==
    /\ "capture" \in alive[i]
    /\ drops' = drops \cup {i}
    /\ UNCHANGED <<lockVars, cancel, dbVars, callVars, runVars, ctxVars>>

\* onSnapshot: every write of a snapshot, host or alert carries the session id
\* read from s, no lock held.
StageSnapshot(i) ==
    /\ "aggregator" \in alive[i]
    /\ readIDs' = [readIDs EXCEPT ![i] = @ \cup {sessionID}]
    /\ UNCHANGED <<lockVars, cancel, drops, dbVars, callVars, runVars,
                   alive, cancelled, over>>

\* The capture loop ends on a NextPacket error.
StageFail(i) ==
    /\ "capture" \in alive[i]
    /\ ~over[i]
    /\ over' = [over EXCEPT ![i] = TRUE]
    /\ UNCHANGED <<lockVars, cancel, drops, dbVars, callVars, runVars,
                   alive, cancelled, readIDs>>

\* Mutant: a stage may return on its own.
MayLeaveAnytime(i) == TRUE

\* The contract of StageGroup: what makes the stages of session i return.
MayLeave(i) == cancelled[i] \/ over[i]

\* A stage returns and its deferred s.wg.Done() runs.
StageLeave(i, s) ==
    /\ s \in alive[i]
    /\ MayLeave(i)
    /\ alive' = [alive EXCEPT ![i] = @ \ {s}]
    /\ UNCHANGED <<lockVars, cancel, drops, dbVars, callVars, runVars,
                   cancelled, over, readIDs>>

-------------------------------------------------------------------------------

\* The steps of a call that has begun.
StartStep(c) == \/ StartInsert(c) \/ StartInsertFails(c) \/ StartFail(c)
                \/ StartPublish(c) \/ StartSpawn(c)
StopStep(c)  == \/ StopCancel(c) \/ StopWait(c) \/ StopEnd(c) \/ StopFinish(c)
                \/ StopReadStatus(c) \/ StopEmit(c)

\* A call of the frontend.
Request(c) == StartRefused(c) \/ StartBegin(c) \/ StopRefused(c) \/ StopBegin(c)

RunStep(i) == \/ RunContext(i) \/ RunOpen(i) \/ RunFail(i) \/ RunLaunch(i)
              \/ RunRunning(i) \/ RunReadStatus(i) \/ RunEmit(i) \/ RunReturn(i)

StageStep(i) == StageDrop(i) \/ StageSnapshot(i) \/ StageFail(i)

Next == \/ \E c \in Clients : Request(c) \/ StartStep(c) \/ StopStep(c)
        \/ \E i \in Session : RunStep(i) \/ StageStep(i)
        \/ \E i \in Session, s \in Stages : StageLeave(i, s)

(***************************************************************************)
(* A goroutine that can run does run: calls that have begun go on, the     *)
(* database answers, and the stages leave as CapturePipeline shows they    *)
(* do.  Nobody has to click, and nothing has to go wrong.                  *)
(***************************************************************************)
Fairness ==
    /\ \A c \in Clients : WF_vars(StartStep(c)) /\ WF_vars(StopStep(c))
    /\ \A i \in Session : WF_vars(RunStep(i))
    /\ \A i \in Session, s \in Stages : WF_vars(StageLeave(i, s))

Spec == Init /\ [][Next]_vars
FairSpec == Spec /\ Fairness

-------------------------------------------------------------------------------
(* Properties *)

\* Every variable has the values its declaration promises.
TypeOK ==
    /\ state \in State /\ errorMessage \in Failure
    /\ sessionID \in Session \cup {NoSession}
    /\ cancel \in Session \cup {NoSession}
    /\ drops \subseteq Session
    /\ rows \in [Session -> {"absent", "open", "ended"}]
    /\ lastID \in 0..MaxSessions
    /\ cpc \in [Clients -> CallPC]
    /\ csid \in [Clients -> Session \cup {NoSession}]
    /\ cmsg \in [Clients -> Status]
    /\ rpc \in [Session -> RunPC]
    /\ rmsg \in [Session -> Status]
    /\ alive \in [Session -> SUBSET Stages]
    /\ cancelled \in [Session -> BOOLEAN]
    /\ over \in [Session -> BOOLEAN]
    /\ readIDs \in [Session -> SUBSET (Session \cup {NoSession})]

\* The runPipeline of session i will still store s.cancel, launch a stage or set the state.
Launching(i) == rpc[i] \in {"context", "open", "fail", "capture", "processor",
                            "aggregator", "running"}

\* When no capture is at work nothing of an earlier one can still act on the
\* service: no stage of any session runs, no runPipeline will launch one, and none
\* will overwrite the state, so that the next StartCapture finds it to itself.
IdleMeansQuiet ==
    state \in {"idle", "error"} => \A i \in Session : alive[i] = {} /\ ~Launching(i)

\* The stages of two sessions never run at the same time, although StartCapture
\* does not wait for the runPipeline of the session before.
OnePipelineAtATime ==
    \A i, j \in Session : i # j => \/ alive[i] = {} /\ ~Launching(i)
                                   \/ alive[j] = {} /\ ~Launching(j)

\* What the goroutines of a session read from s.sessionID without the lock is
\* always their own session, and its row is open as long as they write to it.
WritesGoToOwnSession ==
    \A i \in Session : /\ readIDs[i] \subseteq {i}
                       /\ alive[i] # {} => sessionID = i /\ rows[i] = "open"

\* The function StopCapture reads from s.cancel without the lock cancels the
\* context of the session it is about to wait for and to mark as ended.
StopCancelsItsSession ==
    \A c \in Clients : cpc[c] = "cancel" => /\ cancel = csid[c]
                                            /\ csid[c] = sessionID
                                            /\ sessionID # NoSession

\* A running capture can be stopped: its context is live, s.cancel belongs to it
\* and its runPipeline will see the cancellation.
RunningIsStoppable ==
    state = "running" => /\ sessionID # NoSession
                         /\ cancel = sessionID
                         /\ ~cancelled[sessionID]
                         /\ rpc[sessionID] \in {"status", "emit", "block"}

\* s.wg.Wait() covers the whole pipeline: no stage is added while StopCapture
\* waits or after it has waited.
NoLaunchDuringStop ==
    \A c \in Clients : cpc[c] \in {"cancel", "wait", "end", "finish"} =>
        /\ \A i \in Session : ~Launching(i)
        /\ cpc[c] \in {"end", "finish"} => \A i \in Session : alive[i] = {}

\* At most one call works on the service: the others are refused or only report.
OneCallInCharge ==
    \A c, d \in Clients :
        cpc[c] \notin {"ready", "status", "emit"} /\ cpc[d] \notin {"ready", "status", "emit"}
            => c = d

\* Overflow drops are counted for the session whose status shows them.
DropsOfCurrentSession == sessionID # NoSession => drops \subseteq {sessionID}

\* A row is marked ended only when the session's pipeline is over and cancelled.
EndedMeansOver ==
    \A i \in Session : rows[i] = "ended" => alive[i] = {} /\ ~Launching(i) /\ cancelled[i]

\* StartCapture is followed by a verdict, which the frontend waits for.
StartSettles == state = "starting" ~> state \in {"running", "error"}

\* StopCapture returns to idle: wg.Wait() does not hang on a stage.
StopSettles == state = "stopping" ~> state = "idle"

\* A stage is never relaunched, leaves only after its context or its capture
\* loop is over, and contexts stay cancelled: what CapturePipeline implements.
NotLaunched(i) ==
    CASE rpc[i] = "processor"  -> {"processor", "aggregator"}
      [] rpc[i] = "aggregator" -> {"aggregator"}
      [] rpc[i] \in {"running", "status", "emit", "block"} -> {}
      [] rpc[i] = "returned" -> IF readIDs[i] = {} THEN Stages ELSE {}
      [] OTHER -> Stages
Unreturned(i) == alive[i] \cup NotLaunched(i)
Group(i) == INSTANCE StageGroup WITH alive <- Unreturned(i),
                                     cancelled <- cancelled[i], over <- over[i]
GroupsStep == \A i \in Session : [Group(i)!Next]_(Group(i)!vars)
StagesKeepContract == [][GroupsStep]_vars

\* What the frontend relies on (CaptureLifecycle).  Every state is set by the one
\* goroutine that may leave the state before, although no lock section but the
\* first of a call looks at what it overwrites, and every report follows.
CallAs(pc) == CASE pc \in {"insert", "refuse", "publish"} -> "create"
                [] pc \in {"cancel", "wait", "end", "finish"} -> "stop"
                [] pc = "status" -> "report"
                [] pc = "emit"   -> "ready"
                [] OTHER -> pc
RunAs(pc)  == CASE pc = "none" -> "none"
                [] pc \in {"status", "failstatus"} -> "report"
                [] pc \in {"emit", "failemit", "block", "returned"} -> "over"
                [] OTHER -> "opening"
CallSeen == [c \in Clients |-> CallAs(cpc[c])]
RunSeen  == [i \in Session |-> RunAs(rpc[i])]
Life == INSTANCE CaptureLifecycle WITH call <- CallSeen, run <- RunSeen
ImplementsLifecycle == Life!LifeInit /\ [][Life!LifeNext]_(Life!lifeVars)

-------------------------------------------------------------------------------
(* The inductive invariant: who is in charge of the service in which state *)

StartPC == {"insert", "refuse", "publish", "spawn"}
StopPC  == {"cancel", "wait", "end", "finish"}
Quiet(i) == alive[i] = {} /\ ~Launching(i)

\* A StartCapture at work has found the service quiet, and the row it created
\* belongs to no pipeline yet.
StartHolds(c) ==
    /\ state = "starting"
    /\ \A i \in Session : Quiet(i)
    /\ cpc[c] = "insert" => lastID < MaxSessions
    /\ cpc[c] \in {"publish", "spawn"} =>
          /\ csid[c] = lastID /\ csid[c] \in Session /\ rows[csid[c]] = "open"
          /\ rpc[csid[c]] = "none" /\ ~cancelled[csid[c]] /\ readIDs[csid[c]] = {}
    /\ cpc[c] = "spawn" => sessionID = csid[c]

\* A StopCapture at work stops the current session and nothing is being launched.
StopHolds(c) ==
    /\ state = "stopping"
    /\ csid[c] = sessionID /\ sessionID # NoSession /\ cancel = sessionID
    /\ \A i \in Session : ~Launching(i)
    /\ cpc[c] # "cancel" => cancelled[sessionID]
    /\ cpc[c] \in {"end", "finish"} => \A i \in Session : alive[i] = {}

\* A runPipeline that launches its stages is the only goroutine at work.
LaunchHolds(i) ==
    /\ state = "starting" /\ sessionID = i
    /\ \A c \in Clients : cpc[c] \notin StartPC \cup StopPC
    /\ \A j \in Session : j # i => Quiet(j)
    /\ rpc[i] # "context" => cancel = i
    /\ rpc[i] \in {"context", "open", "fail", "capture"} => alive[i] = {}
    /\ ~cancelled[i] /\ rows[i] = "open"

StartInCharge  == \A c \in Clients : cpc[c] \in StartPC => StartHolds(c)
StopInCharge   == \A c \in Clients : cpc[c] \in StopPC => StopHolds(c)
LaunchInCharge == \A i \in Session : Launching(i) => LaunchHolds(i)

\* Stages run for the current session only.
StagesAreCurrent ==
    \A i \in Session : alive[i] # {} =>
        /\ sessionID = i /\ rows[i] = "open"
        /\ state \in {"running", "stopping"} \/ Launching(i)

\* Ids that InsertSession has not handed out yet.
FreshIDs ==
    /\ sessionID <= lastID
    /\ \A i \in Session : i > lastID =>
           /\ rows[i] = "absent" /\ rpc[i] = "none" /\ alive[i] = {}
           /\ ~cancelled[i] /\ readIDs[i] = {}

\* An error is explained.
ErrorHasMessage == state = "error" => errorMessage # "none"

\* Who is at work in which state.
Charge == OneCallInCharge /\ StartInCharge /\ StopInCharge /\ LaunchInCharge

\* What the fields, the table and the goroutines say of each other.
Records == /\ StagesAreCurrent /\ FreshIDs /\ RunningIsStoppable /\ WritesGoToOwnSession
           /\ DropsOfCurrentSession /\ EndedMeansOver /\ ErrorHasMessage

Core == TypeOK /\ Charge /\ Records

\* Only stages that have been launched run, and the Aggregator has read the session's
\* id when it was.
StagesInOrder == \A i \in Session : /\ alive[i] \cap NotLaunched(i) = {}
                                    /\ readIDs[i] = {} <=> "aggregator" \in NotLaunched(i)

Inv == Core /\ StagesInOrder

-------------------------------------------------------------------------------
(* What the repository says of the service, and the code does not do *)

\* A call or a goroutine of the service is at work.
Busy == \/ \E c \in Clients : cpc[c] # "ready"
        \/ \E i \in Session : rpc[i] \notin {"none", "returned"} \/ alive[i] # {}

\* capture_service.go:63: the reply of a refused StartCapture is "capture already
\* running or starting".
RefusalIsTruthful == state # "idle" => Busy

\* capture_service.go:166-167: runPipeline "blocks until context cancellation or
\* an error occurs".
ErrorEndsPipeline == \A i \in Session : over[i] ~> rpc[i] = "returned"
===============================================================================
