--------------------------- MODULE CaptureLifecycle ---------------------------
(***************************************************************************)
(* What the frontend can rely on of the CaptureService: who may change the *)
(* state and the session, in which order, and which changes a report of    *)
(* the status follows: the verdict of runPipeline and the end of a         *)
(* StopCapture.  What StartCapture does to the state is answered to its    *)
(* caller only, and that a stop has begun is not reported.  Contexts,      *)
(* stages, wait groups and the database are left out; CaptureService       *)
(* implements this specification and CaptureUI is built on it.             *)
(***************************************************************************)
EXTENDS Naturals

CONSTANTS Clients,     \* the goroutines that run the frontend's calls
          MaxSessions  \* bound: sessions that StartCapture creates

ASSUME LifecycleAssumption == MaxSessions \in Nat

Session   == 1..MaxSessions
NoSession == 0
State     == {"idle", "starting", "running", "stopping", "error"}
Status    == [state : State, sessionID : Session \cup {NoSession}]

VARIABLES
    state, sessionID,  \* the fields guarded by s.mu
    call,              \* where the call of each client is
    run                \* where the runPipeline of each session is

lifeVars == <<state, sessionID, call, run>>

CallAt == {"ready", "create", "spawn", "stop", "report"}
RunAt  == {"none", "opening", "report", "over"}

CaptureStatus == [state |-> state, sessionID |-> sessionID]
NoStatus == [state |-> "idle", sessionID |-> NoSession]

LifeInit ==
    /\ state = "idle" /\ sessionID = NoSession
    /\ call = [c \in Clients |-> "ready"]
    /\ run = [i \in Session |-> "none"]

-------------------------------------------------------------------------------

\* Mutant: a running capture alone keeps StartCapture out.
MayStartUnlessRunning == state # "running"

\* The check of StartCapture, and the one of StopCapture.
MayStart == state = "idle"
MayStop  == state = "running"

\* Client c's call goes on from one place to another; no pipeline takes part.
CallMoves(c, from, to) ==
    /\ call[c] = from
    /\ call' = [call EXCEPT ![c] = to]
    /\ UNCHANGED run

\* A session that has not been current yet, nor has any after it.
Fresh(i) == \A j \in Session : j >= i => run[j] = "none"

\* StartCapture claims the service ...
Claim(c) ==
    /\ CallMoves(c, "ready", "create")
    /\ MayStart
    /\ \E i \in Session : Fresh(i)
    /\ state' = "starting"
    /\ UNCHANGED sessionID

\* ... creates a session and makes it the current one ...
Publish(c) ==
    /\ CallMoves(c, "create", "spawn")
    /\ \E i \in Session : Fresh(i) /\ sessionID' = i
    /\ UNCHANGED state

\* ... or cannot and reports an error to its caller ...
StartFails(c) ==
    /\ CallMoves(c, "create", "ready")
    /\ state' = "error"
    /\ UNCHANGED sessionID

\* ... and returns, its pipeline on its way.
Spawn(c) ==
    /\ call[c] = "spawn" /\ sessionID # NoSession
    /\ call' = [call EXCEPT ![c] = "ready"]
    /\ run' = [run EXCEPT ![sessionID] = "opening"]
    /\ UNCHANGED <<state, sessionID>>

\* StopCapture claims the running session ...
ClaimStop(c) ==
    /\ CallMoves(c, "ready", "stop")
    /\ MayStop
    /\ state' = "stopping"
    /\ UNCHANGED sessionID

\* ... and releases the service when its pipeline is over.
Finish(c) ==
    /\ CallMoves(c, "stop", "report")
    /\ state = "stopping"
    /\ state' = "idle" /\ sessionID' = NoSession

\* The pipeline of the current session is up, or could not be opened.
Opened(i) ==
    /\ run[i] = "opening"
    /\ state = "starting" /\ sessionID = i
    /\ state' \in {"running", "error"}
    /\ run' = [run EXCEPT ![i] = "report"]
    /\ UNCHANGED <<sessionID, call>>

\* The status is read, and on its way to the frontend from then on.
ReportByCall(c) == CallMoves(c, "report", "ready") /\ UNCHANGED <<state, sessionID>>

ReportByRun(i) ==
    /\ run[i] = "report"
    /\ run' = [run EXCEPT ![i] = "over"]
    /\ UNCHANGED <<state, sessionID, call>>

LifeNext ==
    \/ \E c \in Clients : \/ Claim(c) \/ Publish(c) \/ StartFails(c) \/ Spawn(c)
                          \/ ClaimStop(c) \/ Finish(c) \/ ReportByCall(c)
    \/ \E i \in Session : Opened(i) \/ ReportByRun(i)

LifeSpec == LifeInit /\ [][LifeNext]_lifeVars
===============================================================================
