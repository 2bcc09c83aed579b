------------------------------- MODULE CaptureUI -------------------------------
(***************************************************************************)
(* CaptureUI: the page of the application and the service behind it.  The  *)
(* page sends StartCapture and StopCapture requests, polls the status once *)
(* at startup, takes over every status event, and lets each of its views   *)
(* ask the database again and again for the rows of the session in the     *)
(* status.  Requests, answers and events travel on their own: nothing      *)
(* keeps them in the order in which they were sent.  The service behaves   *)
(* as CaptureLifecycle says.                                               *)
(***************************************************************************)
EXTENDS CaptureLifecycle, SequencesExt

CONSTANTS Views,    \* the views that show rows of the current session
          MaxLoads  \* bound: unanswered loads of a view for a session

ASSUME UIAssumption == MaxLoads \in Nat \ {0}

VARIABLES
    status,    \* the status in the store of the page
    request,   \* per client: the request the page has sent and is not done with
    poll,      \* the poll of the status at startup: "asked", "answered" or "done"
    pollMsg,   \* its answer
    events,    \* the status events emitted and not delivered
    key,       \* per view: the session its effect has last run for
    loads,     \* per view and session: loads that are not answered
    rows,      \* per view: the session whose rows it holds, NoSession for none
    overtaken  \* history: the store has changed under a request on its way, or a
               \* button was pressed before the poll was answered

storeVars == <<status, poll, pollMsg>>
viewVars  == <<key, loads, rows>>
vars == <<lifeVars, storeVars, request, events, viewVars, overtaken>>

\* Where the request of a client is: on its way to the service, accepted there, or
\* turned into an error that is on its way back.
Request == {"none", "start", "stop", "accepted", "failed"}

Init ==
    /\ LifeInit
    /\ status = NoStatus /\ poll = "asked" /\ pollMsg = NoStatus
    /\ request = [c \in Clients |-> "none"]
    /\ events = <<>>
    /\ key = [v \in Views |-> NoSession]
    /\ loads = [v \in Views |-> [i \in Session |-> 0]]
    /\ rows = [v \in Views |-> NoSession]
    /\ overtaken = FALSE

-------------------------------------------------------------------------------
(* Buttons and requests *)

Sends(c, what) ==
    /\ request[c] = "none"
    /\ request' = [request EXCEPT ![c] = what]
    /\ overtaken' = (overtaken \/ poll # "done")
    /\ UNCHANGED <<lifeVars, storeVars, events, viewVars>>

\* Mutant: the Start button stays when a capture runs.
OffersStartUnlessError == status.state # "error"

\* The buttons that the page shows.
OffersStart == status.state = "idle"
OffersStop  == status.state = "running"

\* A start that may still create a session: the bound leaves one for each.
Starts == {c \in Clients : request[c] = "start" \/ call[c] = "create"}

ClickStart(c) ==
    /\ OffersStart
    /\ Cardinality(Starts) < Cardinality({i \in Session : Fresh(i) /\ i # sessionID})
    /\ Sends(c, "start")

ClickStop(c) == OffersStop /\ Sends(c, "stop")

\* The request goes on to another place, "none" once the page is done with it.
RequestMoves(c, from, to) ==
    /\ request[c] = from
    /\ request' = [request EXCEPT ![c] = to]

\* A request reaches the service.
Arrives(c, from, to) ==
    /\ RequestMoves(c, from, to)
    /\ UNCHANGED <<storeVars, events, viewVars, overtaken>>

StartArrives(c) ==
    \/ Arrives(c, "start", "accepted") /\ Claim(c)
    \/ Arrives(c, "start", "failed") /\ ~MayStart /\ UNCHANGED lifeVars

\* The error of a refused StopCapture is logged and nothing else.
StopArrives(c) ==
    \/ Arrives(c, "stop", "accepted") /\ ClaimStop(c)
    \/ Arrives(c, "stop", "none") /\ ~MayStop /\ UNCHANGED lifeVars

\* The store takes over a status.
Shows(m) ==
    /\ status' = m
    /\ overtaken' = (overtaken \/ \E c \in Clients : request'[c] \in {"start", "stop"})

\* Mutant: the error of a StartCapture is logged and nothing else.
ErrorLogged == status

\* The store's status when a StartCapture has failed.
ErrorStatus == [NoStatus EXCEPT !.state = "error"]

\* The page learns that its StartCapture has failed.
StartRejected(c) ==
    /\ RequestMoves(c, "failed", "none")
    /\ Shows(ErrorStatus)
    /\ UNCHANGED <<lifeVars, poll, pollMsg, events, viewVars>>

-------------------------------------------------------------------------------
(* The service at work on the requests *)

\* A step that the page does not notice.
Unnoticed(c) ==
    /\ Publish(c) \/ Finish(c)
    /\ UNCHANGED <<storeVars, request, events, viewVars, overtaken>>

\* StartCapture returns, with an error or with nil.
StartReturns(c) ==
    /\ \/ StartFails(c) /\ RequestMoves(c, "accepted", "failed")
       \/ Spawn(c) /\ RequestMoves(c, "accepted", "none")
    /\ UNCHANGED <<storeVars, events, viewVars, overtaken>>

\* A report of the service goes on its way, with the status it has read.
Emits == events' = Append(events, CaptureStatus)

\* StopCapture emits its event and returns.
StopReturns(c) ==
    /\ ReportByCall(c) /\ Emits
    /\ RequestMoves(c, "accepted", "none")
    /\ UNCHANGED <<storeVars, viewVars, overtaken>>

PipelineStep(i) ==
    /\ \/ Opened(i) /\ UNCHANGED events
       \/ ReportByRun(i) /\ Emits
    /\ UNCHANGED <<storeVars, request, viewVars, overtaken>>

-------------------------------------------------------------------------------
(* The store *)

\* The poll is answered by the service ...
PollRead ==
    /\ poll = "asked"
    /\ poll' = "answered" /\ pollMsg' = CaptureStatus
    /\ UNCHANGED <<lifeVars, status, request, events, viewVars, overtaken>>

\* ... and its answer put in the store.
PollAnswered ==
    /\ poll = "answered"
    /\ poll' = "done" /\ pollMsg' = NoStatus
    /\ UNCHANGED <<lifeVars, request, events, viewVars>>
    /\ Shows(pollMsg)

\* Any event on its way may be the next to be delivered.
Deliver ==
    /\ UNCHANGED <<lifeVars, poll, pollMsg, request, viewVars>>
    /\ \E n \in DOMAIN events : events' = RemoveAt(events, n) /\ Shows(events[n])

-------------------------------------------------------------------------------
(* The views *)

\* A view asks for the rows of session i.
Asks(v, i) ==
    /\ loads[v][i] < MaxLoads
    /\ loads' = [loads EXCEPT ![v][i] = @ + 1]

\* React runs the effect of a view some time after the session has changed: the old
\* interval is cleared, the rows are cleared or the first load is made.
Effect(v) ==
    /\ key[v] # status.sessionID
    /\ key' = [key EXCEPT ![v] = status.sessionID]
    /\ IF status.sessionID = NoSession
       THEN rows' = [rows EXCEPT ![v] = NoSession] /\ UNCHANGED loads
       ELSE Asks(v, status.sessionID) /\ UNCHANGED rows
    /\ UNCHANGED <<lifeVars, storeVars, request, events, overtaken>>

\* Mutant: the interval of the first session goes on.
PolledFirst(v) == IF rows[v] = NoSession THEN key[v] ELSE rows[v]

\* The session whose rows the interval of a view asks for.
Polled(v) == key[v]

\* The interval of a view asks again.
Interval(v) ==
    /\ key[v] # NoSession
    /\ Asks(v, Polled(v))
    /\ UNCHANGED <<lifeVars, storeVars, request, events, key, rows, overtaken>>

\* A load is answered, whichever session the view is at by then, or fails.
Answer(v, i) ==
    /\ loads[v][i] > 0
    /\ loads' = [loads EXCEPT ![v][i] = @ - 1]
    /\ rows' \in {rows, [rows EXCEPT ![v] = i]}
    /\ UNCHANGED <<lifeVars, storeVars, request, events, key, overtaken>>

\* A load is answered with rows.
Rows(v, i) == Answer(v, i) /\ rows'[v] = i

-------------------------------------------------------------------------------

ClientStep(c) == \/ StartArrives(c) \/ StopArrives(c) \/ StartRejected(c)
                 \/ Unnoticed(c) \/ StartReturns(c) \/ StopReturns(c)

Next ==
    \/ \E c \in Clients : ClickStart(c) \/ ClickStop(c) \/ ClientStep(c)
    \/ \E i \in Session : PipelineStep(i)
    \/ PollRead \/ PollAnswered \/ Deliver
    \/ \E v \in Views : Effect(v) \/ Interval(v) \/ \E i \in Session : Answer(v, i)

(***************************************************************************)
(* Requests, answers and events arrive, goroutines and effects run,        *)
(* intervals fire.  A load is answered in the end, and a session's loads   *)
(* do not all fail for ever.  Nobody has to click.                         *)
(***************************************************************************)
Fairness ==
    /\ \A c \in Clients : WF_vars(ClientStep(c))
    /\ \A i \in Session : WF_vars(PipelineStep(i))
    /\ WF_vars(PollRead) /\ WF_vars(PollAnswered) /\ WF_vars(Deliver)
    /\ \A v \in Views : /\ WF_vars(Effect(v)) /\ WF_vars(Interval(v))
                        /\ \A i \in Session : SF_vars(Rows(v, i))

Spec == Init /\ [][Next]_vars
FairSpec == Spec /\ Fairness

-------------------------------------------------------------------------------
(* Properties *)

\* Every variable has the values its declaration promises.
TypeOK ==
    /\ state \in State /\ sessionID \in Session \cup {NoSession}
    /\ call \in [Clients -> CallAt]
    /\ run \in [Session -> RunAt]
    /\ status \in Status /\ request \in [Clients -> Request]
    /\ poll \in {"asked", "answered", "done"} /\ pollMsg \in Status
    /\ events \in Seq(Status)
    /\ key \in [Views -> Session \cup {NoSession}]
    /\ loads \in [Views -> [Session -> 0..MaxLoads]]
    /\ rows \in [Views -> Session \cup {NoSession}]
    /\ overtaken \in BOOLEAN

\* Nothing is under way between the page and the service.
Quiet ==
    /\ \A c \in Clients : request[c] = "none" /\ call[c] = "ready"
    /\ \A i \in Session : run[i] \in {"none", "over"}
    /\ events = <<>> /\ poll = "done"

\* Once nothing is under way the status in the store is the one of the service, so
\* that Start is offered when it would be accepted and Stop for the session it
\* would stop, or it is an error that one can read.  Pressing a button twice does
\* not change that, nor that events are delivered in any order: the page offers
\* the next request only after the event of the one before.
ButtonsTellTheTruth ==
    Quiet /\ ~overtaken => status = CaptureStatus \/ status.state = "error"

\* A press of Start is answered: the page shows the capture running or an error,
\* whichever of two presses was the one the service accepted.
StartIsAnswered ==
    (~overtaken /\ \E c \in Clients : request[c] = "start")
        ~> (overtaken \/ status.state \in {"running", "error"})

\* Once the user has started the last capture, a view with a session shows the
\* rows of that session in the end and for good, although answers of the session
\* before may arrive after its own.
ViewsCatchUp ==
    <>[](\A v \in Views : status.sessionID # NoSession => rows[v] = status.sessionID)

-------------------------------------------------------------------------------
(* The inductive invariant: what every press of a button finds *)

Active(i)   == run[i] \in {"opening", "report"}
Underway    == (\E c \in Clients : call[c] # "ready") \/ \E i \in Session : Active(i)
Outstanding == Underway \/ events # <<>>

\* At most one call or pipeline is at work, and none before the event of the one
\* before is delivered.
OneAtATime ==
    /\ \A c, d \in Clients : call[c] # "ready" /\ call[d] # "ready" => c = d
    /\ \A i, j \in Session : Active(i) /\ Active(j) => i = j
    /\ \A c \in Clients, i \in Session : Active(i) => call[c] = "ready"
    /\ Underway => events = <<>>
    /\ events = <<>> \/ events = <<CaptureStatus>>

\* The state says who is at work.
StateTells ==
    /\ state \in {"starting", "stopping"} => Underway
    /\ \A c \in Clients : /\ call[c] \in {"create", "spawn"} => state = "starting"
                          /\ call[c] = "stop" => state = "stopping"
                          /\ call[c] = "report" => state = "idle"
    /\ \A i \in Session : /\ run[i] = "opening" => state = "starting"
                          /\ run[i] = "report" => state \in {"running", "error"}

\* The store is one event behind the service while something is outstanding, and
\* requests on their way were made under the status that is still shown.
StoreFollows ==
    /\ \A c \in Clients : /\ request[c] = "start" => status.state = "idle"
                          /\ request[c] = "stop" => status.state = "running"
    /\ Outstanding =>
          status.state \in IF state \in {"starting", "running", "error"} THEN {"idle", "error"}
                                                                       ELSE {"running", "error"}
    /\ ~Outstanding =>
          \/ status = CaptureStatus \/ status.state = "error"
          \/ state = "error" /\ status.state = "idle" /\ \E c \in Clients : request[c] = "failed"

\* Nothing has happened before the poll is answered.
PollIsFirst ==
    poll # "done" => /\ state = "idle" /\ status = CaptureStatus /\ ~Outstanding
                     /\ poll = "answered" => pollMsg = CaptureStatus
                     /\ \A c \in Clients : request[c] = "none"

Orderly == OneAtATime /\ StateTells /\ StoreFollows /\ PollIsFirst

Inv == TypeOK /\ (~overtaken => Orderly)

-------------------------------------------------------------------------------
(* What the repository says of the page, and the code does not do *)

\* types.go:500-501: the status is "kept up to date via vaneesa:status events".
\* Once nothing is under way a running capture is shown as running.
RunningIsShown == Quiet /\ state = "running" => status.state = "running"
===============================================================================
