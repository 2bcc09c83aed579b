# Vaneesa in TLA+

Vaneesa is a desktop network monitor: a Go process captures packets from one
interface, condenses them into one snapshot per second, looks for anomalies,
stores the results in SQLite and shows them in a web view.  The specifications
here model the parts of it in which goroutines, calls of the frontend, bounded
channels, cancellation and a failing database or capture device meet.

## 1. The system

| Component | State | Operations | Talks to |
|---|---|---|---|
| `CaptureService` (`capture_service.go`) | `state`, `sessionID`, `errorMessage` under `mu`; `cancel`, `wg`, `overflowDrops` outside it | `StartCapture`, `StopCapture`, `CaptureStatus`, the goroutine `runPipeline`, the callback `onSnapshot` | frontend (calls, events), database, the three stages |
| Capture stage (`internal/capture`) | the handle, the packet in hand | `Handle.Run`: select, `NextPacket`, non-blocking send, deferred close | `packetChan`, `overflowDrops` |
| Processor pool (`internal/processor`) | one packet per worker | `Pool.Run`, `worker`, `decode` | `packetChan`, `parsedChan` |
| Aggregator (`internal/aggregator`) | interval counters, flow table, event slices, rate history | `Run`, `accumulate`, `flush`, `GetActiveFlows` | `parsedChan`, `onSnapshot` |
| Detector (`internal/detector`) | port sets, rate history, known MACs | `New`, `Analyse` with four checks | called by `onSnapshot` |
| Database (`internal/db`) | tables sessions, snapshots, flows, hosts, alerts, settings, schema_migrations | `Open`/`migrate`, inserts, upserts, queries, `DeleteSession` | every service |
| Settings (`settings_service.go`, `store/settings.ts`) | one row; the copy being edited, `isDirty`, `isLoading` | `GetSettings`, `SaveSettings`, `SaveDetectorThresholds`; `loadAll`, `update*`, `save*` | frontend, `onSnapshot` |
| Session, flow, host, alert services | none | one query each | frontend, database |
| Frontend stores and views | copies of status, snapshots, settings; per view the rows it shows and its interval | `startCapture`, `stopCapture`, the poll at startup, event handlers, effects and loads of the views | the services |
| Theme, menu, build scripts | none | glue, packaging | – |

How they interact.  Every call of the frontend runs in a goroutine of its own.
`StartCapture` claims the service under `mu`, inserts a session row, publishes
the session and leaves `runPipeline` behind; `runPipeline` opens the device,
starts the three stages (`wg.Add` three times) and waits for its context.
`StopCapture` cancels the context, waits for `wg`, marks the row as ended and
releases the service.  Capture sends packets without blocking (a full channel
is a counted drop), the workers block on `parsedChan`, and the Aggregator calls
`onSnapshot` synchronously, so that a slow database holds up the whole pipeline
as far as the first channel.  `onSnapshot` reads `s.sessionID` without the lock.
The verdict of `runPipeline` and the end of a `StopCapture` are followed by a status
event, which the page puts in its store; that a start or a stop has begun, or that
no session could be inserted, is not.  The page asks for the status once, at
startup, and its views ask the database every few seconds for the rows of the
session in the status.  The database file may be shared by several instances of the program, each with one
connection.

What is hard here: calls racing with `runPipeline` and with the stages of the
session before; a stop while goroutines are blocked on each other; which packets
a cancellation may lose; a status read under the lock and emitted after it;
cumulative flow counters written with "insert or replace"; database writes that
fail one by one and are ignored; a row inserted before the device is opened; status
events, answers and button presses that cross each other; migrations that stop
in the middle or run twice at once; ids in an old view.
`PROJECT.json` lists these hazards at their lines.

## 2. Modules

| Module | Models |
|---|---|
| `StageGroup` | abstract: what `runPipeline` promises about the goroutines it adds to the WaitGroup |
| `CapturePipeline` | one run of the pipeline: Capture, worker pool, Aggregator, two channels, one context |
| `CaptureService` | the capture lifecycle over all calls, sessions and stages; uses the stages as `StageGroup` says |
| `CaptureLifecycle` | abstract: who may change the service's state and session, and which changes are reported |
| `CaptureUI` | the page: buttons, store, status events, the polling views; composed with `CaptureLifecycle` |
| `Database` | the file: `Open` and `migrate`, sessions, flows and alerts under several instances, crashes and old views |
| `Decoder` | what a worker makes of a frame: `decode` and `decodeDNS` over the layers gopacket has found |
| `FlowTable` | the data of the Aggregator goroutine: counters, flow table, snapshots, rows in flows and hosts |
| `Detector` | the Detectors of a session as `onSnapshot` uses them, one per snapshot, and the flows they are shown |
| `SettingsStore` | the settings row, the SettingsService and the copy the frontend edits |
| `MCCaptureService`, `MCFlowTable`, `MCDetector` | the symmetry set, the frames and the flow keys for TLC |
| `SumLemmas` | facts about sums over finite sets, for the proofs |
| `*_proofs` | the theorems |

The pieces fit together by refinement.  `CapturePipeline` implements
`StageGroup` (`ImplementsStageGroup`, liveness included), and the steps of each
session in `CaptureService` are steps of a `StageGroup` of its own
(`StagesKeepContract`), so that the lifecycle can be checked without carrying
channels around.  `CaptureService` in turn implements `CaptureLifecycle`
(`ImplementsLifecycle`), which hides contexts, stages, wait groups and the
database, and `CaptureUI` extends that module with everything on the other side
of the calls: each action of the page's requests contains the action of the
lifecycle that answers it.  `Database` shows what `CaptureService` and `FlowTable`
take for granted of `InsertSession` and of the rows they write: fresh ids, and
rows that stay with their session.  `FlowTable` takes the packets `Decoder` makes
of a set of frames.  `FlowTable` and `Detector` refine what happens inside the
Aggregator between two steps of `CapturePipeline`: both run in the Aggregator's
goroutine only.

### CapturePipeline and the code

A packet is the number under which the handle delivered it.  `cap`, `wpc`,
`pool` and `agg` are program counters: a step ends wherever the goroutine may
be held up or another one may get in between (select, channel operation, the
callback, the deferred functions).  `Handle.Run` is the actions `Capture*`,
`worker` is `Worker*`, `Pool.Run`'s wait and close are `PoolClose`,
`Aggregator.Run` is `Aggregator*`.  A Go select is a disjunction of the actions
that are ready, except for Capture's, which has a default case.  The ticker may
fire at any time.  The history variables `dropped`, `skipped`, `abandoned`,
`unflushed` and `reported` name the ways out of the pipeline that the code has;
no action reads them.

### CaptureService and the code

`cpc` and `rpc` are the program counters of the calls and of `runPipeline`; a
step is a lock section, a database call, the wait, a status read or an Emit.
Fields that the code reads without the lock (`cancel`, `sessionID` in
`onSnapshot` and in the creation of the Aggregator) are read in actions of their
own.  A status event is read in one step and emitted in another.  `InsertSession`,
`EndSession` and opening the device may fail; a capture loop may end on an error.
`readIDs` records what the goroutines of a session have read from `s.sessionID`.

### CaptureLifecycle, CaptureUI and the code

`Claim`, `Publish`, `StartFails` and `Spawn` are the lock sections of
`StartCapture`, `Opened` the two verdicts of `runPipeline`, `ClaimStop` and
`Finish` those of `StopCapture`; `ReportByCall` and `ReportByRun` read the status
that is then emitted.  In `CaptureUI` a request, its answer, the poll at startup
and the events travel on their own: `events` is what has been emitted and not
delivered, in no order (so that reading the status for an event and emitting it
can be one step), and a request is accepted or turned into an error when it
arrives, not when it is sent.  `OffersStart` and `OffersStop` are the buttons of
`CaptureControl`, `StartRejected` the `catch` of `startCapture`, `Shows` is
`updateStatus`.  A view (`HostsView`, `ConnectionsView`, `AlertsView` are alike)
has the session its effect has last run for (`key`), the loads it has not heard
of (`loads`) and the session whose rows it holds (`rows`).  `Effect` is one run
of the React effect: it comes some time after the status has changed.  Nothing
tells a view that an answer is for a session it has left, as in the code.
Reloading the page is not modelled: an application window does not.

`overtaken` is a history variable that no action reads: the store has changed
under a request that was on its way, or a button was pressed before the poll was
answered.  It is what the properties exclude, and section 5 says what happens then.

### Database and the code

A step is one SQL statement.  `objects` are the migrations whose table or index
exists, `recorded` the rows of `schema_migrations`; inside a transaction both
change at `Commit`, and `writer` is the instance whose transaction holds SQLite's
write lock.  `Begin` answers `migrationApplied` and begins a deferred
transaction, which takes the lock with its first write only, so that the answer
may be out of date.  An instance that finds the lock taken, whose statement fails
or whose record is already there rolls back and exits (`OpenRefused`,
`OpenFails`), as `main` does; that is also what a crash leaves behind.  A power
loss with `synchronous=NORMAL` may take the file back to an earlier commit, which
is a state this module reaches too.  `Init` is a file of any release, possibly
with two rows of one flow, on which the unique index of migration 9 cannot be
built.

Of the tables that refer to a session, `flows` stands for the ones written
without their ids.  `inserted` and the field `by` remember which call of
`InsertSession` made a row, whatever its id: they are how the properties tell a
row from another one with the same id.  `seen` is what a view of an instance
holds, for as long as it likes; `DeleteSession` and `AcknowledgeAlert` take an id
from there.  Foreign keys are a setting of the connection, which the pool keeps.

### Decoder and the code

A frame is what `pkt.Layer` answers for each type of layer, so that one of every
type is there or not, with its own addresses; gopacket finds the bytes.  Every
combination is allowed, because in a tunnel the first IPv4, the first IPv6, the
first TCP and the first DNS layer may belong to different levels: IPv4's
addresses are taken before IPv6's and TCP before UDP, so outer addresses may be
combined with inner ports, and an ARP layer that is not in an Ethernet frame is
passed over.  Nothing keeps sender and receiver apart: a frame on the loopback
interface and a gratuitous ARP have the same address twice.  `Decodable` is the
`nil` of `decode`, which the worker skips.

### FlowTable and the code

`Accumulate` is `accumulate`, `Flush` is `flush`, `Persist` is the writing half
of `onSnapshot` with `UpsertFlow` and `UpsertHost`; `Tick` and `Final` run them
in the order the goroutine does.  Times are ages; bytes, ports and names are
left out; the direction of a packet is decided by its source as in the code.
A database write that fails is one that is left out, and each fails on its own:
`Losses` is any set of the flows or hosts that `onSnapshot` writes.

### Detector and the code

`NewSnapshot` is `detector.New` in `onSnapshot`, together with the reading of the
thresholds.  It also stands for the second before: packets of some flows come in
(`accumulate`), and the snapshot has a delta of every flow in the table with all it
has sent since it was created; `AnalyseReturns` lets any of them leave the table, as
closed and idle flows do in `flush`.  `WalkDelta` is one round of the loop over the flow deltas, whose order
is that of a Go map; `CheckRateSpikes` and `CheckNewHost` are the checks after the
loop.  The window of the port scan check never rotates: the bucket is created
with the time at which `onSnapshot` runs, which is later than the snapshot's
`IntervalEnd`, and is thrown away with the Detector.  The SYN flood check is left
out: it counts deltas with `NewFlow` set, which nothing sets.  `fresh`, `contacted`
and `sent` are history variables: what the properties compare the alerts with is what
happened in the last second and in the session, not the deltas the alerts were made of.

### SettingsStore and the code

`settings`, `thresholds`, `isLoading`, `isDirty` and `error` are the store of
`store/settings.ts`, `db` the row under the key `settings`; either half of the
document is one value.  A step of `loadAll` or `handleSaveAll` ends wherever it
awaits something, and `SaveDetectorThresholds` is a read and a write of its own.
The fields of the view stay enabled, so an edit may come anywhere.  What the
generated constructors leave in a new object is `Blank`, which is what a store
that has not been loaded sends as `settings.Thresholds`.  `alone` is the call
that has run with nothing in its way.

## 3. Runs

| Run | Bounds | Shows |
|---|---|---|
| `MCPipeline` | 2 workers, both buffers 1, 3 packets, replay | where every packet ends up, the order in which channels close, no deadlock between stages, every shutdown completes, refinement of `StageGroup` |
| `MCServiceSafety` | 2 clients, 2 sessions, fairness | the invariants of the lifecycle in every interleaving, refinement of `StageGroup` per session and of `CaptureLifecycle`, and that calls reach a verdict |
| `MCCaptureUI` | 2 clients, 2 sessions, 1 view, 1 unanswered load per session, fairness | buttons, answers and rows end up with the service whatever crosses what |
| `MCDatabase` | 2 instances, 9 migrations, 2 sessions, 2 alerts, 1 flow key, fairness | schema and record agree after any failures, rows stay with their session, old views hit no other row, `Open` returns |
| `MCFlowTable` | 2 hosts (one private), 3 frames, idle timeout 1, each write failing on its own | packets, counters, flows, DNS events, snapshots and rows agree |
| `MCDetector` | 2 sources (one private), 3 ports, 2 peers, 2 MACs, a ring of 2, 6 packets out | what scan, spike and new-host alerts mean for the traffic of the session, whatever the order of the deltas and the flows left from before |
| `MCSettings` | 2 saves, 1 load, 2 values per half, fairness | calls that run undisturbed leave screen and database in agreement after any past; loads come to an end |
| `MCServiceRefusal`, `MCServiceZombie`, `MCUIStatus`, `MCFlowCompleted`, `MCDetectorNewHost` | as small as the behaviour allows | what a comment or document says and the code does not do: section 5 |

Why the bounds are enough.  In the pipeline a buffer of one is full after one
packet, so that three packets fill the whole way (a packet in hand at every
place that can hold one and one more to drop); two workers can overtake each
other, and one can drain while the other sends.  A replay handle has every step
a live one has, and the pause.  In the service two sessions are enough for a
goroutine of an earlier session to meet a later one, and two clients for two
calls to race; whether a third session behaves differently is answered by the
proofs.  On the page two clients are two presses under way at once and two sessions
a view that has to change; a second load of the same session in flight would
bring the same rows.  In the database two instances race for every migration, two
sessions are one to delete and one that could inherit its id, and the migrations
are all there are; `Last` is a parameter of the proofs.  In the flow table three packets give a flow that is created, counted
again, closed, removed and created anew, and an idle timeout of one second needs
two ticks, so that a silent flow is kept at least once.  Its frames are fewer than
`Decoder` allows, to keep the number of states down (`MCFrames`): what the two hosts
say to each other is TCP without DNS, or a name that the private host asks for and
gets over UDP; the private host alone sends ARP and talks to itself, over UDP or
ICMP.  The proofs need none of this.  In the Detector three
ports are one more than the threshold, so that an alert resets a set which then
grows again, and the source that reaches two peers on one port has more flows than
ports.  A ring of two values and a factor of one have a spike as soon as a second
flow counts more than the first; a flow needs two seconds to get from one packet to
the four which, next to two of another flow, make a mean at the baseline of three.  In the settings two saves may overlap with a load and with each
other and so leave any mixture behind from which a quiet call has to recover;
how many overlap makes no difference to the proof.

Deadlock is checked in every run but those of `CaptureUI`, where the bound on
sessions leaves a page on which nothing is pressed any more.  Elsewhere states in
which the system may stop are explicit stuttering steps (`Terminated`,
`Returned`, a refused call).

### Fairness

`CapturePipeline`: the Go scheduler runs each goroutine that can run (weak
fairness per goroutine), and a select chooses at random among its ready cases,
so that a case that is ready again and again is taken (strong fairness on the
Aggregator's cases).  A read in progress returns once the context is cancelled:
the handle has a read timeout of 10 ms; while the context is live nothing is
assumed about the network.  `CaptureService`: calls that have begun and
`runPipeline` go on, the database and the device answer, and the stages leave
once they may, which `CapturePipeline` shows that they do; nobody has to click,
and nothing has to fail.  `FlowTable`: the ticker keeps firing (`Ticks`, a tick whatever
becomes of its writes); packets need not arrive and nobody has to stop.  `SettingsStore`: calls that have begun end, with
an answer or an error.  `CaptureUI`: requests, answers and events arrive, effects
run and intervals fire; the loads of one session do not all fail for ever (strong
fairness on a load answered with rows).  `Database`: the statements of an
instance that opens the file return, if only with an error; nobody has to start
or use the program.

## 4. Proofs

All theorems hold for every value of the constants under the named assumptions
(`PipelineAssumption`, `ServiceAssumption`, `LifecycleAssumption`, `UIAssumption`,
`DatabaseAssumption`, `DecoderAssumption`, `FlowTableAssumption`, `DetectorAssumption`,
`SettingsAssumption`), which only say that the constants
are of their kind: at least one worker, buffers of at least one, finite sets of
hosts and flow keys, a "no row" that is not a document, a "no address" that is
not one.

`CapturePipeline_proofs`.  `PipelineInvariant` proves `Inv`.  That no packet is
forgotten (`EveryPacketAccountedFor`) is not inductive alone: a worker that
gives up its packet needs to have one (`HandsMatchPCs`).  That the final
snapshot is complete and that nobody sends on a closed channel follow from
`StagesEndInOrder`, which says why each stage may have ended: the channel before
it is closed and empty, or the context is cancelled.  The drop counter is tied
to the set of dropped packets by `DropsAreCounted`.  `PipelineKeepsContract`
proves the safety half of the refinement: every step of the pipeline is a step
of `StageGroup` or a stutter.  `PacketsAreNotDoubled` proves `NoPacketTwice` beside
`Inv`: the places a packet can be in are kept apart because a step only moves
packets from one place to another (`MovedApart`), and a delivered packet, whose
number is new, is in none of them.  `ShutdownIsBounded` proves the bounded half of
`ShutdownCompletes`: after a cancellation every step but the Aggregator's ticks uses
up one of `StepsLeft`, which counts what each goroutine still has to do and what the
others do with the packets it passes on, and starts below a bound that depends on the
capacities and the number of workers only.  That some step remains possible until
every stage has returned, and is taken, is what TLC checks.

`CaptureService_proofs`.  `ServiceInvariant` proves `Inv`, whose heart is
`Charge`: at any time one goroutine at most is in charge of the service, a
`StartCapture`, a launching `runPipeline` or a `StopCapture`, and each of them
holds what it needs (`StartHolds`, `LaunchHolds`, `StopHolds`).  The safety
properties of the run (`IdleMeansQuiet`, `OnePipelineAtATime`,
`WritesGoToOwnSession`) and those that are proved only (`StopCancelsItsSession`,
`RunningIsStoppable`, `NoLaunchDuringStop`, `EndedMeansOver`,
`DropsOfCurrentSession`) are consequences of it; none of them is inductive, because
a property about stages says nothing about the goroutine that is about to start
one.  `ServiceKeepsContract` proves `StagesKeepContract`, with `StagesInOrder` as
its strengthening: a stage that is still to be launched is not running, and the
session's id has been read as soon as the last stage is launched.
`ServiceImplementsLifecycle` proves the refinement of `CaptureLifecycle`: the
guards that the abstract steps have and the code lacks (`Finish` and `Opened` look
at the state they overwrite) hold because of `Charge`.  `StopDoesNotHang` is the
safety argument behind `StopSettles`: `wg.Wait` only ever waits for stages of the
session being stopped that have been told to leave, and nothing anybody does
meanwhile gives it more to wait for (`StopLeft`).

`CaptureUI_proofs`.  `PageInvariant` proves `Inv`: as long as nothing has been
overtaken, at most one call or pipeline is at work, none before the event of the
one before is delivered (`OneAtATime`), and the store is one event behind the
service (`StoreFollows`).  `ButtonsAreTruthful` is what is left of it once nothing
is outstanding.  `PageKeepsLifecycle` proves that the composition is one: with the
page in front of it the service still behaves as `CaptureLifecycle` says, which is
also what `CaptureService` implements.

`Database_proofs`.  `DatabaseInvariant` proves `Inv`, which has two halves.  The
schema half is `SchemaAsRecorded`, what the comment on `migrate` promises; it needs
`TransactionsHold`: whoever holds the lock works on a migration that nobody else
has applied, and has skipped nothing on the way there.  The row half rests on
`IdsAreSerials`: with AUTOINCREMENT an id says which call made the row, so that
neither a running capture whose session is gone nor an old view can meet another
row under it; `DeletedIDsStayDeleted` says the same of a step.  `OpenIsBounded` proves
the bounded half of `OpenSettles`: every step of an instance that opens the file
brings it nearer to the end of `Open`, by a count (`OpenLeft`) that the steps of other
instances leave alone, whatever they migrate, lock or write.

`FlowTable_proofs`.  `TableInvariant` proves `Inv`, and from it the action
properties `RemovalIsReported` and `ClosedFlowsLeave`.  `ClosedThisInterval` is
the strengthening the latter needs: a closed flow makes the interval non-empty,
so that a reset of the interval is the tick that removes it.  `EventsAreCarried`
goes from the frame to the snapshot: `DecodedPackets` says that a decoded packet has
its addresses and that its DNS event names its own sender and receiver, and `EventsHaveFlows`, part of `Inv`, that the
flow between them has counted it and is in the snapshot with it, removed or not.
The sums over flows and hosts are in `Inv` as `IntervalAddsUp` and
`HostRowsAreHonest`: a packet increments one summand of each sum it belongs to, a row
is written with the total of the moment, and totals only grow.  The proofs need that
the flow keys are finitely many, which follows from the finite set of hosts.

`Detector_proofs`.  `DetectorInvariant` proves `Inv`.  `ScansAreOfContacts` rests on
`PortsBeforeAlert`, that a source without an alert still has all the ports of its
walked deltas and one with an alert has walked enough, and on `FlowsAreOfSession`, that
every delta is of a flow of the session and every flow of the last second has one.
`ScansAreBounded` rests on `DeltasUsedUp`, that the deltas behind an alert are not
counted towards the next.  `SpikesAreOfTraffic` goes through the rings: what is in a
ring was sent by its source (`RingsAreOfSource`, from the sum over the flows of a source
in `SentAfter`), and a value above a multiple of a mean that is not below the baseline is
above that multiple of the baseline (`AboveBaseline`), however long the ring is.

`SettingsStore_proofs`.  `SettingsInvariant` proves `Inv`, whose strengthening
`OnCourse` says for every point of an undisturbed call what is stored, what is
shown and what the call carries; `QuietCallsEndInAgreement` is its last point.

`SumLemmas`.  `SumFunctionOnSet` of the community modules is defined by recursion over
subsets, with a `CHOOSE` in every step.  The induction theorems of the library take an
operator as a parameter, which the provers cannot instantiate; each lemma therefore
looks at a smallest set for which it fails, which exists because strict inclusion of
finite sets is well-founded (`SmallestSubset`).  `SumExists`, `SumIsUnique` and
`SumEquation` establish the recursion, `SumRemove` that any member may be taken out
first, and the rest (`SumChange`, `SumIncrement`, `SumMonotone`, `SumBound`,
`SumMember`) what the proofs above use.

Checked by TLC only: liveness (`ShutdownCompletes`, `PacketsSettle`,
`StartSettles`, `StopSettles`, `StartIsAnswered`, `ViewsCatchUp`, `OpenSettles`,
`SilentFlowsLeave`, `LoadsSettle` and the liveness half of `ImplementsStageGroup`),
which the prover does not handle.  Every safety invariant and action property of the
runs is proved.

## 5. Where the code departs from what the repository says

Each of the first five is a run that ends in a counterexample.

1. `RefusalIsTruthful`: no call leaves the error state, so after one failed start
   every `StartCapture` is refused as "capture already running or starting".
2. `RunningIsShown`: the answer to the poll at startup is put over newer events; a
   capture that was starting when the status was read, and is running when the
   answer is handled, is shown as starting for good, with neither button to press.
   The error of a second press of Start does the same to a running capture.
3. `ErrorEndsPipeline`: after a read error the stages are gone but the service
   stays running.
4. `CompletedFlowsArePersisted`: flows are removed before they are written.
5. `NewHostAlertedOnce`: the Detector is created anew for every snapshot, so a
   known device is announced again in every second in which it sends ARP.

Others were met while modelling and have no run of their own: a worker that is
cancelled in the middle of a send does not drain its input as
`processor.go:46-47` says (`QuiescentWhenDone` allows for it); flow deltas hold cumulative counters and not those of
the interval (`types.go:237-238`); the two directions of a conversation are two
flow records (`types.go:180-182`); the totals of a host fall when its flows are
removed (`types.go:315`); the SYN flood check can never fire because nothing
sets `NewFlow` (`detector.go:266-269`); the settings are read from the database
for every snapshot and not cached as `src/ARCHITECTURE.md:198` says.  In the
settings, two saves that overlap can lose the later edit while `isDirty` says
that all is saved; an error of the first half of a save is never shown; and a
save after a failed load stores blank thresholds, for good if its second half
fails, where `types.go:403` promises sensible defaults.

Of the Detector, beside the fifth above.  The properties of `MCDetector` hold of what
the code does; they do not say that it does what its documents describe, which differ
in these points:

- A port scan is reported when the distinct ports reach the threshold
  (`detector.go:236`, in line with `types.go:415`), where `ARCHITECTURE.md:94` says
  that they have to exceed it.  `ScansMatchContacts` leaves the threshold itself open.
- The ports are not those "contacted in the last 10 seconds" (`ARCHITECTURE.md:94`,
  `types.go:419`): the window never rotates, and the port set holds the ports of
  the flows in the table.  Flows that have been silent for up to the idle timeout
  count, so that ports contacted over minutes make a scan; flows that were closed are
  gone after a second, so that a scan of closed ports that stays below the threshold
  in each second is missed.
- The reset after an alert is meant "to avoid re-firing on every subsequent second"
  (`detector.go:250`, `ARCHITECTURE.md:94`).  Every second has a new Detector and the
  deltas of all flows in the table, so that the alert is raised again every second as
  long as the flows are there, and within a snapshot for the same ports through another
  peer.  `ScansUseUpFlows` bounds the alerts of a snapshot; nothing bounds those of a
  session.
- A rate spike compares a source with its "60-second rolling average"
  (`ARCHITECTURE.md:92`, `types.go:405-406`, `detector.go:41-43`, `62-63`).  The ring
  of the code holds one value for each flow of the source in this one snapshot, and the
  values are totals since the flow was created: the flow that happens to be walked last
  is compared with the source's other flows.  A source without more flows than the
  factor can never be reported, however its rate changes, and whether another is
  depends on the order of a Go map.
  `SpikesNeedTraffic` says no more than that a source with little traffic is left alone.

Of the lifecycle: the row of a session whose device could not be opened, whose
`EndSession` failed or whose process died stays without end time for ever, where
`types.go:380` says "nil while the session is active" and the list of sessions
shows it as active; `StopCapture` names no session, so that a second Stop which
arrives late stops the capture started meanwhile; `OverflowDrops` on the page
changes with status events only, of which there are none while a capture runs.

Of the database: `StartCapture` never sets `StartedAt` (`capture_service.go:69-75`),
so that "newest first" (`queries.go:86`) orders captures by nothing; the sum of
bytes in `ListSessions` is multiplied by the number of alerts of the session
(`queries.go:88-98`); `ExportFlowsJSON` exports one page of flows, where its
caller's comment says all (`session_service.go:58`, `queries.go:651`); times are
compared as text of varying length (`RFC3339Nano`), so that rows of one second
may be sorted wrongly; an instance whose file has two rows of one flow from
before migration 9 can never come up; of two instances started at the same time on
a new file one exits with an error instead of waiting.

## 6. Not modelled, and why

- Finding the layers in the bytes of a frame: done by the gopacket library.  MAC
  addresses, names and DHCP events are copied field by field into a
  `ParsedPacket` and decide nothing before the Detector.
- The wording of events and alerts, the theme, the menu and the navigation and
  traffic stores: stateless glue, or a store of the last value given.
- Opening a handle and listing interfaces: calls of libpcap, modelled by whether
  they succeed.
- Build scripts: packaging generated by the application framework.
- Read-only queries and exports: no state changes, and no document relates them
  to each other; what is wrong with single ones is listed in section 5.
- The arrays of events that `flush` truncates in place while the snapshot still
  refers to them (`aggregator.go:288-290`, `351-353`): whether an event is still
  being serialised then is decided inside the application framework.
- `rateHistory` of the Aggregator and the SYN flood check: nothing reads the one,
  nothing feeds the other.

## 7. Plan

What would come next: reloading the page, and the paging of `GetPagedFlows` over a
table that is written in between.
