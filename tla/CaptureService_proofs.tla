------------------------- MODULE CaptureService_proofs -------------------------
(***************************************************************************)
(* Proofs about CaptureService, for every set of clients and every number  *)
(* of sessions.  The invariant Inv says who is in charge of the service in *)
(* which state (Charge) and what that means for the fields that goroutines *)
(* read and write without the lock (Records); it is inductive, and every   *)
(* safety invariant of the service is one of its parts or follows from it. *)
(***************************************************************************)
EXTENDS CaptureService, FiniteSetTheorems, TLAPS

USE DEF Session, NoSession, lockVars, dbVars, callVars, runVars, ctxVars

-------------------------------------------------------------------------------
(* Who is in charge *)

\* A call that starts or stops a capture is the only one, and no runPipeline is
\* launching stages meanwhile.
LEMMA ChargeIsExclusive ==
    ASSUME Core, NEW c \in Clients, cpc[c] \in StartPC \cup StopPC
    PROVE  /\ \A d \in Clients : d # c => cpc[d] \notin StartPC \cup StopPC
           /\ \A i \in Session : ~Launching(i)
BY DEF Core, Charge, OneCallInCharge, StartInCharge, StartHolds, StopInCharge, StopHolds, Quiet,
  StartPC, StopPC

\* In the states in which a call may begin nobody is in charge.
LEMMA NobodyInCharge ==
    ASSUME Core, state \in {"idle", "running", "error"}
    PROVE  /\ \A c \in Clients : cpc[c] \in {"ready", "status", "emit"}
           /\ \A i \in Session : ~Launching(i)
           /\ state # "running" => \A i \in Session : Quiet(i)
BY DEF Core, TypeOK, CallPC, Charge, StartInCharge, StartHolds, StopInCharge, StopHolds,
  LaunchInCharge, LaunchHolds, Records, StagesAreCurrent, Quiet, StartPC, StopPC

-------------------------------------------------------------------------------
(* The initial state *)

\* Before any call nothing is in charge and nothing runs.
LEMMA CoreInit == Init => Core
<1> SUFFICES ASSUME Init PROVE Core
  OBVIOUS
<1> USE ServiceAssumption DEF Init
<1>1. TypeOK
  BY DEF TypeOK, State, Failure, Status, NoStatus, CallPC, RunPC
<1>2. Charge
  BY DEF Charge, OneCallInCharge, StartInCharge, StopInCharge, LaunchInCharge, StartPC, StopPC,
    Launching
<1>3. Records
  BY DEF Records, StagesAreCurrent, FreshIDs, RunningIsStoppable, WritesGoToOwnSession,
    DropsOfCurrentSession, EndedMeansOver, ErrorHasMessage
<1> QED
  BY <1>1, <1>2, <1>3 DEF Core

-------------------------------------------------------------------------------
(* StartCapture *)

\* Claiming StateStarting keeps Core: nobody was in charge.
LEMMA StartBeginInv == ASSUME Core, NEW c \in Clients, StartBegin(c) PROVE Core'
<1>1. TypeOK'
  BY ServiceAssumption DEF StartBegin, CallPC, CaptureStatus, Failure, Core, MayStart,
    NoStatus, RunPC, Stages, State, Status, TypeOK
<1>2. Charge'
  <2>1. /\ \A d \in Clients : cpc[d] \in {"ready", "status", "emit"}
        /\ \A i \in Session : Quiet(i)
    BY NobodyInCharge DEF StartBegin, MayStart
  <2>2. StartHolds(c)'
    BY <2>1, ServiceAssumption DEF StartBegin, StartHolds, Core, TypeOK, Quiet, Launching
  <2>3. OneCallInCharge'
    BY <2>1 DEF StartBegin, OneCallInCharge, Core, TypeOK
  <2>4. StartInCharge'
    BY <2>1, <2>2 DEF StartBegin, StartInCharge, StartPC, Core, TypeOK
  <2>5. StopInCharge'
    BY ServiceAssumption DEF StartBegin, Charge, Core, LaunchHolds, LaunchInCharge,
      Launching, MayStart, Quiet, StartHolds, StartPC, StopHolds, StopInCharge, StopPC,
      TypeOK
  <2>6. LaunchInCharge'
    BY ServiceAssumption DEF StartBegin, Charge, Core, LaunchHolds, LaunchInCharge,
      Launching, MayStart, Quiet, StartHolds, StartPC, StopHolds, StopPC, TypeOK
  <2> QED
    BY <2>3, <2>4, <2>5, <2>6 DEF Charge
<1>3. Records'
  BY ServiceAssumption DEF StartBegin, Records, DropsOfCurrentSession, EndedMeansOver,
    ErrorHasMessage, FreshIDs, Core, Launching, MayStart, RunningIsStoppable,
    StagesAreCurrent, TypeOK, WritesGoToOwnSession
<1> QED
  BY <1>1, <1>2, <1>3 DEF Core

\* The new session row keeps Core.
LEMMA StartInsertInv == ASSUME Core, NEW c \in Clients, StartInsert(c) PROVE Core'
<1>1. TypeOK'
  BY ServiceAssumption DEF StartInsert, Core, Charge, StartInCharge, StartHolds, StartPC,
    TypeOK, CallPC
<1>2. Charge'
  <2>1. StartHolds(c) /\ \A d \in Clients : d # c => cpc[d] \notin StartPC
    BY ChargeIsExclusive DEF StartInsert, Core, Charge, StartInCharge, StartPC
  <2>2. lastID + 1 \in Session /\ lastID + 1 > lastID
    BY <2>1, ServiceAssumption DEF StartInsert, StartHolds, Core, TypeOK
  <2>3. StartHolds(c)'
    BY <2>1, <2>2 DEF StartInsert, StartHolds, Core, TypeOK, Records, FreshIDs, Quiet, Launching
  <2>4. OneCallInCharge'
    BY ServiceAssumption DEF StartInsert, Charge, Core, OneCallInCharge, TypeOK
  <2>5. StartInCharge'
    BY <2>1, <2>3 DEF StartInsert, StartInCharge, StartPC, Core, TypeOK
  <2>6. StopInCharge'
    BY ServiceAssumption DEF StartInsert, Charge, Core, LaunchHolds, LaunchInCharge,
      Launching, Quiet, StartHolds, StartPC, StopHolds, StopInCharge, StopPC, TypeOK
  <2>7. LaunchInCharge'
    BY ServiceAssumption DEF StartInsert, Charge, Core, LaunchHolds, LaunchInCharge,
      Launching, Quiet, StartHolds, StartPC, StopHolds, StopPC, TypeOK
  <2> QED
    BY <2>4, <2>5, <2>6, <2>7 DEF Charge
<1>3. Records'
  BY ServiceAssumption DEF StartInsert, Records, DropsOfCurrentSession, EndedMeansOver,
    ErrorHasMessage, FreshIDs, Core, Launching, RunningIsStoppable, StagesAreCurrent, TypeOK,
    WritesGoToOwnSession
<1> QED
  BY <1>1, <1>2, <1>3 DEF Core

\* A row that cannot be inserted keeps Core.
LEMMA StartInsertFailsInv == ASSUME Core, NEW c \in Clients, StartInsertFails(c) PROVE Core'
<1>1. TypeOK'
  BY ServiceAssumption DEF StartInsertFails, CallPC, CaptureStatus, Failure, Core, NoStatus,
    RunPC, Stages, State, Status, TypeOK
<1>2. Charge'
  BY ServiceAssumption DEF StartInsertFails, Charge, Core, LaunchHolds, LaunchInCharge,
    Launching, OneCallInCharge, Quiet, StartHolds, StartInCharge, StartPC, StopHolds,
    StopInCharge, StopPC, TypeOK
<1>3. Records'
  BY ServiceAssumption DEF StartInsertFails, Records, DropsOfCurrentSession, EndedMeansOver,
    ErrorHasMessage, FreshIDs, Core, Launching, RunningIsStoppable, StagesAreCurrent, TypeOK,
    WritesGoToOwnSession
<1> QED
  BY <1>1, <1>2, <1>3 DEF Core

\* Going back to StateIdle keeps Core: no pipeline was launched.
LEMMA StartFailInv == ASSUME Core, NEW c \in Clients, StartFail(c) PROVE Core'
<1>1. TypeOK'
  BY ServiceAssumption DEF StartFail, CallPC, CaptureStatus, Failure, Core, NoStatus, RunPC,
    Stages, State, Status, TypeOK
<1>2. Charge'
  <2>1. OneCallInCharge'
    BY ServiceAssumption DEF StartFail, Charge, Core, OneCallInCharge, TypeOK
  <2>2. StartInCharge'
    BY ChargeIsExclusive DEF StartFail, StartInCharge, StartPC, Core, TypeOK
  <2>3. StopInCharge'
    BY ServiceAssumption DEF StartFail, Charge, Core, LaunchHolds, LaunchInCharge, Launching,
      Quiet, StartHolds, StartInCharge, StartPC, StopHolds, StopInCharge, StopPC, TypeOK
  <2>4. LaunchInCharge'
    BY ServiceAssumption DEF StartFail, Charge, Core, LaunchHolds, LaunchInCharge, Launching,
      Quiet, StartHolds, StartPC, StopHolds, StopPC, TypeOK
  <2> QED
    BY <2>1, <2>2, <2>3, <2>4 DEF Charge
<1>3. Records'
  BY ServiceAssumption DEF StartFail, Charge, Records, DropsOfCurrentSession,
    EndedMeansOver, ErrorHasMessage, FreshIDs, Core, LaunchHolds, LaunchInCharge, Launching,
    Quiet, RunningIsStoppable, StagesAreCurrent, StartHolds, StartInCharge, StartPC,
    StopHolds, StopPC, TypeOK, WritesGoToOwnSession
<1> QED
  BY <1>1, <1>2, <1>3 DEF Core

\* Publishing the session id keeps Core.
LEMMA StartPublishInv == ASSUME Core, NEW c \in Clients, StartPublish(c) PROVE Core'
<1>1. TypeOK'
  BY ServiceAssumption DEF StartPublish, CallPC, CaptureStatus, DropsReset, Failure, Core,
    NoStatus, RunPC, Stages, State, Status, TypeOK
<1>2. Charge'
  <2>1. StartHolds(c) /\ \A d \in Clients : d # c => cpc[d] \notin StartPC
    BY ChargeIsExclusive DEF StartPublish, Core, Charge, StartInCharge, StartPC
  <2>2. StartHolds(c)'
    BY <2>1 DEF StartPublish, StartHolds, Core, TypeOK, Quiet, Launching
  <2>3. OneCallInCharge'
    BY ServiceAssumption DEF StartPublish, Charge, DropsReset, Core, OneCallInCharge, TypeOK
  <2>4. StartInCharge'
    BY <2>1, <2>2 DEF StartPublish, StartInCharge, StartPC, Core, TypeOK
  <2>5. StopInCharge'
    BY ServiceAssumption DEF StartPublish, Charge, DropsReset, Core, LaunchHolds,
      LaunchInCharge, Launching, Quiet, StartHolds, StartInCharge, StartPC, StopHolds,
      StopInCharge, StopPC, TypeOK
  <2>6. LaunchInCharge'
    BY ServiceAssumption DEF StartPublish, Charge, DropsReset, Core, LaunchHolds,
      LaunchInCharge, Launching, Quiet, StartHolds, StartPC, StopHolds, StopPC, TypeOK
  <2> QED
    BY <2>3, <2>4, <2>5, <2>6 DEF Charge
<1>3. Records'
  BY ServiceAssumption DEF StartPublish, Charge, Records, DropsOfCurrentSession, DropsReset,
    EndedMeansOver, ErrorHasMessage, FreshIDs, Core, LaunchHolds, LaunchInCharge, Launching,
    Quiet, RunningIsStoppable, StagesAreCurrent, StartHolds, StartInCharge, StartPC,
    StopHolds, StopPC, TypeOK, WritesGoToOwnSession
<1> QED
  BY <1>1, <1>2, <1>3 DEF Core

\* Handing the charge over to runPipeline keeps Core.
LEMMA StartSpawnInv == ASSUME Core, NEW c \in Clients, StartSpawn(c) PROVE Core'
<1>1. TypeOK'
  BY ServiceAssumption DEF StartSpawn, Core, Charge, StartInCharge, StartHolds, StartPC,
    TypeOK, CallPC, RunPC
<1>2. Charge'
  <2>1. StartHolds(c) /\ \A d \in Clients : d # c => cpc[d] \notin StartPC \cup StopPC
    BY ChargeIsExclusive DEF StartSpawn, Core, Charge, StartInCharge, StartPC
  <2>2. \A d \in Clients : cpc'[d] \notin StartPC \cup StopPC
    BY <2>1 DEF StartSpawn, Core, TypeOK, StartPC, StopPC
  <2>3. PICK i \in Session : i = csid[c]
    BY <2>1, ServiceAssumption DEF StartSpawn, StartHolds, Core, TypeOK
  <2>4. \A j \in Session : j # i => Quiet(j)'
    BY <2>1, <2>3 DEF StartSpawn, StartHolds, Core, TypeOK, Quiet, Launching
  <2>5. LaunchHolds(i)'
    BY <2>1, <2>2, <2>3, <2>4 DEF StartSpawn, StartHolds, LaunchHolds, Core, TypeOK, Quiet, Launching
  <2>6. OneCallInCharge'
    BY ServiceAssumption DEF StartSpawn, Charge, Core, OneCallInCharge, TypeOK
  <2>7. StartInCharge'
    BY <2>2 DEF StartInCharge
  <2>8. StopInCharge'
    BY ServiceAssumption DEF StartSpawn, Charge, Core, LaunchHolds, LaunchInCharge,
      Launching, Quiet, StartHolds, StartInCharge, StartPC, StopHolds, StopInCharge, StopPC,
      TypeOK
  <2>9. LaunchInCharge'
    BY <2>4, <2>5 DEF LaunchInCharge, Quiet
  <2> QED
    BY <2>6, <2>7, <2>8, <2>9 DEF Charge
<1>3. Records'
  BY ServiceAssumption DEF StartSpawn, Charge, Records, DropsOfCurrentSession,
    EndedMeansOver, ErrorHasMessage, FreshIDs, Core, LaunchHolds, LaunchInCharge, Launching,
    Quiet, RunningIsStoppable, StagesAreCurrent, StartHolds, StartInCharge, StartPC,
    StopHolds, StopPC, TypeOK, WritesGoToOwnSession
<1> QED
  BY <1>1, <1>2, <1>3 DEF Core

-------------------------------------------------------------------------------
(* StopCapture *)

\* Claiming StateStopping keeps Core: the pipeline is running, or was.
LEMMA StopBeginInv == ASSUME Core, NEW c \in Clients, StopBegin(c) PROVE Core'
<1>1. TypeOK'
  BY ServiceAssumption DEF StopBegin, CallPC, CaptureStatus, Failure, Core, MayStop,
    NoStatus, RunPC, Stages, State, Status, TypeOK
<1>2. Charge'
  <2>1. /\ \A d \in Clients : cpc[d] \in {"ready", "status", "emit"}
        /\ \A i \in Session : ~Launching(i)
    BY NobodyInCharge DEF StopBegin, MayStop
  <2>2. StopHolds(c)'
    BY <2>1 DEF StopBegin, MayStop, StopHolds, Core, TypeOK, Records, RunningIsStoppable, Launching
  <2>3. OneCallInCharge'
    BY <2>1 DEF StopBegin, OneCallInCharge, Core, TypeOK
  <2>4. StartInCharge'
    BY ServiceAssumption DEF StopBegin, Charge, Core, LaunchHolds, LaunchInCharge, Launching,
      MayStop, Quiet, StartHolds, StartInCharge, StartPC, StopHolds, StopPC, TypeOK
  <2>5. StopInCharge'
    BY <2>1, <2>2 DEF StopBegin, StopInCharge, StopPC, Core, TypeOK
  <2>6. LaunchInCharge'
    BY ServiceAssumption DEF StopBegin, Charge, Core, LaunchHolds, LaunchInCharge, Launching,
      MayStop, Quiet, StartHolds, StartPC, StopHolds, StopPC, TypeOK
  <2> QED
    BY <2>3, <2>4, <2>5, <2>6 DEF Charge
<1>3. Records'
  BY ServiceAssumption DEF StopBegin, Records, DropsOfCurrentSession, EndedMeansOver,
    ErrorHasMessage, FreshIDs, Core, Launching, MayStop, RunningIsStoppable,
    StagesAreCurrent, TypeOK, WritesGoToOwnSession
<1> QED
  BY <1>1, <1>2, <1>3 DEF Core

\* Cancelling the context keeps Core: it is the context of the session.
LEMMA StopCancelInv == ASSUME Core, NEW c \in Clients, StopCancel(c) PROVE Core'
<1>1. TypeOK'
  BY ServiceAssumption DEF StopCancel, CallPC, CaptureStatus, Failure, Core, NoStatus, RunPC,
    Stages, State, Status, TypeOK
<1>2. Charge'
  <2>1. StopHolds(c) /\ \A d \in Clients : d # c => cpc[d] \notin StopPC
    BY ChargeIsExclusive DEF StopCancel, Core, Charge, StopInCharge, StopPC
  <2>2. StopHolds(c)'
    BY <2>1 DEF StopCancel, StopHolds, Core, TypeOK, Launching
  <2>3. OneCallInCharge'
    BY ServiceAssumption DEF StopCancel, Charge, Core, OneCallInCharge, TypeOK
  <2>4. StartInCharge'
    BY ServiceAssumption DEF StopCancel, Charge, Core, LaunchHolds, LaunchInCharge,
      Launching, Quiet, StartHolds, StartInCharge, StartPC, StopHolds, StopInCharge, StopPC,
      TypeOK
  <2>5. StopInCharge'
    BY <2>1, <2>2 DEF StopCancel, StopInCharge, StopPC, Core, TypeOK
  <2>6. LaunchInCharge'
    BY ServiceAssumption DEF StopCancel, Charge, Core, LaunchHolds, LaunchInCharge,
      Launching, Quiet, StartHolds, StartPC, StopHolds, StopPC, TypeOK
  <2> QED
    BY <2>3, <2>4, <2>5, <2>6 DEF Charge
<1>3. Records'
  BY ServiceAssumption DEF StopCancel, Charge, Records, DropsOfCurrentSession,
    EndedMeansOver, ErrorHasMessage, FreshIDs, Core, LaunchHolds, LaunchInCharge, Launching,
    Quiet, RunningIsStoppable, StagesAreCurrent, StartHolds, StartPC, StopHolds,
    StopInCharge, StopPC, TypeOK, WritesGoToOwnSession
<1> QED
  BY <1>1, <1>2, <1>3 DEF Core

\* Returning from Wait keeps Core.
LEMMA StopWaitInv == ASSUME Core, NEW c \in Clients, StopWait(c) PROVE Core'
<1>1. TypeOK'
  BY ServiceAssumption DEF StopWait, CallPC, CaptureStatus, Failure, Core, NoStatus, RunPC,
    Stages, State, Status, TypeOK, WaitGroupIsZero
<1>2. Charge'
  BY ServiceAssumption DEF StopWait, Charge, Core, LaunchHolds, LaunchInCharge, Launching,
    OneCallInCharge, Quiet, StartHolds, StartInCharge, StartPC, StopHolds, StopInCharge,
    StopPC, TypeOK, WaitGroupIsZero
<1>3. Records'
  BY ServiceAssumption DEF StopWait, Records, DropsOfCurrentSession, EndedMeansOver,
    ErrorHasMessage, FreshIDs, Core, Launching, RunningIsStoppable, StagesAreCurrent, TypeOK,
    WaitGroupIsZero, WritesGoToOwnSession
<1> QED
  BY <1>1, <1>2, <1>3 DEF Core

\* Marking the session ended keeps Core.
LEMMA StopEndInv == ASSUME Core, NEW c \in Clients, StopEnd(c) PROVE Core'
<1>1. TypeOK'
  <2>1. rows' \in [Session -> {"absent", "open", "ended"}]
    BY DEF StopEnd, Core, TypeOK
  <2> QED
    BY <2>1 DEF StopEnd, Core, TypeOK, CallPC
<1>2. Charge'
  BY ServiceAssumption DEF StopEnd, Charge, Core, LaunchHolds, LaunchInCharge, Launching,
    OneCallInCharge, Quiet, StartHolds, StartInCharge, StartPC, StopHolds, StopInCharge,
    StopPC, TypeOK
<1>3. Records'
  BY ServiceAssumption DEF StopEnd, Charge, Records, DropsOfCurrentSession, EndedMeansOver,
    ErrorHasMessage, FreshIDs, Core, LaunchHolds, LaunchInCharge, Launching, Quiet,
    RunningIsStoppable, StagesAreCurrent, StartHolds, StartPC, StopHolds, StopInCharge,
    StopPC, TypeOK, WritesGoToOwnSession
<1> QED
  BY <1>1, <1>2, <1>3 DEF Core

\* Going back to StateIdle keeps Core: every stage has left.
LEMMA StopFinishInv == ASSUME Core, NEW c \in Clients, StopFinish(c) PROVE Core'
<1>1. TypeOK'
  BY ServiceAssumption DEF StopFinish, CallPC, CaptureStatus, Failure, Core, NoStatus,
    ResetSession, RunPC, Stages, State, Status, TypeOK
<1>2. Charge'
  <2>1. OneCallInCharge'
    BY ServiceAssumption DEF StopFinish, Charge, Core, OneCallInCharge, ResetSession, TypeOK
  <2>2. StartInCharge'
    BY ServiceAssumption DEF StopFinish, Charge, Core, LaunchHolds, LaunchInCharge,
      Launching, Quiet, ResetSession, StartHolds, StartInCharge, StartPC, StopHolds,
      StopInCharge, StopPC, TypeOK
  <2>3. StopInCharge'
    BY ChargeIsExclusive DEF StopFinish, StopInCharge, StopPC, Core, TypeOK
  <2>4. LaunchInCharge'
    BY ServiceAssumption DEF StopFinish, Charge, Core, LaunchHolds, LaunchInCharge,
      Launching, Quiet, ResetSession, StartHolds, StartPC, StopHolds, StopPC, TypeOK
  <2> QED
    BY <2>1, <2>2, <2>3, <2>4 DEF Charge
<1>3. Records'
  BY ServiceAssumption DEF StopFinish, Charge, Records, DropsOfCurrentSession,
    EndedMeansOver, ErrorHasMessage, FreshIDs, Core, LaunchHolds, LaunchInCharge, Launching,
    Quiet, ResetSession, RunningIsStoppable, StagesAreCurrent, StartHolds, StartPC,
    StopHolds, StopInCharge, StopPC, TypeOK, WritesGoToOwnSession
<1> QED
  BY <1>1, <1>2, <1>3 DEF Core

\* Reading the status keeps Core.
LEMMA StopReadStatusInv == ASSUME Core, NEW c \in Clients, StopReadStatus(c) PROVE Core'
<1>1. TypeOK'
  BY ServiceAssumption DEF StopReadStatus, CallPC, CaptureStatus, Failure, Core, NoStatus,
    RunPC, Stages, State, Status, TypeOK
<1>2. Charge'
  BY ServiceAssumption DEF StopReadStatus, Charge, Core, LaunchHolds, LaunchInCharge,
    Launching, OneCallInCharge, Quiet, StartHolds, StartInCharge, StartPC, StopHolds,
    StopInCharge, StopPC, TypeOK
<1>3. Records'
  BY ServiceAssumption DEF StopReadStatus, Records, DropsOfCurrentSession, EndedMeansOver,
    ErrorHasMessage, FreshIDs, Core, Launching, RunningIsStoppable, StagesAreCurrent, TypeOK,
    WritesGoToOwnSession
<1> QED
  BY <1>1, <1>2, <1>3 DEF Core

\* Emitting the status keeps Core.
LEMMA StopEmitInv == ASSUME Core, NEW c \in Clients, StopEmit(c) PROVE Core'
<1>1. TypeOK'
  BY ServiceAssumption DEF StopEmit, CallPC, CaptureStatus, Failure, Core, NoStatus, RunPC,
    Stages, State, Status, TypeOK
<1>2. Charge'
  BY ServiceAssumption DEF StopEmit, Charge, Core, LaunchHolds, LaunchInCharge, Launching,
    OneCallInCharge, Quiet, StartHolds, StartInCharge, StartPC, StopHolds, StopInCharge,
    StopPC, TypeOK
<1>3. Records'
  BY ServiceAssumption DEF StopEmit, Records, DropsOfCurrentSession, EndedMeansOver,
    ErrorHasMessage, FreshIDs, Core, Launching, RunningIsStoppable, StagesAreCurrent, TypeOK,
    WritesGoToOwnSession
<1> QED
  BY <1>1, <1>2, <1>3 DEF Core

-------------------------------------------------------------------------------
(* runPipeline *)

\* Storing the cancel function keeps Core.
LEMMA RunContextInv == ASSUME Core, NEW i \in Session, RunContext(i) PROVE Core'
<1>1. TypeOK'
  BY ServiceAssumption DEF RunContext, CallPC, CancelStored, CaptureStatus, Failure, Core,
    NoStatus, RunGoto, RunPC, Stages, State, Status, TypeOK
<1>2. Charge'
  BY ServiceAssumption DEF RunContext, Charge, CancelStored, Core, LaunchHolds,
    LaunchInCharge, Launching, OneCallInCharge, Quiet, RunGoto, StartHolds, StartInCharge,
    StartPC, StopHolds, StopInCharge, StopPC, TypeOK
<1>3. Records'
  BY ServiceAssumption DEF RunContext, Charge, Records, CancelStored, DropsOfCurrentSession,
    EndedMeansOver, ErrorHasMessage, FreshIDs, Core, LaunchHolds, LaunchInCharge, Launching,
    Quiet, RunGoto, RunningIsStoppable, StagesAreCurrent, StartHolds, StartPC, StopHolds,
    StopPC, TypeOK, WritesGoToOwnSession
<1> QED
  BY <1>1, <1>2, <1>3 DEF Core

\* Opening the handle keeps Core.
LEMMA RunOpenInv == ASSUME Core, NEW i \in Session, RunOpen(i) PROVE Core'
<1>1. TypeOK'
  BY DEF RunOpen, RunGoto, Core, TypeOK, RunPC
<1>2. Charge'
  BY ServiceAssumption DEF RunOpen, Charge, Core, LaunchHolds, LaunchInCharge, Launching,
    OneCallInCharge, Quiet, RunGoto, StartHolds, StartInCharge, StartPC, StopHolds,
    StopInCharge, StopPC, TypeOK
<1>3. Records'
  BY ServiceAssumption DEF RunOpen, Records, DropsOfCurrentSession, EndedMeansOver,
    ErrorHasMessage, FreshIDs, Core, Launching, RunGoto, RunningIsStoppable,
    StagesAreCurrent, TypeOK, WritesGoToOwnSession
<1> QED
  BY <1>1, <1>2, <1>3 DEF Core

\* Entering StateError keeps Core: no stage was launched.
LEMMA RunFailInv == ASSUME Core, NEW i \in Session, RunFail(i) PROVE Core'
<1>1. TypeOK'
  BY ServiceAssumption DEF RunFail, CallPC, CaptureStatus, Failure, Core, NoStatus, RunGoto,
    RunPC, Stages, State, Status, TypeOK
<1>2. Charge'
  BY ServiceAssumption DEF RunFail, Charge, Core, LaunchHolds, LaunchInCharge, Launching,
    OneCallInCharge, Quiet, RunGoto, StartHolds, StartInCharge, StartPC, StopHolds,
    StopInCharge, StopPC, TypeOK
<1>3. Records'
  BY ServiceAssumption DEF RunFail, Charge, Records, DropsOfCurrentSession, EndedMeansOver,
    ErrorHasMessage, FreshIDs, Core, LaunchHolds, LaunchInCharge, Launching, Quiet, RunGoto,
    RunningIsStoppable, StagesAreCurrent, StartHolds, StartPC, StopHolds, StopPC, TypeOK,
    WritesGoToOwnSession
<1> QED
  BY <1>1, <1>2, <1>3 DEF Core

\* Launching the stages keeps Core.
LEMMA RunLaunchInv == ASSUME Core, NEW i \in Session, RunLaunch(i) PROVE Core'
<1>1. TypeOK'
  <2>1. AfterLaunch[rpc[i]] \in RunPC
    BY DEF RunLaunch, AfterLaunch, Stages, RunPC
  <2>2. readIDs' \in [Session -> SUBSET (Session \cup {NoSession})]
    BY DEF RunLaunch, Core, TypeOK
  <2> QED
    BY <2>1, <2>2 DEF RunLaunch, RunGoto, Core, TypeOK
<1>2. Charge'
  BY DEF RunLaunch, AfterLaunch, Stages, Charge, OneCallInCharge, StartInCharge, StartHolds,
    StopInCharge, StopHolds, LaunchInCharge, LaunchHolds, StartPC, StopPC, Quiet, Launching,
    Core, TypeOK, RunGoto
<1>3. Records'
  BY DEF RunLaunch, AfterLaunch, Stages, Charge, LaunchInCharge, LaunchHolds, Launching,
    Records, StagesAreCurrent, FreshIDs, RunningIsStoppable, WritesGoToOwnSession,
    DropsOfCurrentSession, EndedMeansOver, ErrorHasMessage, Core, TypeOK, RunGoto
<1> QED
  BY <1>1, <1>2, <1>3 DEF Core

\* Entering StateRunning keeps Core.
LEMMA RunRunningInv == ASSUME Core, NEW i \in Session, RunRunning(i) PROVE Core'
<1>1. TypeOK'
  BY ServiceAssumption DEF RunRunning, CallPC, CaptureStatus, Failure, Core, NoStatus,
    RunGoto, RunPC, Stages, State, Status, TypeOK
<1>2. Charge'
  BY ServiceAssumption DEF RunRunning, Charge, Core, LaunchHolds, LaunchInCharge, Launching,
    OneCallInCharge, Quiet, RunGoto, StartHolds, StartInCharge, StartPC, StopHolds,
    StopInCharge, StopPC, TypeOK
<1>3. Records'
  BY ServiceAssumption DEF RunRunning, Charge, Records, DropsOfCurrentSession,
    EndedMeansOver, ErrorHasMessage, FreshIDs, Core, LaunchHolds, LaunchInCharge, Launching,
    Quiet, RunGoto, RunningIsStoppable, StagesAreCurrent, StartHolds, StartPC, StopHolds,
    StopPC, TypeOK, WritesGoToOwnSession
<1> QED
  BY <1>1, <1>2, <1>3 DEF Core

\* Reading the status keeps Core.
LEMMA RunReadStatusInv == ASSUME Core, NEW i \in Session, RunReadStatus(i) PROVE Core'
<1>1. TypeOK'
  BY ServiceAssumption DEF RunReadStatus, CallPC, CaptureStatus, Failure, Core, NoStatus,
    RunGoto, RunPC, Stages, State, Status, TypeOK
<1>2. Charge'
  BY ServiceAssumption DEF RunReadStatus, Charge, Core, LaunchHolds, LaunchInCharge,
    Launching, OneCallInCharge, Quiet, RunGoto, StartHolds, StartInCharge, StartPC,
    StopHolds, StopInCharge, StopPC, TypeOK
<1>3. Records'
  BY ServiceAssumption DEF RunReadStatus, Records, DropsOfCurrentSession, EndedMeansOver,
    ErrorHasMessage, FreshIDs, Core, Launching, RunGoto, RunningIsStoppable,
    StagesAreCurrent, TypeOK, WritesGoToOwnSession
<1> QED
  BY <1>1, <1>2, <1>3 DEF Core

\* Emitting the status keeps Core.
LEMMA RunEmitInv == ASSUME Core, NEW i \in Session, RunEmit(i) PROVE Core'
<1>1. TypeOK'
  BY ServiceAssumption DEF RunEmit, CallPC, CaptureStatus, Failure, Core, NoStatus, RunGoto,
    RunPC, Stages, State, Status, TypeOK
<1>2. Charge'
  BY ServiceAssumption DEF RunEmit, Charge, Core, LaunchHolds, LaunchInCharge, Launching,
    OneCallInCharge, Quiet, RunGoto, StartHolds, StartInCharge, StartPC, StopHolds,
    StopInCharge, StopPC, TypeOK
<1>3. Records'
  BY ServiceAssumption DEF RunEmit, Records, DropsOfCurrentSession, EndedMeansOver,
    ErrorHasMessage, FreshIDs, Core, Launching, RunGoto, RunningIsStoppable,
    StagesAreCurrent, TypeOK, WritesGoToOwnSession
<1> QED
  BY <1>1, <1>2, <1>3 DEF Core

\* Returning from runPipeline keeps Core.
LEMMA RunReturnInv == ASSUME Core, NEW i \in Session, RunReturn(i) PROVE Core'
<1>1. TypeOK'
  BY ServiceAssumption DEF RunReturn, CallPC, CaptureStatus, Failure, Core, NoStatus,
    RunGoto, RunPC, Stages, State, Status, TypeOK
<1>2. Charge'
  BY ServiceAssumption DEF RunReturn, Charge, Core, LaunchHolds, LaunchInCharge, Launching,
    OneCallInCharge, Quiet, RunGoto, StartHolds, StartInCharge, StartPC, StopHolds,
    StopInCharge, StopPC, TypeOK
<1>3. Records'
  BY ServiceAssumption DEF RunReturn, Records, DropsOfCurrentSession, EndedMeansOver,
    ErrorHasMessage, FreshIDs, Core, Launching, RunGoto, RunningIsStoppable,
    StagesAreCurrent, TypeOK, WritesGoToOwnSession
<1> QED
  BY <1>1, <1>2, <1>3 DEF Core

-------------------------------------------------------------------------------
(* The stages *)

\* Counting a dropped packet keeps Core.
LEMMA StageDropInv == ASSUME Core, NEW i \in Session, StageDrop(i) PROVE Core'
<1>1. TypeOK'
  BY ServiceAssumption DEF StageDrop, CallPC, CaptureStatus, Failure, Core, NoStatus, RunPC,
    Stages, State, Status, TypeOK
<1>2. Charge'
  BY ServiceAssumption DEF StageDrop, Charge, Core, LaunchHolds, LaunchInCharge, Launching,
    OneCallInCharge, Quiet, StartHolds, StartInCharge, StartPC, StopHolds, StopInCharge,
    StopPC, TypeOK
<1>3. Records'
  BY ServiceAssumption DEF StageDrop, Records, DropsOfCurrentSession, EndedMeansOver,
    ErrorHasMessage, FreshIDs, Core, Launching, RunningIsStoppable, StagesAreCurrent, TypeOK,
    WritesGoToOwnSession
<1> QED
  BY <1>1, <1>2, <1>3 DEF Core

\* Writing a snapshot keeps Core.
LEMMA StageSnapshotInv == ASSUME Core, NEW i \in Session, StageSnapshot(i) PROVE Core'
<1>1. TypeOK'
  BY ServiceAssumption DEF StageSnapshot, CallPC, CaptureStatus, Failure, Core, NoStatus,
    RunPC, Stages, State, Status, TypeOK
<1>2. Charge'
  BY ServiceAssumption DEF StageSnapshot, Charge, Core, LaunchHolds, LaunchInCharge,
    Launching, OneCallInCharge, Quiet, StartHolds, StartInCharge, StartPC, StopHolds,
    StopInCharge, StopPC, TypeOK
<1>3. Records'
  BY ServiceAssumption DEF StageSnapshot, Records, DropsOfCurrentSession, EndedMeansOver,
    ErrorHasMessage, FreshIDs, Core, Launching, RunningIsStoppable, StagesAreCurrent, TypeOK,
    WritesGoToOwnSession
<1> QED
  BY <1>1, <1>2, <1>3 DEF Core

\* A handle that fails keeps Core.
LEMMA StageFailInv == ASSUME Core, NEW i \in Session, StageFail(i) PROVE Core'
<1>1. TypeOK'
  BY ServiceAssumption DEF StageFail, CallPC, CaptureStatus, Failure, Core, NoStatus, RunPC,
    Stages, State, Status, TypeOK
<1>2. Charge'
  BY ServiceAssumption DEF StageFail, Charge, Core, LaunchHolds, LaunchInCharge, Launching,
    OneCallInCharge, Quiet, StartHolds, StartInCharge, StartPC, StopHolds, StopInCharge,
    StopPC, TypeOK
<1>3. Records'
  BY ServiceAssumption DEF StageFail, Records, DropsOfCurrentSession, EndedMeansOver,
    ErrorHasMessage, FreshIDs, Core, Launching, RunningIsStoppable, StagesAreCurrent, TypeOK,
    WritesGoToOwnSession
<1> QED
  BY <1>1, <1>2, <1>3 DEF Core

\* A stage that returns keeps Core.
LEMMA StageLeaveInv == ASSUME Core, NEW i \in Session, NEW s \in Stages, StageLeave(i, s) PROVE Core'
<1>1. TypeOK'
  BY ServiceAssumption DEF StageLeave, CallPC, CaptureStatus, Failure, Core, MayLeave,
    NoStatus, RunPC, Stages, State, Status, TypeOK
<1>2. Charge'
  BY ServiceAssumption DEF StageLeave, Charge, Core, LaunchHolds, LaunchInCharge, Launching,
    MayLeave, OneCallInCharge, Quiet, StartHolds, StartInCharge, StartPC, StopHolds,
    StopInCharge, StopPC, TypeOK
<1>3. Records'
  BY ServiceAssumption DEF StageLeave, Records, DropsOfCurrentSession, EndedMeansOver,
    ErrorHasMessage, FreshIDs, Core, Launching, MayLeave, RunningIsStoppable,
    StagesAreCurrent, TypeOK, WritesGoToOwnSession
<1> QED
  BY <1>1, <1>2, <1>3 DEF Core

\* A stuttering step.
LEMMA UnchangedInv == ASSUME Core, UNCHANGED vars PROVE Core'
<1>1. TypeOK'
  BY DEF vars, Core, TypeOK
<1>2. Charge'
  BY DEF vars, Core, Charge, OneCallInCharge, StartInCharge, StartHolds, StopInCharge, StopHolds,
    LaunchInCharge, LaunchHolds, Quiet, Launching
<1>3. Records'
  BY DEF vars, Core, Records, StagesAreCurrent, FreshIDs, RunningIsStoppable, WritesGoToOwnSession,
    DropsOfCurrentSession, EndedMeansOver, ErrorHasMessage, Launching
<1> QED
  BY <1>1, <1>2, <1>3 DEF Core

-------------------------------------------------------------------------------
(* The theorems *)

\* Every step keeps Core.
LEMMA CoreNext == Core /\ [Next]_vars => Core'
<1> SUFFICES ASSUME Core, [Next]_vars PROVE Core'
  OBVIOUS
<1>1. ASSUME NEW c \in Clients, Request(c) PROVE Core'
  <2>1. CASE StartRefused(c) \/ StopRefused(c)
    <3>1. UNCHANGED vars
      BY <2>1 DEF StartRefused, StopRefused
    <3> QED
      BY <3>1, UnchangedInv
  <2> QED
    BY <1>1, <2>1, StartBeginInv, StopBeginInv DEF Request
<1>2. ASSUME NEW c \in Clients, StartStep(c) PROVE Core'
  BY <1>2, StartInsertInv, StartInsertFailsInv, StartFailInv, StartPublishInv, StartSpawnInv
    DEF StartStep
<1>3. ASSUME NEW c \in Clients, StopStep(c) PROVE Core'
  BY <1>3, StopCancelInv, StopWaitInv, StopEndInv, StopFinishInv, StopReadStatusInv, StopEmitInv
    DEF StopStep
<1>4. ASSUME NEW i \in Session, RunStep(i) PROVE Core'
  BY <1>4, RunContextInv, RunOpenInv, RunFailInv, RunLaunchInv, RunRunningInv, RunReadStatusInv,
    RunEmitInv, RunReturnInv DEF RunStep
<1>5. ASSUME NEW i \in Session, StageStep(i) PROVE Core'
  BY <1>5, StageDropInv, StageSnapshotInv, StageFailInv DEF StageStep
<1>6. CASE UNCHANGED vars
  BY <1>6, UnchangedInv
<1> QED
  BY <1>1, <1>2, <1>3, <1>4, <1>5, <1>6, StageLeaveInv DEF Next

\* No other part of Inv is needed for Core.
LEMMA CoreInvariant == Spec => []Core
BY CoreInit, CoreNext, PTL DEF Spec

\* runPipeline changes which stages it has still to launch by launching one only.
LEMMA RunKeepsLaunched ==
    ASSUME Core, StagesInOrder, NEW i \in Session, RunStep(i), ~RunLaunch(i)
    PROVE  NotLaunched(i)' = NotLaunched(i)
<1>1. readIDs'[i] = readIDs[i]
  BY DEF RunStep, RunContext, RunOpen, RunFail, RunRunning, RunReadStatus, RunEmit, RunReturn
<1>2. readIDs[i] = {} <=> "aggregator" \in NotLaunched(i)
  BY DEF StagesInOrder
<1>3. CASE RunContext(i) \/ RunOpen(i) \/ RunFail(i)
  <2>1. rpc[i] \in {"context", "open", "fail"} /\ rpc'[i] \in {"open", "capture", "fail", "failstatus"}
    BY <1>3 DEF Core, TypeOK, RunContext, RunOpen, RunFail, RunGoto
  <2> QED
    BY <2>1 DEF NotLaunched
<1>4. CASE RunRunning(i) \/ RunReadStatus(i)
  <2>1. \/ rpc[i] \in {"running", "status"} /\ rpc'[i] \in {"status", "emit"}
        \/ rpc[i] = "failstatus" /\ rpc'[i] = "failemit"
    BY <1>4 DEF Core, TypeOK, RunRunning, RunReadStatus, RunGoto
  <2> QED
    BY <2>1 DEF NotLaunched
<1>5. CASE RunEmit(i) \/ RunReturn(i)
  <2>1. \/ rpc[i] = "emit" /\ rpc'[i] = "block"
        \/ rpc[i] = "failemit" /\ rpc'[i] = "returned"
        \/ rpc[i] = "block" /\ rpc'[i] = "returned"
    BY <1>5 DEF Core, TypeOK, RunEmit, RunReturn, RunGoto
  <2> QED
    BY <1>1, <1>2, <2>1 DEF NotLaunched, Stages
<1> QED
  BY <1>3, <1>4, <1>5 DEF RunStep

\* A session's stages are launched in order, and no step of another goroutine
\* interferes.
LEMMA StagesInOrderNext == Core /\ StagesInOrder /\ [Next]_vars => StagesInOrder'
<1> SUFFICES ASSUME Core, StagesInOrder, [Next]_vars PROVE StagesInOrder'
  OBVIOUS
<1> USE DEF Core, TypeOK
<1>1. ASSUME NEW c \in Clients, Request(c) \/ StartStep(c) \/ StopStep(c), ~StartSpawn(c)
      PROVE  StagesInOrder'
  <2>1. UNCHANGED <<rpc, alive, readIDs>>
    BY <1>1 DEF Request, StartStep, StopStep, StartRefused, StartBegin, StopRefused, StopBegin, vars,
       StartInsert, StartInsertFails, StartFail, StartPublish, StopCancel, StopWait, StopEnd,
       StopFinish, StopReadStatus, StopEmit
  <2> QED
    BY <2>1 DEF StagesInOrder, NotLaunched
<1>2. ASSUME NEW c \in Clients, StartSpawn(c) PROVE StagesInOrder'
  <2>1. csid[c] \in Session /\ rpc[csid[c]] = "none"
    BY <1>2 DEF StartSpawn, Charge, StartInCharge, StartHolds, StartPC
  <2>2. \A i \in Session : rpc'[i] = IF i = csid[c] THEN "context" ELSE rpc[i]
    BY <1>2, <2>1 DEF StartSpawn
  <2>3. UNCHANGED <<alive, readIDs>>
    BY <1>2 DEF StartSpawn
  <2>4. \A i \in Session : NotLaunched(i)' = NotLaunched(i)
    BY <2>1, <2>2, <2>3 DEF NotLaunched
  <2> QED
    BY <2>3, <2>4 DEF StagesInOrder
<1>3. ASSUME NEW i \in Session, RunLaunch(i) PROVE StagesInOrder'
  <2> SUFFICES ASSUME NEW j \in Session
               PROVE  /\ alive'[j] \cap NotLaunched(j)' = {}
                      /\ readIDs'[j] = {} <=> "aggregator" \in NotLaunched(j)'
    BY DEF StagesInOrder
  <2>1. CASE j # i
    BY <1>3, <2>1 DEF RunLaunch, RunGoto, StagesInOrder, NotLaunched
  <2>2. CASE j = i
    <3>1. rpc[i] \in Stages /\ rpc'[i] = AfterLaunch[rpc[i]] /\ alive'[i] = alive[i] \cup {rpc[i]}
      BY <1>3 DEF RunLaunch, RunGoto
    <3>2. readIDs'[i] = IF rpc[i] = "aggregator" THEN readIDs[i] \cup {sessionID} ELSE readIDs[i]
      BY <1>3 DEF RunLaunch
    <3>3. /\ alive[i] \cap NotLaunched(i) = {}
          /\ readIDs[i] = {} <=> "aggregator" \in NotLaunched(i)
      BY DEF StagesInOrder
    <3> QED
      BY <2>2, <3>1, <3>2, <3>3 DEF NotLaunched, AfterLaunch, Stages
  <2> QED
    BY <2>1, <2>2
<1>4. ASSUME NEW i \in Session, RunStep(i), ~RunLaunch(i) PROVE StagesInOrder'
  <2>1. UNCHANGED <<alive, readIDs>>
    BY <1>4 DEF RunStep, RunContext, RunOpen, RunFail, RunRunning, RunReadStatus, RunEmit, RunReturn
  <2>2. \A j \in Session : j # i => rpc'[j] = rpc[j]
    BY <1>4 DEF RunStep, RunContext, RunOpen, RunFail, RunRunning, RunReadStatus, RunEmit, RunReturn,
       RunGoto
  <2>3. NotLaunched(i)' = NotLaunched(i)
    BY <1>4, RunKeepsLaunched
  <2>4. \A j \in Session : NotLaunched(j)' = NotLaunched(j)
    <3> SUFFICES ASSUME NEW j \in Session, j # i PROVE NotLaunched(j)' = NotLaunched(j)
      BY <2>3
    <3> QED
      BY <2>1, <2>2 DEF NotLaunched
  <2> QED
    BY <2>1, <2>4 DEF StagesInOrder
<1>5. ASSUME NEW i \in Session, StageStep(i) PROVE StagesInOrder'
  <2>1. UNCHANGED <<rpc, alive>>
    BY <1>5 DEF StageStep, StageDrop, StageSnapshot, StageFail
  <2>2. \A j \in Session : readIDs'[j] = {} <=> readIDs[j] = {}
    <3>1. CASE StageDrop(i) \/ StageFail(i)
      BY <3>1 DEF StageDrop, StageFail
    <3>2. CASE StageSnapshot(i)
      <4>1. readIDs' = [readIDs EXCEPT ![i] = @ \cup {sessionID}] /\ "aggregator" \in alive[i]
        BY <3>2 DEF StageSnapshot
      <4>2. readIDs[i] # {}
        BY <4>1 DEF StagesInOrder
      <4> QED
        BY <4>1, <4>2
    <3> QED
      BY <1>5, <3>1, <3>2 DEF StageStep
  <2> QED
    BY <2>1, <2>2 DEF StagesInOrder, NotLaunched
<1>6. ASSUME NEW i \in Session, NEW s \in Stages, StageLeave(i, s) PROVE StagesInOrder'
  BY <1>6 DEF StageLeave, StagesInOrder, NotLaunched
<1>7. CASE UNCHANGED vars
  BY <1>7 DEF vars, StagesInOrder, NotLaunched
<1> QED
  BY <1>1, <1>2, <1>3, <1>4, <1>5, <1>6, <1>7 DEF Next

\* Inv is an invariant of the service: at any time at most one goroutine is in
\* charge of starting, launching or stopping, the fields agree with it, and the
\* stages of a session are those it has launched.
THEOREM ServiceInvariant == Spec => []Inv
<1>1. Init => StagesInOrder
  BY DEF Init, StagesInOrder, NotLaunched, Stages
<1>2. Core /\ StagesInOrder <=> Inv
  BY DEF Inv
<1> QED
  BY <1>1, <1>2, CoreInit, CoreNext, StagesInOrderNext, PTL DEF Spec

\* Every variable of the service keeps its type; no id is used that the table
\* has not handed out.
THEOREM TypeCorrect == Spec => []TypeOK
<1>1. Core => TypeOK
  BY DEF Core
<1> QED
  BY <1>1, CoreInvariant, PTL

\* When the service is idle or has failed, nothing of an earlier capture is left
\* that could write to its session or overwrite the state.
THEOREM QuietWhenIdle == Spec => []IdleMeansQuiet
<1>1. Core => IdleMeansQuiet
  BY NobodyInCharge DEF IdleMeansQuiet, Quiet
<1> QED
  BY <1>1, CoreInvariant, PTL

\* The pipelines of two sessions never overlap.
THEOREM OnePipeline == Spec => []OnePipelineAtATime
<1>1. Core => OnePipelineAtATime
  BY DEF Core, Charge, LaunchInCharge, LaunchHolds, Records, StagesAreCurrent, OnePipelineAtATime,
    Quiet
<1> QED
  BY <1>1, CoreInvariant, PTL

\* The fields read without the lock are right when they are read: what a pipeline
\* writes carries its own session's id, its row is open, its drops are counted for
\* it, and a row is marked ended after the pipeline is over.
THEOREM UnlockedReadsAreRight ==
    Spec => [](WritesGoToOwnSession /\ DropsOfCurrentSession /\ EndedMeansOver)
<1>1. Core => WritesGoToOwnSession /\ DropsOfCurrentSession /\ EndedMeansOver
  BY DEF Core, Records
<1> QED
  BY <1>1, CoreInvariant, PTL

\* StopCapture stops the right session and all of it: the capture it finds running
\* can be stopped, it cancels that session's context, it is the only call at work,
\* and no stage is launched while it waits or after it has waited.
THEOREM StopIsRight ==
    Spec => [](/\ RunningIsStoppable /\ OneCallInCharge
               /\ StopCancelsItsSession /\ NoLaunchDuringStop)
<1>1. Core => RunningIsStoppable /\ OneCallInCharge
  BY DEF Core, Charge, Records
<1>2. Core => StopCancelsItsSession /\ NoLaunchDuringStop
  BY DEF Core, Charge, StopInCharge, StopHolds, StopPC, StopCancelsItsSession, NoLaunchDuringStop
<1> QED
  BY <1>1, <1>2, CoreInvariant, PTL

-------------------------------------------------------------------------------
(* The stages of every session keep the contract of StageGroup *)

\* A step that leaves a session's stages and context alone is a stutter of its group.
LEMMA GroupStutter ==
    ASSUME NEW i \in Session, Unreturned(i)' = Unreturned(i), cancelled'[i] = cancelled[i],
           over'[i] = over[i]
    PROVE  [Group(i)!Next]_(Group(i)!vars)
BY DEF Group!vars

\* cancel() is the only thing that happens to a group from outside.
LEMMA GroupCancel ==
    ASSUME NEW i \in Session, Unreturned(i)' = Unreturned(i), cancelled'[i], cancelled[i] \in BOOLEAN,
           over'[i] = over[i], cancelled'[i] \in BOOLEAN
    PROVE  [Group(i)!Next]_(Group(i)!vars)
BY DEF Group!vars, Group!Next, Group!Cancel

\* Every step of the service keeps the contract of every session's stages.
LEMMA GroupStep ==
    ASSUME Core, StagesInOrder, [Next]_vars, NEW j \in Session
    PROVE  [Group(j)!Next]_(Group(j)!vars)
<1> USE DEF Core, TypeOK
<1>1. ASSUME NEW c \in Clients, Request(c) \/ StartStep(c) \/ StopStep(c), ~StartSpawn(c),
             ~StopCancel(c)
      PROVE  [Group(j)!Next]_(Group(j)!vars)
  <2>1. UNCHANGED <<rpc, alive, readIDs, cancelled, over>>
    BY <1>1 DEF Request, StartStep, StopStep, StartRefused, StartBegin, StopRefused, StopBegin, vars,
       StartInsert, StartInsertFails, StartFail, StartPublish, StopWait, StopEnd, StopFinish,
       StopReadStatus, StopEmit
  <2> QED
    BY <2>1, GroupStutter DEF Unreturned, NotLaunched
<1>2. ASSUME NEW c \in Clients, StartSpawn(c) PROVE [Group(j)!Next]_(Group(j)!vars)
  <2>1. csid[c] \in Session /\ rpc[csid[c]] = "none"
    BY <1>2 DEF StartSpawn, Charge, StartInCharge, StartHolds, StartPC
  <2>2. rpc'[j] = IF j = csid[c] THEN "context" ELSE rpc[j]
    BY <1>2, <2>1 DEF StartSpawn
  <2>3. UNCHANGED <<alive, readIDs, cancelled, over>>
    BY <1>2 DEF StartSpawn
  <2>4. Unreturned(j)' = Unreturned(j)
    BY <2>1, <2>2, <2>3 DEF Unreturned, NotLaunched
  <2> QED
    BY <2>3, <2>4, GroupStutter
<1>3. ASSUME NEW c \in Clients, StopCancel(c) PROVE [Group(j)!Next]_(Group(j)!vars)
  <2>1. UNCHANGED <<rpc, alive, readIDs, over>> /\ cancelled'[j] = (cancelled[j] \/ j = cancel)
    BY <1>3 DEF StopCancel
  <2>2. Unreturned(j)' = Unreturned(j)
    BY <2>1 DEF Unreturned, NotLaunched
  <2>3. CASE cancelled'[j] = cancelled[j]
    BY <2>1, <2>2, <2>3, GroupStutter
  <2>4. CASE cancelled'[j] # cancelled[j]
    BY <2>1, <2>2, <2>4, GroupCancel
  <2> QED
    BY <2>3, <2>4
<1>4. ASSUME NEW i \in Session, RunLaunch(i) PROVE [Group(j)!Next]_(Group(j)!vars)
  <2>1. Unreturned(j)' = Unreturned(j)
    <3>1. CASE j # i
      BY <1>4, <3>1 DEF RunLaunch, RunGoto, Unreturned, NotLaunched
    <3>2. CASE j = i
      <4>1. /\ rpc[i] \in Stages /\ rpc'[i] = AfterLaunch[rpc[i]]
            /\ alive'[i] = alive[i] \cup {rpc[i]} /\ alive[i] \subseteq Stages
        BY <1>4 DEF RunLaunch, RunGoto
      <4> QED
        BY <3>2, <4>1 DEF Unreturned, NotLaunched, AfterLaunch, Stages
    <3> QED
      BY <3>1, <3>2
  <2> QED
    BY <1>4, <2>1, GroupStutter DEF RunLaunch
<1>5. ASSUME NEW i \in Session, RunStep(i), ~RunLaunch(i) PROVE [Group(j)!Next]_(Group(j)!vars)
  <2>1. UNCHANGED <<alive, readIDs, over>> /\ (j # i => rpc'[j] = rpc[j])
    BY <1>5 DEF RunStep, RunContext, RunOpen, RunFail, RunRunning, RunReadStatus, RunEmit, RunReturn,
       RunGoto
  <2>2. Unreturned(j)' = Unreturned(j)
    <3>1. CASE j # i
      BY <2>1, <3>1 DEF Unreturned, NotLaunched
    <3>2. CASE j = i
      BY <1>5, <2>1, <3>2, RunKeepsLaunched DEF Unreturned
    <3> QED
      BY <3>1, <3>2
  <2>3. cancelled'[j] = cancelled[j] \/ (cancelled'[j] = TRUE /\ cancelled[j] = FALSE)
    BY <1>5 DEF RunStep, RunContext, RunOpen, RunFail, RunRunning, RunReadStatus, RunEmit, RunReturn
  <2> QED
    BY <2>1, <2>2, <2>3, GroupStutter, GroupCancel
<1>6. ASSUME NEW i \in Session, StageStep(i) PROVE [Group(j)!Next]_(Group(j)!vars)
  <2>1. UNCHANGED <<rpc, alive, cancelled>>
    BY <1>6 DEF StageStep, StageDrop, StageSnapshot, StageFail
  <2>2. readIDs'[j] = {} <=> readIDs[j] = {}
    <3>1. CASE StageDrop(i) \/ StageFail(i)
      BY <3>1 DEF StageDrop, StageFail
    <3>2. CASE StageSnapshot(i)
      <4>1. readIDs' = [readIDs EXCEPT ![i] = @ \cup {sessionID}] /\ "aggregator" \in alive[i]
        BY <3>2 DEF StageSnapshot
      <4>2. readIDs[i] # {}
        BY <4>1 DEF StagesInOrder
      <4> QED
        BY <4>1, <4>2
    <3> QED
      BY <1>6, <3>1, <3>2 DEF StageStep
  <2>3. Unreturned(j)' = Unreturned(j)
    BY <2>1, <2>2 DEF Unreturned, NotLaunched
  <2>4. CASE over'[j] = over[j]
    BY <2>1, <2>3, <2>4, GroupStutter
  <2>5. CASE over'[j] # over[j]
    <3>1. i = j /\ StageFail(i)
      BY <1>6, <2>5 DEF StageStep, StageDrop, StageSnapshot, StageFail
    <3>2. "capture" \in Unreturned(j) /\ ~over[j] /\ over'[j] = TRUE
      BY <3>1 DEF StageFail, Unreturned
    <3>3. Group(j)!Fail
      BY <2>1, <2>3, <3>2 DEF Group!Fail
    <3> QED
      BY <3>3 DEF Group!Next
  <2> QED
    BY <2>4, <2>5
<1>7. ASSUME NEW i \in Session, NEW s \in Stages, StageLeave(i, s)
      PROVE  [Group(j)!Next]_(Group(j)!vars)
  <2>1. UNCHANGED <<rpc, readIDs, cancelled, over>> /\ NotLaunched(j)' = NotLaunched(j)
    BY <1>7 DEF StageLeave, NotLaunched
  <2>2. CASE j # i
    <3>1. alive'[j] = alive[j]
      BY <1>7, <2>2 DEF StageLeave
    <3> QED
      BY <2>1, <3>1, GroupStutter DEF Unreturned
  <2>3. CASE j = i
    <3>1. s \in alive[j] /\ alive'[j] = alive[j] \ {s} /\ (cancelled[j] \/ over[j])
      BY <1>7, <2>3 DEF StageLeave, MayLeave
    <3>2. s \in Unreturned(j) /\ Unreturned(j)' = Unreturned(j) \ {s}
      BY <2>1, <3>1 DEF Unreturned, StagesInOrder
    <3>3. Group(j)!Leave(s)
      BY <2>1, <3>1, <3>2 DEF Group!Leave
    <3> QED
      BY <3>3 DEF Group!Next, Group!Stages, Stages
  <2> QED
    BY <2>2, <2>3
<1>8. CASE UNCHANGED vars
  BY <1>8, GroupStutter DEF vars, Unreturned, NotLaunched
<1> QED
  BY <1>1, <1>2, <1>3, <1>4, <1>5, <1>6, <1>7, <1>8 DEF Next

\* What CapturePipeline implements is all that the stages of a session do in the
\* service: launching them late and reading fields without the lock does not show
\* (capture_service.go:168-223).
THEOREM ServiceKeepsContract == Spec => StagesKeepContract
<1>1. Core /\ StagesInOrder /\ [Next]_vars => [GroupsStep]_vars
  BY GroupStep DEF GroupsStep
<1>2. Inv <=> Core /\ StagesInOrder
  BY DEF Inv
<1> QED
  BY <1>1, <1>2, ServiceInvariant, PTL DEF Spec, StagesKeepContract

-------------------------------------------------------------------------------
(* The service implements CaptureLifecycle *)

\* A call that moves in the service moves in what the frontend sees of it, ...
LEMMA CallSeenMoves ==
    ASSUME Core, NEW c \in Clients, NEW pc \in CallPC, cpc' = [cpc EXCEPT ![c] = pc]
    PROVE  CallSeen' = [CallSeen EXCEPT ![c] = CallAs(pc)]
BY DEF Core, TypeOK, CallSeen

\* ... and so does a pipeline.
LEMMA RunSeenMoves ==
    ASSUME Core, NEW i \in Session, NEW pc \in RunPC, rpc' = [rpc EXCEPT ![i] = pc]
    PROVE  RunSeen' = [RunSeen EXCEPT ![i] = RunAs(pc)]
BY DEF Core, TypeOK, RunSeen

\* A move that the frontend does not see.
LEMMA CallStutter ==
    ASSUME Core, NEW c \in Clients, NEW pc \in CallPC, cpc' = [cpc EXCEPT ![c] = pc],
           CallAs(cpc[c]) = CallAs(pc), UNCHANGED <<state, sessionID, rpc>>
    PROVE  UNCHANGED Life!lifeVars
<1>1. CallSeen' = CallSeen
  BY CallSeenMoves DEF CallSeen
<1> QED
  BY <1>1 DEF Life!lifeVars, RunSeen

LEMMA RunStutter ==
    ASSUME Core, NEW i \in Session, NEW pc \in RunPC, rpc' = [rpc EXCEPT ![i] = pc],
           RunAs(rpc[i]) = RunAs(pc), UNCHANGED <<state, sessionID, cpc>>
    PROVE  UNCHANGED Life!lifeVars
<1>1. RunSeen' = RunSeen
  BY RunSeenMoves DEF RunSeen
<1> QED
  BY <1>1 DEF Life!lifeVars, CallSeen

\* The initial state of the service is the one of the lifecycle.
LEMMA LifeInitially == Init => Life!LifeInit
BY DEF Init, Life!LifeInit, CallSeen, RunSeen, CallAs, RunAs, NoSession, Life!NoSession,
       Life!Session, Session

\* The steps of StartCapture.
LEMMA StartSeen ==
    ASSUME Core, NEW c \in Clients, StartBegin(c) \/ StartStep(c)
    PROVE  [Life!LifeNext]_(Life!lifeVars)
<1> USE DEF Core, TypeOK
<1>1. CASE StartBegin(c)
  <2>1. CallSeen[c] = "ready" /\ CallSeen' = [CallSeen EXCEPT ![c] = "create"]
    BY <1>1, CallSeenMoves DEF StartBegin, CallSeen, CallAs, CallPC
  <2>2. RunSeen' = RunSeen
    BY <1>1 DEF StartBegin, runVars, RunSeen
  <2>3. Life!Fresh(lastID + 1) /\ lastID + 1 \in Session
    BY <1>1, ServiceAssumption DEF StartBegin, Life!Fresh, Life!Session, Session, Records, FreshIDs,
       RunSeen, RunAs
  <2>4. Life!Claim(c)
    BY <1>1, <2>1, <2>2, <2>3 DEF StartBegin, MayStart, Life!Claim, Life!CallMoves, Life!MayStart,
       Life!Session, Session
  <2> QED
    BY <2>4 DEF Life!LifeNext
<1>2. CASE StartInsert(c)
  BY <1>2, CallStutter DEF StartInsert, CallPC, CallAs, lockVars, runVars
<1>3. CASE StartInsertFails(c)
  BY <1>3, CallStutter DEF StartInsertFails, CallPC, CallAs, lockVars, runVars
<1>4. CASE StartFail(c)
  <2>1. CallSeen[c] = "create" /\ CallSeen' = [CallSeen EXCEPT ![c] = "ready"]
    BY <1>4, CallSeenMoves DEF StartFail, CallSeen, CallAs, CallPC
  <2>2. Life!StartFails(c)
    BY <1>4, <2>1 DEF StartFail, runVars, RunSeen, Life!StartFails, Life!CallMoves
  <2> QED
    BY <2>2 DEF Life!LifeNext
<1>5. CASE StartPublish(c)
  <2>1. CallSeen[c] = "create" /\ CallSeen' = [CallSeen EXCEPT ![c] = "spawn"]
    BY <1>5, CallSeenMoves DEF StartPublish, CallSeen, CallAs, CallPC
  <2>2. csid[c] = lastID /\ csid[c] \in Session /\ rpc[csid[c]] = "none"
    BY <1>5 DEF StartPublish, Charge, StartInCharge, StartHolds, StartPC
  <2>3. Life!Fresh(csid[c])
    BY <2>2, ServiceAssumption DEF Life!Fresh, Life!Session, Session, Records, FreshIDs, RunSeen, RunAs
  <2>4. Life!Publish(c)
    BY <1>5, <2>1, <2>2, <2>3 DEF StartPublish, runVars, RunSeen, Life!Publish, Life!CallMoves,
       Life!Session, Session
  <2> QED
    BY <2>4 DEF Life!LifeNext
<1>6. CASE StartSpawn(c)
  <2>1. CallSeen[c] = "spawn" /\ CallSeen' = [CallSeen EXCEPT ![c] = "ready"]
    BY <1>6, CallSeenMoves DEF StartSpawn, CallSeen, CallAs, CallPC
  <2>2. csid[c] = sessionID /\ csid[c] \in Session
    BY <1>6 DEF StartSpawn, Charge, StartInCharge, StartHolds, StartPC
  <2>3. RunSeen' = [RunSeen EXCEPT ![sessionID] = "opening"]
    BY <1>6, <2>2, RunSeenMoves DEF StartSpawn, RunPC, RunAs
  <2>4. Life!Spawn(c)
    BY <1>6, <2>1, <2>2, <2>3 DEF StartSpawn, lockVars, Life!Spawn, Life!NoSession, Session
  <2> QED
    BY <2>4 DEF Life!LifeNext
<1> QED
  BY <1>1, <1>2, <1>3, <1>4, <1>5, <1>6 DEF StartStep

\* The steps of StopCapture.
LEMMA StopSeen ==
    ASSUME Core, NEW c \in Clients, StopBegin(c) \/ StopStep(c)
    PROVE  [Life!LifeNext]_(Life!lifeVars)
<1> USE DEF Core, TypeOK
<1>1. CASE StopBegin(c)
  <2>1. CallSeen[c] = "ready" /\ CallSeen' = [CallSeen EXCEPT ![c] = "stop"]
    BY <1>1, CallSeenMoves DEF StopBegin, CallSeen, CallAs, CallPC
  <2>2. Life!ClaimStop(c)
    BY <1>1, <2>1 DEF StopBegin, MayStop, runVars, RunSeen, Life!ClaimStop, Life!CallMoves, Life!MayStop
  <2> QED
    BY <2>2 DEF Life!LifeNext
<1>2. CASE StopCancel(c)
  BY <1>2, CallStutter DEF StopCancel, CallPC, CallAs, lockVars, runVars
<1>3. CASE StopWait(c)
  BY <1>3, CallStutter DEF StopWait, CallPC, CallAs, lockVars, runVars
<1>4. CASE StopEnd(c)
  BY <1>4, CallStutter DEF StopEnd, CallPC, CallAs, lockVars, runVars
<1>5. CASE StopFinish(c)
  <2>1. CallSeen[c] = "stop" /\ CallSeen' = [CallSeen EXCEPT ![c] = "report"]
    BY <1>5, CallSeenMoves DEF StopFinish, CallSeen, CallAs, CallPC
  <2>2. state = "stopping"
    BY <1>5 DEF StopFinish, Charge, StopInCharge, StopHolds, StopPC
  <2>3. Life!Finish(c)
    BY <1>5, <2>1, <2>2 DEF StopFinish, ResetSession, NoSession, runVars, RunSeen, Life!Finish,
       Life!CallMoves, Life!NoSession
  <2> QED
    BY <2>3 DEF Life!LifeNext
<1>6. CASE StopReadStatus(c)
  <2>1. CallSeen[c] = "report" /\ CallSeen' = [CallSeen EXCEPT ![c] = "ready"]
    BY <1>6, CallSeenMoves DEF StopReadStatus, CallSeen, CallAs, CallPC
  <2>2. Life!ReportByCall(c)
    BY <1>6, <2>1 DEF StopReadStatus, lockVars, runVars, RunSeen, Life!ReportByCall, Life!CallMoves
  <2> QED
    BY <2>2 DEF Life!LifeNext
<1>7. CASE StopEmit(c)
  BY <1>7, CallStutter DEF StopEmit, CallPC, CallAs, lockVars, runVars
<1> QED
  BY <1>1, <1>2, <1>3, <1>4, <1>5, <1>6, <1>7 DEF StopStep

\* The steps of runPipeline: it finds the service as StartCapture has left it.
LEMMA RunIsSeen ==
    ASSUME Core, NEW i \in Session, RunStep(i)
    PROVE  [Life!LifeNext]_(Life!lifeVars)
<1> USE DEF Core, TypeOK
<1>1. CASE RunContext(i)
  BY <1>1, RunStutter DEF RunContext, RunGoto, RunPC, RunAs, lockVars, callVars
<1>2. CASE RunOpen(i)
  BY <1>2, RunStutter DEF RunOpen, RunGoto, RunPC, RunAs, lockVars, callVars
<1>3. CASE RunFail(i) \/ RunRunning(i)
  <2>1. PICK pc \in {"failstatus", "status"} : rpc' = [rpc EXCEPT ![i] = pc]
    BY <1>3 DEF RunFail, RunRunning, RunGoto
  <2>2. RunSeen[i] = "opening" /\ RunSeen' = [RunSeen EXCEPT ![i] = "report"]
    BY <1>3, <2>1, RunSeenMoves DEF RunFail, RunRunning, RunSeen, RunAs, RunPC
  <2>3. state = "starting" /\ sessionID = i
    BY <1>3 DEF RunFail, RunRunning, Charge, LaunchInCharge, LaunchHolds, Launching
  <2>4. Life!Opened(i)
    BY <1>3, <2>2, <2>3 DEF RunFail, RunRunning, callVars, CallSeen, Life!Opened
  <2> QED
    BY <2>4 DEF Life!LifeNext, Life!Session, Session
<1>4. CASE RunLaunch(i)
  <2>1. rpc[i] \in {"capture", "processor", "aggregator"}
    BY <1>4 DEF RunLaunch, Stages
  <2>2. /\ AfterLaunch[rpc[i]] \in {"processor", "aggregator", "running"}
        /\ rpc' = [rpc EXCEPT ![i] = AfterLaunch[rpc[i]]]
    BY <1>4, <2>1 DEF RunLaunch, RunGoto, AfterLaunch
  <2> QED
    BY <1>4, <2>1, <2>2, RunStutter DEF RunLaunch, RunPC, RunAs, lockVars, callVars
<1>5. CASE RunReadStatus(i)
  <2>1. PICK pc \in {"failemit", "emit"} : rpc' = [rpc EXCEPT ![i] = pc]
    BY <1>5 DEF RunReadStatus, RunGoto
  <2>2. RunSeen[i] = "report" /\ RunSeen' = [RunSeen EXCEPT ![i] = "over"]
    BY <1>5, <2>1, RunSeenMoves DEF RunReadStatus, RunSeen, RunAs, RunPC
  <2>3. Life!ReportByRun(i)
    BY <1>5, <2>2 DEF RunReadStatus, lockVars, callVars, CallSeen, Life!ReportByRun
  <2> QED
    BY <2>3 DEF Life!LifeNext, Life!Session, Session
<1>6. CASE RunEmit(i)
  <2>1. PICK pc \in {"block", "returned"} : rpc' = [rpc EXCEPT ![i] = pc]
    BY <1>6 DEF RunEmit, RunGoto
  <2> QED
    BY <1>6, <2>1, RunStutter DEF RunEmit, RunPC, RunAs, lockVars, callVars
<1>7. CASE RunReturn(i)
  BY <1>7, RunStutter DEF RunReturn, RunGoto, RunPC, RunAs, lockVars, callVars
<1> QED
  BY <1>1, <1>2, <1>3, <1>4, <1>5, <1>6, <1>7 DEF RunStep

\* Stages are not seen.
LEMMA StagesUnseen ==
    ASSUME NEW i \in Session, StageStep(i) \/ \E s \in Stages : StageLeave(i, s)
    PROVE  UNCHANGED Life!lifeVars
BY DEF StageStep, StageDrop, StageSnapshot, StageFail, StageLeave, lockVars, callVars, runVars,
       CallSeen, RunSeen, Life!lifeVars

\* The service implements what the frontend relies on: every step is one of the
\* lifecycle or not seen, so that the state is only ever set by the goroutine that
\* may set it, although most lock sections do not look at what they overwrite.
THEOREM ServiceImplementsLifecycle == Spec => ImplementsLifecycle
<1>1. Init => Life!LifeInit
  BY LifeInitially
<1>2. Core /\ [Next]_vars => [Life!LifeNext]_(Life!lifeVars)
  <2> SUFFICES ASSUME Core, [Next]_vars PROVE [Life!LifeNext]_(Life!lifeVars)
    OBVIOUS
  <2>1. ASSUME NEW c \in Clients, Request(c) \/ StartStep(c) \/ StopStep(c)
        PROVE  [Life!LifeNext]_(Life!lifeVars)
    <3>1. CASE StartRefused(c) \/ StopRefused(c)
      BY <3>1 DEF StartRefused, StopRefused, vars, lockVars, callVars, runVars, CallSeen, RunSeen,
         Life!lifeVars
    <3> QED
      BY <2>1, <3>1, StartSeen, StopSeen DEF Request
  <2>2. ASSUME NEW i \in Session, RunStep(i) PROVE [Life!LifeNext]_(Life!lifeVars)
    BY <2>2, RunIsSeen
  <2>3. ASSUME NEW i \in Session, StageStep(i) \/ \E s \in Stages : StageLeave(i, s)
        PROVE  [Life!LifeNext]_(Life!lifeVars)
    BY <2>3, StagesUnseen
  <2>4. CASE UNCHANGED vars
    BY <2>4 DEF vars, lockVars, callVars, runVars, CallSeen, RunSeen, Life!lifeVars
  <2> QED
    BY <2>1, <2>2, <2>3, <2>4 DEF Next
<1> QED
  BY <1>1, <1>2, CoreInvariant, PTL DEF Spec, ImplementsLifecycle

-------------------------------------------------------------------------------
(* Why a stop does not hang *)

\* Every stage that StopCapture waits for belongs to the session it stops and has been
\* told to leave: s.cancel was neither nil nor that of another session.
StopWaitsForLeavers ==
    \A c \in Clients : cpc[c] = "wait" =>
        \A i \in Session : alive[i] # {} => i = csid[c] /\ cancelled[i] /\ MayLeave(i)

\* The steps until StopCapture releases the service: its own and a return of every stage.
StopPlace(at) == IF at = "cancel" THEN 4 ELSE IF at = "wait" THEN 3
                 ELSE IF at = "end" THEN 2 ELSE IF at = "finish" THEN 1 ELSE 0
StopLeft(c)   == StopPlace(cpc[c]) + Cardinality(alive[csid[c]])

\* While a StopCapture is at work no step of anybody gives it more to wait for.
StopShrinks ==
    [][\A c \in Clients : cpc[c] \in StopPC =>
           StopLeft(c)' < StopLeft(c) \/ UNCHANGED <<cpc[c], csid[c], alive[csid[c]]>>]_vars

\* The stages of a session can be counted, and there are at most three.
LEMMA StagesCount ==
    ASSUME NEW S \in SUBSET Stages
    PROVE  IsFiniteSet(S) /\ Cardinality(S) \in 0..3
<1>1. IsFiniteSet({}) /\ Cardinality({}) = 0
  BY FS_EmptySet
<1>2. IsFiniteSet({"capture"}) /\ Cardinality({"capture"}) \in 0..1
  BY <1>1, FS_AddElement
<1>3. IsFiniteSet({"capture"} \cup {"processor"}) /\ Cardinality({"capture"} \cup {"processor"}) \in 0..2
  BY <1>2, FS_AddElement
<1>4. /\ IsFiniteSet(({"capture"} \cup {"processor"}) \cup {"aggregator"})
      /\ Cardinality(({"capture"} \cup {"processor"}) \cup {"aggregator"}) \in 0..3
  BY <1>3, FS_AddElement
<1>5. Stages = ({"capture"} \cup {"processor"}) \cup {"aggregator"}
  BY DEF Stages
<1>6. IsFiniteSet(S) /\ Cardinality(S) <= Cardinality(Stages) /\ Cardinality(S) \in Nat
  BY <1>4, <1>5, FS_Subset, FS_CardinalityType
<1> QED
  BY <1>4, <1>5, <1>6

\* A StopCapture at work finds its session, and nobody launches or claims anything.
LEMMA StopAlone ==
    ASSUME Core, NEW c \in Clients, cpc[c] \in StopPC
    PROVE  /\ csid[c] \in Session /\ alive[csid[c]] \in SUBSET Stages
           /\ StopLeft(c) \in Nat /\ StopLeft(c) <= 7
           /\ \A i \in Session : ~Launching(i)
<1>1. csid[c] \in Session /\ alive[csid[c]] \in SUBSET Stages /\ \A i \in Session : ~Launching(i)
  BY DEF Core, TypeOK, Charge, StopInCharge, StopHolds
<1>2. StopPlace(cpc[c]) \in 0..4
  BY DEF StopPlace
<1>3. Cardinality(alive[csid[c]]) \in 0..3
  BY <1>1, StagesCount
<1> QED
  BY <1>1, <1>2, <1>3 DEF StopLeft

\* A step of the call itself brings it nearer to its end.
LEMMA StopStepCounts ==
    ASSUME Core, NEW c \in Clients, cpc[c] \in StopPC, StopStep(c)
    PROVE  StopLeft(c)' < StopLeft(c)
<1>1. UNCHANGED <<csid, alive>>
  BY DEF StopStep, StopCancel, StopWait, StopEnd, StopFinish, StopReadStatus, StopEmit, StopPC
<1>2. \/ cpc[c] = "cancel" /\ cpc'[c] = "wait"
      \/ cpc[c] = "wait" /\ cpc'[c] = "end"
      \/ cpc[c] = "end" /\ cpc'[c] = "finish"
      \/ cpc[c] = "finish" /\ cpc'[c] = "status"
  BY DEF StopStep, StopCancel, StopWait, StopEnd, StopFinish, StopReadStatus, StopEmit, StopPC,
    Core, TypeOK
<1>3. /\ StopPlace(cpc'[c]) < StopPlace(cpc[c])
      /\ StopPlace(cpc'[c]) \in Nat /\ StopPlace(cpc[c]) \in Nat
  BY <1>2 DEF StopPlace
<1>4. Cardinality(alive[csid[c]]) \in Nat
  BY StopAlone, StagesCount
<1> QED
  BY <1>1, <1>3, <1>4 DEF StopLeft

\* So does a stage of its session that returns; the stages of others are not waited for.
LEMMA StageLeaveCounts ==
    ASSUME Core, NEW c \in Clients, cpc[c] \in StopPC,
           NEW i \in Session, NEW s \in Stages, StageLeave(i, s)
    PROVE  StopLeft(c)' < StopLeft(c) \/ UNCHANGED <<cpc[c], csid[c], alive[csid[c]]>>
<1>1. UNCHANGED <<cpc, csid>> /\ s \in alive[i] /\ alive' = [alive EXCEPT ![i] = @ \ {s}]
  BY DEF StageLeave
<1>2. csid[c] \in Session /\ alive \in [Session -> SUBSET Stages]
  BY StopAlone DEF Core, TypeOK
<1>3. CASE i = csid[c]
  <2>1. alive'[csid[c]] = alive[csid[c]] \ {s} /\ s \in alive[csid[c]]
    BY <1>1, <1>2, <1>3
  <2>2. IsFiniteSet(alive[csid[c]]) /\ Cardinality(alive[csid[c]]) \in Nat
    BY StopAlone, StagesCount
  <2>3. Cardinality(alive[csid[c]] \ {s}) = Cardinality(alive[csid[c]]) - 1
    BY <2>1, <2>2, FS_RemoveElement
  <2>4. StopPlace(cpc[c]) \in Nat
    BY DEF StopPlace
  <2>5. /\ StopLeft(c) = StopPlace(cpc[c]) + Cardinality(alive[csid[c]])
        /\ StopLeft(c)' = StopPlace(cpc[c]) + Cardinality(alive[csid[c]] \ {s})
    BY <1>1, <2>1 DEF StopLeft
  <2> QED
    BY <2>2, <2>3, <2>4, <2>5
<1>4. CASE i # csid[c]
  BY <1>1, <1>2, <1>4
<1> QED
  BY <1>3, <1>4

\* Every other step leaves the call and the stages it waits for alone.
LEMMA OthersLeaveStopAlone ==
    ASSUME Core, NEW c \in Clients, cpc[c] \in StopPC,
           \/ \E d \in Clients : Request(d) \/ StartStep(d) \/ (d # c /\ StopStep(d))
           \/ \E i \in Session : RunStep(i) \/ StageStep(i)
    PROVE  UNCHANGED <<cpc[c], csid[c], alive[csid[c]]>>
<1>1. ASSUME NEW d \in Clients, Request(d) \/ StartStep(d)
      PROVE  UNCHANGED <<cpc[c], csid[c], alive[csid[c]]>>
  <2>1. CASE UNCHANGED vars
    BY <2>1 DEF vars
  <2>2. CASE ~UNCHANGED vars
    <3>1. alive' = alive /\ cpc[d] \in {"ready"} \cup StartPC
      BY <1>1, <2>2 DEF Request, StartRefused, StartBegin, StopRefused, StopBegin, StartStep,
        StartInsert, StartInsertFails, StartFail, StartPublish, StartSpawn, StartPC
    <3>2. d # c
      BY <3>1 DEF StartPC, StopPC
    <3>3. cpc'[c] = cpc[c] /\ csid'[c] = csid[c]
      BY <1>1, <2>2, <3>2 DEF Request, StartRefused, StartBegin, StopRefused, StopBegin, StartStep,
        StartInsert, StartInsertFails, StartFail, StartPublish, StartSpawn, Core, TypeOK
    <3> QED
      BY <3>1, <3>3
  <2> QED
    BY <2>1, <2>2
<1>2. ASSUME NEW d \in Clients, d # c, StopStep(d)
      PROVE  UNCHANGED <<cpc[c], csid[c], alive[csid[c]]>>
  BY <1>2 DEF StopStep, StopCancel, StopWait, StopEnd, StopFinish, StopReadStatus, StopEmit,
    Core, TypeOK
<1>3. ASSUME NEW i \in Session, RunStep(i) \/ StageStep(i)
      PROVE  UNCHANGED <<cpc[c], csid[c], alive[csid[c]]>>
  <2>1. ~RunLaunch(i)
    BY StopAlone DEF RunLaunch, Launching, Stages
  <2> QED
    BY <1>3, <2>1 DEF RunStep, RunContext, RunOpen, RunFail, RunRunning, RunReadStatus, RunEmit,
      RunReturn, RunGoto, StageStep, StageDrop, StageSnapshot, StageFail
<1> QED
  BY <1>1, <1>2, <1>3

\* StopCapture cannot hang: what its wg.Wait() still counts are stages of the session it
\* stops, each of them told to leave, and from its first lock section to its last it is
\* at most seven steps from the end, which nobody else in the service can increase
\* (capture_service.go:101-137).  That a stage told to leave returns after a bounded
\* number of steps is ShutdownIsBounded of CapturePipeline_proofs.
THEOREM StopDoesNotHang ==
    Spec => /\ []StopWaitsForLeavers
            /\ [](\A c \in Clients : cpc[c] \in StopPC => StopLeft(c) \in Nat /\ StopLeft(c) <= 7)
            /\ StopShrinks
<1>1. Core => StopWaitsForLeavers
  BY DEF StopWaitsForLeavers, MayLeave, Core, Charge, StopInCharge, StopHolds, StopPC, Records,
    StagesAreCurrent
<1>2. Core => \A c \in Clients : cpc[c] \in StopPC => StopLeft(c) \in Nat /\ StopLeft(c) <= 7
  BY StopAlone
<1>3. Core /\ [Next]_vars =>
        [\A c \in Clients : cpc[c] \in StopPC =>
             StopLeft(c)' < StopLeft(c) \/ UNCHANGED <<cpc[c], csid[c], alive[csid[c]]>>]_vars
  <2> SUFFICES ASSUME Core, Next, NEW c \in Clients, cpc[c] \in StopPC
               PROVE  StopLeft(c)' < StopLeft(c) \/ UNCHANGED <<cpc[c], csid[c], alive[csid[c]]>>
    OBVIOUS
  <2>1. CASE StopStep(c)
    BY <2>1, StopStepCounts
  <2>2. CASE \E i \in Session, s \in Stages : StageLeave(i, s)
    BY <2>2, StageLeaveCounts
  <2>3. CASE \/ \E d \in Clients : Request(d) \/ StartStep(d) \/ (d # c /\ StopStep(d))
             \/ \E i \in Session : RunStep(i) \/ StageStep(i)
    BY <2>3, OthersLeaveStopAlone
  <2> QED
    BY <2>1, <2>2, <2>3 DEF Next
<1> QED
  BY <1>1, <1>2, <1>3, CoreInvariant, PTL DEF Spec, StopShrinks
===============================================================================
