-------------------------- MODULE SettingsStore_proofs --------------------------
(***************************************************************************)
(* Proofs about SettingsStore, for any values and any number of calls that *)
(* overlap.  That a quiet call ends in agreement is inductive only together *)
(* with what it has done so far: OnCourse.                                  *)
(***************************************************************************)
EXTENDS SettingsStore, TLAPS

USE SettingsAssumption

LEMMA StoredType == ASSUME TypeOK PROVE Stored \in Document
BY DEF TypeOK, Stored, Both, Document, Value

LEMMA NoReplyType == NoReply \in [in : SUBSET Halves, settings : Document, thresholds : Value]
<1>1. {} \in SUBSET Halves /\ Both(Default) \in Document /\ Default \in Value
  BY DEF Both, Document, Value
<1> QED BY <1>1 DEF NoReply

\* The initial store shows the defaults, the initial settings are blank, and no
\* call has begun.
LEMMA InitInv == Init => Inv
<1> SUFFICES ASSUME Init PROVE Inv
  OBVIOUS
<1>1. OnCourse /\ QuietCallsAgree
  BY DEF Init, OnCourse, QuietCallsAgree
<1>2. TypeOK
  BY NoReplyType DEF Init, TypeOK, Both, Document, Value, Calls
<1> QED BY <1>1, <1>2 DEF Inv

LEMMA TypeStep == ASSUME TypeOK, Next PROVE TypeOK'
<1> Stored \in Document /\ Stored.thresholds \in Value
  BY StoredType DEF Document
<1>1. CASE EditCapture \/ EditThresholds
  BY <1>1 DEF EditCapture, EditThresholds, TypeOK, Document, Value, saveVars, Interferes
<1>2. ASSUME NEW l \in Loads, LoadBegin(l) \/ LoadStep(l) PROVE TypeOK'
  <2>1. CASE LoadBegin(l)
    BY <2>1, NoReplyType DEF LoadBegin, TypeOK, At, Begins, saveVars, Calls
  <2>2. CASE GetSettings(l)
    BY <2>2 DEF GetSettings, TypeOK, Halves, saveVars, storeVars
  <2>3. CASE GetDetectorThresholds(l)
    BY <2>3 DEF GetDetectorThresholds, TypeOK, Halves, saveVars, storeVars
  <2>4. CASE LoadReturn(l)
    BY <2>4, NoReplyType DEF LoadReturn, TypeOK, At, saveVars, Calls
  <2>5. CASE LoadFail(l)
    BY <2>5, NoReplyType DEF LoadFail, TypeOK, At, Interferes, saveVars, Calls
  <2> QED BY <1>2, <2>1, <2>2, <2>3, <2>4, <2>5 DEF LoadStep
<1>3. ASSUME NEW s \in Saves, SaveBegin(s) \/ SaveStep(s) PROVE TypeOK'
  <2> USE DEF TypeOK, At, Calls, SaveWriting, SaveSecond
  <2>1. CASE SaveBegin(s)
    BY <2>1 DEF SaveBegin, Begins, saveVars
  <2>2. CASE SaveSettingsCall(s)
    BY <2>2 DEF SaveSettingsCall, storeVars
  <2>3. CASE SaveSettingsWrite(s)
    BY <2>3 DEF SaveSettingsWrite, storeVars, saveVars
  <2>4. CASE SaveSettingsFails(s)
    BY <2>4 DEF SaveSettingsFails, Interferes, storeVars, saveVars
  <2>5. CASE SaveSettingsReturn(s)
    BY <2>5 DEF SaveSettingsReturn, saveVars
  <2>6. CASE SaveThresholdsCall(s)
    BY <2>6 DEF SaveThresholdsCall, storeVars
  <2>7. CASE SaveThresholdsRead(s)
    <3>1. [Stored EXCEPT !.thresholds = wanted[s]] \in Document
      BY DEF Document
    <3> QED BY <2>7, <3>1 DEF SaveThresholdsRead, storeVars
  <2>8. CASE SaveThresholdsWrite(s)
    BY <2>8 DEF SaveThresholdsWrite, storeVars, saveVars
  <2>9. CASE SaveThresholdsFails(s)
    BY <2>9 DEF SaveThresholdsFails, Interferes, storeVars, saveVars
  <2>10. CASE SaveThresholdsReturn(s)
    <3>1. Both(Default) \in Document /\ Default \in Value
      BY DEF Both, Document, Value
    <3> QED BY <2>10, <3>1 DEF SaveThresholdsReturn
  <2> QED BY <1>3, <2>1, <2>2, <2>3, <2>4, <2>5, <2>6, <2>7, <2>8, <2>9, <2>10 DEF SaveStep
<1> QED BY <1>1, <1>2, <1>3 DEF Next

\* A step of the call that is alone takes it further along its course; a step of
\* another call would have to begin it, and an edit ends the silence.
LEMMA CourseStep == ASSUME Inv, Next PROVE OnCourse' /\ QuietCallsAgree'
<1> USE DEF Inv
<1>0. TypeOK /\ TypeOK' /\ Stored \in Document
  BY TypeStep, StoredType
<1>noRow. \A s \in Saves : document[s] # NoRow
  BY <1>0 DEF TypeOK, SettingsAssumption
<1> USE DEF Calls
<1>1. CASE EditCapture \/ EditThresholds
  BY <1>1 DEF EditCapture, EditThresholds, Interferes, OnCourse, QuietCallsAgree
<1>2. ASSUME NEW l \in Loads, LoadBegin(l) \/ LoadStep(l) PROVE OnCourse' /\ QuietCallsAgree'
  <2>1. CASE LoadBegin(l)
    BY <1>0, <2>1 DEF LoadBegin, TypeOK, At, Begins, NoReply, OnCourse, LoadOnCourse, QuietCallsAgree
  <2>2. CASE alone = l /\ LoadStep(l)
    <3> USE <1>0, <2>2 DEF TypeOK, At, OnCourse, LoadOnCourse, QuietCallsAgree
    <3>1. CASE GetSettings(l) \/ GetDetectorThresholds(l)
      BY <3>1 DEF GetSettings, GetDetectorThresholds, Stored, storeVars
    <3>2. CASE LoadReturn(l)
      <4>1. settings' = Stored /\ thresholds' = Stored.thresholds /\ Stored' = Stored
        BY <3>2 DEF LoadReturn, Halves, Stored
      <4>2. Agreed'
        BY <4>1 DEF Agreed, Document
      <4> QED BY <3>2, <4>2 DEF LoadReturn
    <3>3. CASE LoadFail(l)
      BY <3>3 DEF LoadFail, Interferes
    <3> QED BY <3>1, <3>2, <3>3 DEF LoadStep
  <2>3. CASE alone # l /\ LoadStep(l)
    BY <1>0, <2>3 DEF LoadStep, GetSettings, GetDetectorThresholds, LoadReturn, LoadFail, TypeOK, At,
       Interferes, OnCourse, QuietCallsAgree
  <2> QED BY <1>2, <2>1, <2>2, <2>3
<1>3. ASSUME NEW s \in Saves, SaveBegin(s) \/ SaveStep(s) PROVE OnCourse' /\ QuietCallsAgree'
  <2> USE DEF SaveWriting, SaveSecond
  <2>1. CASE SaveBegin(s)
    BY <1>0, <2>1 DEF SaveBegin, TypeOK, At, Begins, OnCourse, SaveOnCourse, QuietCallsAgree
  <2>2. CASE alone = s /\ SaveStep(s)
    <3> USE <1>0, <2>2 DEF TypeOK, At, OnCourse, SaveOnCourse, QuietCallsAgree, Agreed, Stored, Document
    <3>1. CASE SaveSettingsCall(s)
      BY <3>1 DEF SaveSettingsCall, storeVars
    <3>2. CASE SaveSettingsWrite(s)
      BY <3>2 DEF SaveSettingsWrite, storeVars, saveVars
    <3>3. CASE SaveSettingsFails(s)
      BY <3>3 DEF SaveSettingsFails, Interferes
    <3>4. CASE SaveSettingsReturn(s)
      BY <3>4 DEF SaveSettingsReturn, saveVars
    <3>5. CASE SaveThresholdsCall(s)
      BY <3>5 DEF SaveThresholdsCall, storeVars
    <3>6. CASE SaveThresholdsRead(s)
      BY <3>6 DEF SaveThresholdsRead, storeVars
    <3>7. CASE SaveThresholdsWrite(s)
      <4>1. db' = [capture |-> settings.capture, thresholds |-> thresholds]
        BY <3>7 DEF SaveThresholdsWrite
      <4>2. db' # NoRow
        BY <3>7, <1>noRow DEF SaveThresholdsWrite
      <4>3. db'.capture = settings.capture
        BY <4>1
      <4> QED BY <3>7, <4>1, <4>2, <4>3 DEF SaveThresholdsWrite, storeVars, saveVars
    <3>8. CASE SaveThresholdsFails(s)
      BY <3>8 DEF SaveThresholdsFails, Interferes
    <3>9. CASE SaveThresholdsReturn(s)
      BY <3>9 DEF SaveThresholdsReturn
    <3> QED BY <3>1, <3>2, <3>3, <3>4, <3>5, <3>6, <3>7, <3>8, <3>9 DEF SaveStep
  <2>3. CASE alone # s /\ SaveStep(s)
    BY <1>0, <2>3 DEF SaveStep, SaveSettingsCall, SaveSettingsWrite, SaveSettingsFails, SaveSettingsReturn,
       SaveThresholdsCall, SaveThresholdsRead, SaveThresholdsWrite, SaveThresholdsFails, SaveThresholdsReturn,
       TypeOK, At, Interferes, OnCourse, QuietCallsAgree
  <2> QED BY <1>3, <2>1, <2>2, <2>3
<1> QED BY <1>1, <1>2, <1>3 DEF Next

LEMMA StutterInv == ASSUME Inv, UNCHANGED vars PROVE Inv'
BY DEF Inv, TypeOK, OnCourse, QuietCallsAgree, LoadOnCourse, SaveOnCourse, Agreed, Stored,
       vars, storeVars, saveVars

\* The inductive invariant of the settings: types, how far an undisturbed call
\* has come, and what it leaves behind.
THEOREM SettingsInvariant == Spec => []Inv
<1>1. Init => Inv
  BY InitInv
<1>2. Inv /\ [Next]_vars => Inv'
  <2>1. ASSUME Inv, Next PROVE Inv'
    BY <2>1, TypeStep, CourseStep DEF Inv
  <2> QED BY <2>1, StutterInv
<1> QED BY <1>1, <1>2, PTL DEF Spec

\* A save or a load that nothing interfered with and that did not fail leaves
\* the store of the frontend and the settings table in agreement.
THEOREM QuietCallsEndInAgreement == Spec => []QuietCallsAgree
<1>1. Inv => QuietCallsAgree
  BY DEF Inv
<1> QED BY SettingsInvariant, <1>1, PTL

================================================================================
