--------------------------- MODULE Database_proofs ---------------------------
(***************************************************************************)
(* Proofs about Database, for any number of instances, migrations,         *)
(* sessions and alerts.  Opening the file touches the schema only and      *)
(* using it the rows only, so that the invariant falls into two halves.    *)
(***************************************************************************)
EXTENDS Database, TLAPS

USE DEF schemaVars, openVars, rowVars, appVars, ghostVars, vars

\* The two halves of Inv.
SchemaPart == SchemaAsRecorded /\ TransactionsHold
RowPart    == IdsAreSerials /\ RowsOfOwnCapture /\ OldViewsAreHarmless

LEMMA Halves == Inv => TypeOK /\ SchemaPart /\ RowPart
BY DEF Inv, SchemaPart, RowPart

LEMMA Whole == ASSUME TypeOK', SchemaPart', RowPart' PROVE Inv'
BY DEF Inv, SchemaPart, RowPart

-------------------------------------------------------------------------------
(* Intervals *)

LEMMA NextOfPrefix ==
    ASSUME NEW k \in Nat, NEW n \in Nat, n >= 2, n \notin 1..k, 1..n - 1 \subseteq 1..k
    PROVE  n = k + 1
<1>1. n - 1 \in 1..k
  OBVIOUS
<1> QED
  BY <1>1

LEMMA PrefixIsEverything ==
    ASSUME NEW k \in 0..Last, 1..k = 1..Last PROVE k = Last
<1>1. Last \in 1..k
  BY DatabaseAssumption DEF UniqueFlowIndex
<1> QED
  BY <1>1, DatabaseAssumption

-------------------------------------------------------------------------------
(* The initial state *)

\* Whatever an older release has left behind.
LEMMA InvInit == Init => Inv
<1> SUFFICES ASSUME Init PROVE Inv
  OBVIOUS
<1> USE DatabaseAssumption DEF Init
<1>1. PICK k \in 0..Last : objects = 1..k /\ recorded = 2..k /\ duplicates \in BOOLEAN
  OBVIOUS
<1>2. TypeOK
  BY <1>1 DEF TypeOK, Opening, Serial, Migrations, UniqueFlowIndex
<1>3. SchemaAsRecorded
  BY <1>1 DEF SchemaAsRecorded
<1>4. TransactionsHold
  BY DEF TransactionsHold
<1>5. RowPart
  BY DEF RowPart, IdsAreSerials, RowsOfOwnCapture, OldViewsAreHarmless
<1> QED
  BY <1>2, <1>3, <1>4, <1>5 DEF Inv, RowPart

-------------------------------------------------------------------------------
(* What a step leaves alone *)

LEMMA SchemaKept ==
    ASSUME SchemaPart, UNCHANGED <<schemaVars, openVars>> PROVE SchemaPart'
BY DEF SchemaPart, SchemaAsRecorded, TransactionsHold

LEMMA RowsKept ==
    ASSUME RowPart, UNCHANGED <<rowVars, appVars, ghostVars>> PROVE RowPart'
BY DEF RowPart, IdsAreSerials, RowsOfOwnCapture, OldViewsAreHarmless

\* A table or index that exists is recorded, except for schema_migrations.
LEMMA RecordedIsThere ==
    ASSUME Inv, NEW m \in Migrations PROVE m \in recorded <=> m \in objects
BY DatabaseAssumption DEF Inv, SchemaAsRecorded, Migrations

-------------------------------------------------------------------------------
(* Opening the file *)

LEMMA LaunchInv == ASSUME Inv, NEW i \in Instances, Launch(i) PROVE Inv'
<1>1. TypeOK'
  BY DEF Inv, TypeOK, Launch, At, Opening
<1>2. SchemaPart'
  BY DEF Inv, TypeOK, SchemaPart, SchemaAsRecorded, TransactionsHold, Launch, At
<1> QED
  BY <1>1, <1>2, Halves, Whole, RowsKept DEF Launch

LEMMA CreateBareInv == ASSUME Inv, NEW i \in Instances, CreateBare(i) PROVE Inv'
<1> USE DatabaseAssumption DEF Bare
<1>1. TypeOK'
  BY DEF Inv, TypeOK, CreateBare, At, Opening, UniqueFlowIndex
<1>2. SchemaAsRecorded'
  <2>1. PICK k \in 0..Last : objects = 1..k /\ recorded = 2..k
    BY DEF Inv, SchemaAsRecorded
  <2>2. CASE k = 0
    <3>1. objects' = 1..1 /\ recorded' = 2..1
      BY <2>1, <2>2 DEF CreateBare
    <3> QED
      BY <3>1 DEF SchemaAsRecorded, UniqueFlowIndex
  <2>3. CASE k # 0
    <3>1. objects' = 1..k /\ recorded' = 2..k
      BY <2>1, <2>3 DEF CreateBare
    <3> QED
      BY <3>1 DEF SchemaAsRecorded
  <2> QED
    BY <2>2, <2>3
<1>3. TransactionsHold'
  <2> SUFFICES ASSUME NEW j \in Instances PROVE TransactionsHold!(j)'
    BY DEF TransactionsHold
  <2>1. CASE j = i
    BY <2>1 DEF Inv, TypeOK, TransactionsHold, CreateBare, At
  <2>2. CASE j # i
    BY <2>2, DatabaseAssumption DEF Inv, TypeOK, TransactionsHold, CreateBare, At, UniqueFlowIndex
  <2> QED
    BY <2>1, <2>2
<1> QED
  BY <1>1, <1>2, <1>3, Halves, Whole, RowsKept DEF SchemaPart, CreateBare

LEMMA SkipInv == ASSUME Inv, NEW i \in Instances, Skip(i) PROVE Inv'
<1> USE DatabaseAssumption DEF UniqueFlowIndex
<1>1. next[i] \in Migrations /\ next[i] \in objects /\ next[i] \in Nat
  BY RecordedIsThere DEF Inv, TypeOK, Skip, MigrationApplied, Migrations
<1>2. TypeOK'
  BY DEF Inv, TypeOK, Skip
<1>3. SchemaAsRecorded'
  BY DEF Inv, SchemaAsRecorded, Skip
<1>4. TransactionsHold'
  <2> SUFFICES ASSUME NEW j \in Instances PROVE TransactionsHold!(j)'
    BY DEF TransactionsHold
  <2>1. CASE j = i
    <3>1. 1..next[i] - 1 \subseteq objects /\ writer # i
      BY DEF Inv, TransactionsHold, Skip
    <3>2. 1..next'[i] - 1 \subseteq objects'
      BY <1>1, <3>1 DEF Inv, TypeOK, Skip
    <3> QED
      BY <2>1, <3>1, <3>2 DEF Inv, TypeOK, Skip
  <2>2. CASE j # i
    BY <2>2 DEF Inv, TypeOK, TransactionsHold, Skip
  <2> QED
    BY <2>1, <2>2
<1> QED
  BY <1>2, <1>3, <1>4, Halves, Whole, RowsKept DEF SchemaPart, Skip

LEMMA BeginInv == ASSUME Inv, NEW i \in Instances, Begin(i) PROVE Inv'
<1>1. TypeOK'
  BY DEF Inv, TypeOK, Begin, At, Opening
<1>2. SchemaPart'
  BY DEF Inv, TypeOK, SchemaPart, SchemaAsRecorded, TransactionsHold, Begin, At
<1> QED
  BY <1>1, <1>2, Halves, Whole, RowsKept DEF Begin

LEMMA ExecInv == ASSUME Inv, NEW i \in Instances, Exec(i) PROVE Inv'
<1>1. TypeOK'
  BY DEF Inv, TypeOK, Exec, At, Opening
<1>2. SchemaPart'
  BY DatabaseAssumption
  DEF Inv, TypeOK, SchemaPart, SchemaAsRecorded, TransactionsHold, Exec, At, MayWrite
<1> QED
  BY <1>1, <1>2, Halves, Whole, RowsKept DEF Exec

LEMMA ExecExistsInv == ASSUME Inv, NEW i \in Instances, ExecExists(i) PROVE Inv'
<1>1. TypeOK'
  BY DEF Inv, TypeOK, ExecExists, At, Opening
<1>2. SchemaPart'
  BY DEF Inv, TypeOK, SchemaPart, SchemaAsRecorded, TransactionsHold, ExecExists, At
<1> QED
  BY <1>1, <1>2, Halves, Whole, RowsKept DEF ExecExists

\* What is not recorded does not exist either, so that the one who records it has the lock.
LEMMA RecordInv == ASSUME Inv, NEW i \in Instances, Record(i) PROVE Inv'
<1>1. TypeOK'
  BY DEF Inv, TypeOK, Record, At, Opening
<1>2. next[i] \in Migrations
  BY DatabaseAssumption DEF Inv, TypeOK, TransactionsHold, Record, At, Migrations
<1>3. next[i] \notin objects
  BY <1>2, RecordedIsThere DEF Record
<1>4. writer = i
  BY <1>3 DEF Inv, TransactionsHold, Record, At
<1>5. SchemaPart'
  BY <1>3, <1>4, DatabaseAssumption
  DEF Inv, TypeOK, SchemaPart, SchemaAsRecorded, TransactionsHold, Record, At
<1> QED
  BY <1>1, <1>5, Halves, Whole, RowsKept DEF Record

\* The migration committed is the one after the last that was recorded.
LEMMA CommitInv == ASSUME Inv, NEW i \in Instances, Commit(i) PROVE Inv'
<1> USE DatabaseAssumption DEF UniqueFlowIndex
<1>1. /\ writer = i /\ next[i] \notin objects /\ next[i] \in 2..Last /\ i # Nobody
      /\ 1..next[i] - 1 \subseteq objects
  BY DEF Inv, TypeOK, TransactionsHold, Commit, At
<1>2. PICK k \in 0..Last : objects = 1..k /\ recorded = 2..k
  BY DEF Inv, SchemaAsRecorded
<1>3. next[i] = k + 1
  <2>1. next[i] \in Nat /\ next[i] >= 2 /\ k \in Nat
    BY <1>1
  <2>2. next[i] \notin 1..k /\ 1..next[i] - 1 \subseteq 1..k
    BY <1>1, <1>2
  <2> QED
    BY <2>1, <2>2, NextOfPrefix
<1>4. objects' = 1..k + 1 /\ recorded' = 2..k + 1 /\ k + 1 \in 0..Last
  BY <1>1, <1>2, <1>3 DEF Commit
<1>5. TypeOK'
  BY <1>1, <1>4 DEF Inv, TypeOK, Commit, At, Opening, Migrations
<1>6. SchemaAsRecorded'
  BY <1>4 DEF SchemaAsRecorded
<1>7. TransactionsHold'
  <2> SUFFICES ASSUME NEW j \in Instances PROVE TransactionsHold!(j)'
    BY DEF TransactionsHold
  <2>1. CASE j = i
    BY <1>1, <1>3, <1>4, <2>1 DEF Inv, TypeOK, Commit, At
  <2>2. CASE j # i
    <3>1. pc'[j] = pc[j] /\ next'[j] = next[j] /\ writer' # j /\ objects \subseteq objects'
      BY <1>1, <2>2 DEF Inv, TypeOK, Commit, At
    <3>2. pc[j] # "commit" /\ pc[j] # "up" /\ writer # j
      BY <1>1, <2>2 DEF Inv, TransactionsHold
    <3>3. /\ pc[j] = "record" => next[j] \in objects
          /\ pc[j] \in {"exec", "record", "commit"} => next[j] <= Last
          /\ pc[j] \in {"check", "exec", "record", "commit"} => 1..next[j] - 1 \subseteq objects
      BY <3>2 DEF Inv, TransactionsHold
    <3> QED
      BY <3>1, <3>2, <3>3
  <2> QED
    BY <2>1, <2>2
<1> QED
  BY <1>5, <1>6, <1>7, Halves, Whole, RowsKept DEF SchemaPart, Commit

LEMMA OpenedInv == ASSUME Inv, NEW i \in Instances, Opened(i) PROVE Inv'
<1> USE DatabaseAssumption DEF UniqueFlowIndex
<1>1. TypeOK'
  BY DEF Inv, TypeOK, Opened, At, Opening
<1>2. next[i] = Last + 1 /\ objects = 1..Last
  <2>1. next[i] = Last + 1
    BY DEF Inv, TypeOK, Opened
  <2>2. 1..next[i] - 1 \subseteq objects
    BY DEF Inv, TransactionsHold, Opened, At
  <2>3. next[i] - 1 = Last
    BY <2>1
  <2>4. objects \subseteq 1..Last
    BY DEF Inv, TypeOK
  <2> QED
    BY <2>1, <2>2, <2>3, <2>4
<1>3. SchemaPart'
  BY <1>2 DEF Inv, TypeOK, SchemaPart, SchemaAsRecorded, TransactionsHold, Opened, At
<1> QED
  BY <1>1, <1>3, Halves, Whole, RowsKept DEF Opened

\* An instance that fails, is refused or crashes takes nothing along that is committed.
LEMMA GoneInv == ASSUME Inv, NEW i \in Instances, Gone(i) PROVE Inv'
<1>1. TypeOK'
  BY DatabaseAssumption DEF Inv, TypeOK, Gone, Opening, Serial
<1>2. SchemaPart'
  BY DatabaseAssumption DEF Inv, TypeOK, SchemaPart, SchemaAsRecorded, TransactionsHold, Gone
<1>3. RowPart'
  BY DatabaseAssumption
  DEF Inv, TypeOK, RowPart, IdsAreSerials, RowsOfOwnCapture, OldViewsAreHarmless, Gone, Serial
<1> QED
  BY <1>1, <1>2, <1>3, Whole

-------------------------------------------------------------------------------
(* Using the file *)

\* The row a call inserts has an id nobody has seen.
LEMMA InsertSessionRows ==
    ASSUME Inv, InsertSession
    PROVE  /\ starts' = starts + 1 /\ seq' = starts' /\ starts' \in 1..MaxSessions
           /\ inserted' = [inserted EXCEPT ![starts'] = starts']
           /\ inserted[starts'] = 0
BY DatabaseAssumption DEF Inv, TypeOK, IdsAreSerials, InsertSession, NextID, Serial

LEMMA InsertSessionTypes ==
    ASSUME Inv, InsertSession
    PROVE  starts' \in Serial /\ seq' \in Serial /\ inserted' \in [1..MaxSessions -> Serial]
<1>1. starts' \in Serial /\ seq' = starts'
  BY InsertSessionRows, DatabaseAssumption DEF Serial
<1>2. inserted' = [inserted EXCEPT ![starts'] = starts'] /\ inserted \in [1..MaxSessions -> Serial]
  BY InsertSessionRows DEF Inv, TypeOK
<1> QED
  BY <1>1, <1>2

\* A new session disturbs neither the rows of the others nor what a view shows of them.
LEMMA NewSessionRows ==
    ASSUME Inv, InsertSession, UNCHANGED <<flows, alerts, alertSeq, seen, raised>>,
           \A i \in Instances : serial'[i] = capture'[i] /\ capture'[i] <= starts'
    PROVE  RowPart'
<1>0. /\ starts' = starts + 1 /\ seq' = starts' /\ starts' \in 1..MaxSessions
      /\ inserted' = [inserted EXCEPT ![starts'] = starts']
      /\ inserted[starts'] = 0
  BY InsertSessionRows
<1> USE DatabaseAssumption
<1>1. IdsAreSerials'
  BY <1>0 DEF Inv, TypeOK, IdsAreSerials, Serial, ShownRow, AlertSerial
<1>2. RowsOfOwnCapture'
  BY <1>0 DEF Inv, TypeOK, IdsAreSerials, RowsOfOwnCapture, FlowRow, AlertRow
<1>3. OldViewsAreHarmless'
  <2> SUFFICES ASSUME NEW i \in Instances, NEW shown \in seen[i], shown.table = "sessions"
               PROVE  inserted'[shown.id] \in {0, shown.serial}
    BY DEF Inv, OldViewsAreHarmless
  <2>1. shown.id \in 1..MaxSessions /\ shown.id <= starts
    BY DEF Inv, TypeOK, IdsAreSerials, ShownRow
  <2>2. shown.id \in Nat /\ starts \in Nat
    BY <2>1 DEF Inv, TypeOK, Serial
  <2>3. shown.id # starts'
    BY <1>0, <2>1, <2>2
  <2>4. inserted'[shown.id] = inserted[shown.id]
    BY <1>0, <2>1, <2>3 DEF Inv, TypeOK
  <2> QED
    BY <2>4 DEF Inv, OldViewsAreHarmless
<1> QED
  BY <1>1, <1>2, <1>3 DEF RowPart

LEMMA StartCaptureInv == ASSUME Inv, NEW i \in Instances, StartCapture(i) PROVE Inv'
<1> USE DatabaseAssumption
<1>1. InsertSession /\ UNCHANGED <<flows, alerts, alertSeq, seen, raised>>
  BY DEF StartCapture
<1>2. TypeOK'
  <2>1. starts' \in Serial /\ seq' \in Serial /\ inserted' \in [1..MaxSessions -> Serial]
    BY <1>1, InsertSessionTypes
  <2>2. capture' \in [Instances -> Serial] /\ serial' \in [Instances -> Serial]
    BY <2>1 DEF Inv, TypeOK, StartCapture
  <2> QED
    BY <1>1, <2>1, <2>2 DEF Inv, TypeOK, StartCapture
<1>3. \A j \in Instances : serial'[j] = capture'[j] /\ capture'[j] <= starts'
  BY <1>1, InsertSessionRows DEF Inv, TypeOK, IdsAreSerials, StartCapture, Serial
<1> QED
  BY <1>1, <1>2, <1>3, NewSessionRows, Halves, Whole, SchemaKept DEF StartCapture

LEMMA StartSessionInv == ASSUME Inv, NEW i \in Instances, StartSession(i) PROVE Inv'
<1> USE DatabaseAssumption
<1>1. InsertSession /\ UNCHANGED <<flows, alerts, alertSeq, seen, raised>>
  BY DEF StartSession
<1>2. TypeOK'
  <2>1. starts' \in Serial /\ seq' \in Serial /\ inserted' \in [1..MaxSessions -> Serial]
    BY <1>1, InsertSessionTypes
  <2>2. capture' \in [Instances -> Serial] /\ serial' \in [Instances -> Serial]
    BY <2>1 DEF Inv, TypeOK, StartSession
  <2> QED
    BY <1>1, <2>1, <2>2 DEF Inv, TypeOK, StartSession
<1>3. \A j \in Instances : serial'[j] = capture'[j] /\ capture'[j] <= starts'
  BY <1>1, InsertSessionRows DEF Inv, TypeOK, IdsAreSerials, StartSession, Serial
<1> QED
  BY <1>1, <1>2, <1>3, NewSessionRows, Halves, Whole, SchemaKept DEF StartSession

LEMMA StopCaptureInv == ASSUME Inv, NEW i \in Instances, StopCapture(i) PROVE Inv'
<1>1. TypeOK'
  BY DatabaseAssumption DEF Inv, TypeOK, StopCapture, Serial
<1>2. RowPart'
  BY DatabaseAssumption
  DEF Inv, TypeOK, RowPart, IdsAreSerials, RowsOfOwnCapture, OldViewsAreHarmless, StopCapture, Serial
<1> QED
  BY <1>1, <1>2, Halves, Whole, SchemaKept DEF StopCapture

\* ON DELETE CASCADE takes every row that refers to the session.
LEMMA DeleteSessionInv == ASSUME Inv, NEW i \in Instances, DeleteSession(i) PROVE Inv'
<1> USE DatabaseAssumption
<1>1. PICK shown \in seen[i] :
        /\ shown.table = "sessions"
        /\ inserted' = [inserted EXCEPT ![shown.id] = 0]
        /\ flows' = {f \in flows : f.session # shown.id}
        /\ alerts' = {a \in alerts : a.session # shown.id}
  BY DEF DeleteSession, ForeignKeys
<1>2. shown.id \in 1..MaxSessions
  BY <1>1 DEF Inv, TypeOK, ShownRow
<1>3. TypeOK'
  <2>1. inserted' \in [1..MaxSessions -> Serial]
    BY <1>1, <1>2 DEF Inv, TypeOK, Serial
  <2>2. flows' \subseteq flows /\ alerts' \subseteq alerts
    BY <1>1
  <2> QED
    BY <2>1, <2>2 DEF Inv, TypeOK, DeleteSession
<1>4. IdsAreSerials'
  BY <1>1, <1>2 DEF Inv, TypeOK, IdsAreSerials, DeleteSession, Serial
<1>5. RowsOfOwnCapture'
  BY <1>1, <1>2 DEF Inv, TypeOK, RowsOfOwnCapture, FlowRow, AlertRow
<1>6. OldViewsAreHarmless'
  BY <1>1, <1>2 DEF Inv, TypeOK, OldViewsAreHarmless, DeleteSession, ShownRow
<1> QED
  BY <1>3, <1>4, <1>5, <1>6, Halves, Whole, SchemaKept DEF RowPart, DeleteSession

\* The session a capture writes to is still there, and it is the capture's own.
LEMMA WritesToOwnSession ==
    ASSUME Inv, NEW i \in Instances, MayRefer(i)
    PROVE  /\ capture[i] \in 1..MaxSessions /\ serial[i] = capture[i]
           /\ inserted[capture[i]] = capture[i]
BY DatabaseAssumption DEF Inv, TypeOK, IdsAreSerials, MayRefer, ForeignKeys, SessionRows, Serial

LEMMA UpsertFlowInv ==
    ASSUME Inv, NEW i \in Instances, NEW k \in Keys, UpsertFlow(i, k) PROVE Inv'
<1> DEFINE row == [session |-> capture[i], key |-> k, by |-> serial[i]]
<1>1. /\ row \in FlowRow /\ row.session = capture[i] /\ row.by = serial[i]
      /\ flows' \subseteq flows \cup {row}
  BY WritesToOwnSession DEF UpsertFlow, FlowRow
<1>2. inserted[row.session] = row.by
  BY <1>1, WritesToOwnSession DEF UpsertFlow
<1> HIDE DEF row
<1>3. TypeOK'
  BY <1>1 DEF Inv, TypeOK, UpsertFlow
<1>4. RowPart'
  BY <1>1, <1>2
  DEF Inv, RowPart, IdsAreSerials, RowsOfOwnCapture, OldViewsAreHarmless, UpsertFlow
<1> QED
  BY <1>3, <1>4, Halves, Whole, SchemaKept DEF UpsertFlow

LEMMA InsertAlertInv == ASSUME Inv, NEW i \in Instances, InsertAlert(i) PROVE Inv'
<1> USE DatabaseAssumption
<1> DEFINE row == [id |-> raised + 1, session |-> capture[i], by |-> serial[i],
                   serial |-> raised + 1, acknowledged |-> FALSE]
<1>1. raised' = raised + 1 /\ alertSeq' = raised + 1 /\ raised + 1 \in 1..MaxAlerts
  BY DEF Inv, TypeOK, IdsAreSerials, InsertAlert, NextID
<1>2. /\ row \in AlertRow /\ row.id = raised + 1 /\ row.serial = raised + 1
      /\ row.session = capture[i] /\ row.by = serial[i]
  BY <1>1, WritesToOwnSession DEF InsertAlert, AlertRow, AlertSerial
<1>3. alerts' = alerts \cup {row}
  BY <1>1 DEF InsertAlert
<1>4. inserted[row.session] = row.by
  BY <1>2, WritesToOwnSession DEF InsertAlert
<1> HIDE DEF row
<1>5. TypeOK'
  BY <1>1, <1>2, <1>3 DEF Inv, TypeOK, InsertAlert
<1>6. IdsAreSerials'
  BY <1>1, <1>2, <1>3 DEF Inv, TypeOK, IdsAreSerials, InsertAlert, AlertRow, ShownRow
<1>7. RowsOfOwnCapture'
  BY <1>3, <1>4 DEF Inv, RowsOfOwnCapture, InsertAlert
<1>8. OldViewsAreHarmless'
  <2> SUFFICES ASSUME NEW j \in Instances, NEW shown \in seen[j], shown.table # "sessions",
                      NEW a \in alerts', a.id = shown.id
               PROVE  a.serial = shown.serial
    BY DEF Inv, OldViewsAreHarmless, InsertAlert
  <2>1. shown.id <= raised /\ shown.id \in Nat
    BY DEF Inv, TypeOK, IdsAreSerials, ShownRow
  <2>2. a # row
    BY <1>2, <2>1 DEF Inv, TypeOK
  <2> QED
    BY <1>3, <2>2 DEF Inv, OldViewsAreHarmless
<1> QED
  BY <1>5, <1>6, <1>7, <1>8, Halves, Whole, SchemaKept DEF RowPart, InsertAlert

LEMMA ListSessionsInv == ASSUME Inv, NEW i \in Instances, ListSessions(i) PROVE Inv'
<1> USE DatabaseAssumption
<1> DEFINE Shown(s) == [table |-> "sessions", id |-> s, serial |-> inserted[s]]
<1>1. ASSUME NEW shown \in seen'[i]
      PROVE  /\ shown \in ShownRow /\ shown.table = "sessions" /\ shown.serial = inserted[shown.id]
             /\ shown.id \in 1..MaxSessions /\ inserted[shown.id] # 0
  <2>1. PICK s \in SessionRows : shown = Shown(s)
    BY DEF Inv, TypeOK, ListSessions
  <2>2. s \in 1..MaxSessions /\ inserted[s] \in 1..MaxSessions
    BY DEF SessionRows, Inv, TypeOK, Serial
  <2> QED
    BY <2>1, <2>2 DEF ShownRow
<1>2. \A j \in Instances : j # i => seen'[j] = seen[j]
  BY DEF Inv, TypeOK, ListSessions
<1>3. TypeOK'
  <2>1. seen' \in [Instances -> SUBSET ShownRow]
    <3>1. seen'[i] \subseteq ShownRow
      BY <1>1
    <3> QED
      BY <3>1 DEF Inv, TypeOK, ListSessions
  <2> QED
    BY <2>1 DEF Inv, TypeOK, ListSessions
<1>4. IdsAreSerials'
  BY <1>1, <1>2 DEF Inv, TypeOK, IdsAreSerials, ListSessions
<1>5. RowsOfOwnCapture'
  BY DEF Inv, RowsOfOwnCapture, ListSessions
<1>6. OldViewsAreHarmless'
  BY <1>1, <1>2 DEF Inv, OldViewsAreHarmless, ListSessions
<1> QED
  BY <1>3, <1>4, <1>5, <1>6, Halves, Whole, SchemaKept DEF RowPart, ListSessions

LEMMA GetPagedAlertsInv ==
    ASSUME Inv, NEW i \in Instances, NEW s \in 1..MaxSessions, GetPagedAlerts(i, s) PROVE Inv'
<1> USE DatabaseAssumption
<1> DEFINE Shown(a) == [table |-> "alerts", id |-> a.id, serial |-> a.serial]
<1>1. ASSUME NEW shown \in seen'[i]
      PROVE  /\ shown \in ShownRow /\ shown.table = "alerts" /\ shown.serial = shown.id
             /\ shown.id <= raised
  <2>1. PICK a \in alerts : shown = Shown(a)
    BY DEF Inv, TypeOK, GetPagedAlerts
  <2>2. a.id \in 1..MaxAlerts /\ a.serial = a.id /\ a.id <= raised
    BY DEF Inv, TypeOK, IdsAreSerials, AlertRow
  <2> QED
    BY <2>1, <2>2 DEF ShownRow, AlertSerial
<1>2. \A j \in Instances : j # i => seen'[j] = seen[j]
  BY DEF Inv, TypeOK, GetPagedAlerts
<1>3. TypeOK'
  <2>1. seen' \in [Instances -> SUBSET ShownRow]
    <3>1. seen'[i] \subseteq ShownRow
      BY <1>1
    <3> QED
      BY <3>1 DEF Inv, TypeOK, GetPagedAlerts
  <2> QED
    BY <2>1 DEF Inv, TypeOK, GetPagedAlerts
<1>4. IdsAreSerials'
  BY <1>1, <1>2 DEF Inv, TypeOK, IdsAreSerials, GetPagedAlerts
<1>5. RowsOfOwnCapture'
  BY DEF Inv, RowsOfOwnCapture, GetPagedAlerts
<1>6. OldViewsAreHarmless'
  BY <1>1, <1>2 DEF Inv, IdsAreSerials, OldViewsAreHarmless, GetPagedAlerts
<1> QED
  BY <1>3, <1>4, <1>5, <1>6, Halves, Whole, SchemaKept DEF RowPart, GetPagedAlerts

LEMMA AcknowledgeAlertInv == ASSUME Inv, NEW i \in Instances, AcknowledgeAlert(i) PROVE Inv'
<1> USE DatabaseAssumption
<1>1. ASSUME NEW a \in alerts'
      PROVE  \E b \in alerts : /\ a \in AlertRow /\ a.id = b.id /\ a.serial = b.serial
                               /\ a.session = b.session /\ a.by = b.by
  <2>1. PICK shown \in seen[i] : alerts' = {Acknowledged(b, shown.id) : b \in alerts}
    BY DEF AcknowledgeAlert
  <2>2. PICK b \in alerts : a = Acknowledged(b, shown.id)
    BY <2>1
  <2>3. b \in AlertRow
    BY DEF Inv, TypeOK
  <2>4. (b.id = shown.id \/ b.acknowledged) \in BOOLEAN
    BY <2>3 DEF AlertRow
  <2> QED
    BY <2>2, <2>3, <2>4 DEF Acknowledged, AlertRow
<1>2. TypeOK'
  BY <1>1 DEF Inv, TypeOK, AcknowledgeAlert
<1>3. IdsAreSerials'
  BY <1>1 DEF Inv, IdsAreSerials, AcknowledgeAlert
<1>4. RowsOfOwnCapture'
  BY <1>1 DEF Inv, RowsOfOwnCapture, AcknowledgeAlert
<1>5. OldViewsAreHarmless'
  BY <1>1 DEF Inv, OldViewsAreHarmless, AcknowledgeAlert
<1> QED
  BY <1>2, <1>3, <1>4, <1>5, Halves, Whole, SchemaKept DEF RowPart, AcknowledgeAlert

-------------------------------------------------------------------------------
(* Theorems *)

LEMMA InvNext == Inv /\ [Next]_vars => Inv'
<1> SUFFICES ASSUME Inv, [Next]_vars PROVE Inv'
  OBVIOUS
<1>1. CASE UNCHANGED vars
  <2>1. TypeOK'
    BY <1>1 DEF Inv, TypeOK
  <2> QED
    BY <1>1, <2>1, Halves, Whole, SchemaKept, RowsKept
<1>2. ASSUME NEW i \in Instances, Launch(i) \/ OpenStep(i) \/ OpenFails(i) \/ Crash(i) PROVE Inv'
  BY <1>2, LaunchInv, CreateBareInv, SkipInv, BeginInv, ExecInv, ExecExistsInv, RecordInv,
    CommitInv, OpenedInv, GoneInv DEF OpenStep, OpenRefused, OpenFails, Crash
<1>3. ASSUME NEW i \in Instances, UseStep(i) PROVE Inv'
  BY <1>3, StartCaptureInv, StopCaptureInv, StartSessionInv, InsertAlertInv, UpsertFlowInv,
    ListSessionsInv, DeleteSessionInv, AcknowledgeAlertInv, GetPagedAlertsInv DEF UseStep
<1> QED
  BY <1>1, <1>2, <1>3 DEF Next

\* The inductive invariant, in all its parts.
THEOREM DatabaseInvariant == Spec => []Inv
BY InvInit, InvNext, PTL DEF Spec

\* Whatever instance fails or dies at whatever statement of migrate, the migrations applied
\* are those recorded, and all up to some point.
THEOREM SchemaIsAsRecorded == Spec => []SchemaAsRecorded
<1>1. Inv => SchemaAsRecorded
  BY DEF Inv
<1> QED
  BY <1>1, DatabaseInvariant, PTL

\* An instance that has come up has the whole schema.
THEOREM SchemaIsCurrent == Spec => []UpMeansCurrent
<1>1. Inv => UpMeansCurrent
  <2> SUFFICES ASSUME Inv, NEW i \in Instances, pc[i] = "up"
               PROVE  recorded = Migrations /\ objects = 1..Last
    BY DEF UpMeansCurrent
  <2>1. PICK k \in 0..Last : objects = 1..k /\ recorded = 2..k
    BY DEF Inv, SchemaAsRecorded
  <2>2. objects = 1..Last
    BY DEF Inv, TransactionsHold
  <2>3. k = Last
    BY <2>1, <2>2, PrefixIsEverything
  <2> QED
    BY <2>1, <2>2, <2>3 DEF Migrations
<1> QED
  BY <1>1, DatabaseInvariant, PTL

\* No row is ever found under a session other than the one it was captured in.
THEOREM RowsAreOfOwnCapture == Spec => []RowsOfOwnCapture
<1>1. Inv => RowsOfOwnCapture
  BY DEF Inv
<1> QED
  BY <1>1, DatabaseInvariant, PTL

\* An id a view shows never stands for another row.
THEOREM ViewsAreHarmless == Spec => []OldViewsAreHarmless
<1>1. Inv => OldViewsAreHarmless
  BY DEF Inv
<1> QED
  BY <1>1, DatabaseInvariant, PTL

-------------------------------------------------------------------------------
(* Ids *)

\* The id of a session that has been deleted is not given to another session.
IDsNeverReturn == [][\A s \in 1..seq : inserted[s] = 0 => inserted'[s] = 0]_vars

\* A session that was deleted stays deleted, whatever the instances insert afterwards:
\* AUTOINCREMENT gives its id to no other row (db.go:117-129).  This is what the service
\* takes for granted when it compares sessions by their ids alone.
THEOREM DeletedIDsStayDeleted == Spec => IDsNeverReturn
<1>1. Inv /\ [Next]_vars => [\A s \in 1..seq : inserted[s] = 0 => inserted'[s] = 0]_vars
  <2> SUFFICES ASSUME Inv, Next, NEW s \in 1..seq, inserted[s] = 0
               PROVE  inserted'[s] = 0
    OBVIOUS
  <2>1. seq = starts /\ seq \in Nat /\ s \in 1..MaxSessions
    BY DatabaseAssumption DEF Inv, TypeOK, IdsAreSerials, Serial
  <2>2. ASSUME NEW i \in Instances, StartCapture(i) \/ StartSession(i)
        PROVE  inserted'[s] = 0
    <3>1. /\ starts' = starts + 1
          /\ inserted' = [inserted EXCEPT ![starts'] = starts']
      BY <2>2, InsertSessionRows DEF StartCapture, StartSession
    <3>2. s # starts'
      BY <2>1, <3>1
    <3> QED
      BY <2>1, <3>1, <3>2 DEF Inv, TypeOK
  <2>3. ASSUME NEW i \in Instances, DeleteSession(i)
        PROVE  inserted'[s] = 0
    <3>1. PICK shown \in seen[i] : inserted' = [inserted EXCEPT ![shown.id] = 0]
      BY <2>3 DEF DeleteSession
    <3> QED
      BY <2>1, <3>1 DEF Inv, TypeOK
  <2>4. ASSUME NEW i \in Instances, Launch(i) \/ OpenStep(i) \/ OpenFails(i) \/ Crash(i)
        PROVE  inserted' = inserted
    BY <2>4 DEF Launch, OpenStep, CreateBare, Skip, Begin, Exec, ExecExists, Record, Commit,
      Opened, OpenRefused, OpenFails, Crash, Gone, rowVars
  <2>5. ASSUME NEW i \in Instances,
               \/ StopCapture(i) \/ InsertAlert(i) \/ \E k \in Keys : UpsertFlow(i, k)
               \/ ListSessions(i) \/ AcknowledgeAlert(i)
               \/ \E t \in 1..MaxSessions : GetPagedAlerts(i, t)
        PROVE  inserted' = inserted
    BY <2>5 DEF StopCapture, InsertAlert, UpsertFlow, ListSessions, AcknowledgeAlert,
      GetPagedAlerts, rowVars
  <2> QED
    BY <2>2, <2>3, <2>4, <2>5 DEF Next, UseStep
<1> QED
  BY <1>1, DatabaseInvariant, PTL DEF Spec, IDsNeverReturn

-------------------------------------------------------------------------------
(* How long an opening takes *)

\* The steps instance i may still take before Open returns: five for each migration left
\* and for the end of the list, less those that its place has used up.
Place(at)   == IF at = "check" THEN 4 ELSE IF at = "exec" THEN 3 ELSE IF at = "record" THEN 2 ELSE 1
OpenLeft(i) == IF pc[i] \in {"up", "down"} THEN 0
               ELSE IF pc[i] = "bare" THEN 5 * Last
               ELSE 5 * (Last + 1 - next[i]) + Place(pc[i])

\* Every step leaves an opening instance where it is or brings its end nearer.
OpenShrinks ==
    [][\A i \in Instances : pc[i] \in Opening =>
           OpenLeft(i)' < OpenLeft(i) \/ UNCHANGED <<pc[i], next[i]>>]_vars

\* A step of one instance leaves the others where they are.
LEMMA OthersStay ==
    ASSUME TypeOK, NEW i \in Instances, NEW j \in Instances, i # j,
           Launch(j) \/ OpenStep(j) \/ OpenFails(j) \/ Crash(j) \/ UseStep(j)
    PROVE  UNCHANGED <<pc[i], next[i]>>
<1>1. CASE Launch(j) \/ OpenStep(j) \/ OpenFails(j) \/ Crash(j)
  BY <1>1 DEF Launch, OpenStep, CreateBare, Skip, Begin, Exec, ExecExists, Record, Commit,
    Opened, OpenRefused, OpenFails, Crash, Gone, At, TypeOK
<1>2. CASE UseStep(j)
  BY <1>2 DEF UseStep, StartCapture, StopCapture, StartSession, InsertAlert, UpsertFlow,
    ListSessions, DeleteSession, AcknowledgeAlert, GetPagedAlerts, openVars
<1> QED
  BY <1>1, <1>2

\* A step of an opening instance brings its own end nearer.
LEMMA OwnStepCounts ==
    ASSUME Inv, Inv', NEW i \in Instances, pc[i] \in Opening,
           Launch(i) \/ OpenStep(i) \/ OpenFails(i) \/ Crash(i) \/ UseStep(i)
    PROVE  OpenLeft(i)' < OpenLeft(i)
<1>1. /\ pc[i] \notin {"up", "down"} /\ pc[i] \in Opening
      /\ Last \in Nat /\ Last >= 9
      /\ next[i] \in 2..Last + 1 /\ next'[i] \in 2..Last + 1
  BY DatabaseAssumption DEF Inv, TypeOK, Opening, UniqueFlowIndex
<1>2. OpenLeft(i) >= 1
  BY <1>1 DEF OpenLeft, Place, Opening
<1>3. CASE CreateBare(i)
  <2>1. pc[i] = "bare" /\ pc'[i] = "check" /\ next'[i] = 2
    BY <1>3 DEF CreateBare, At, Inv, TypeOK
  <2>2. OpenLeft(i) = 5 * Last /\ OpenLeft(i)' = 5 * (Last + 1 - 2) + 4
    BY <2>1 DEF OpenLeft, Place
  <2> QED
    BY <1>1, <2>2
<1>4. CASE Skip(i)
  <2>1. pc[i] = "check" /\ pc'[i] = "check" /\ next'[i] = next[i] + 1
    BY <1>4 DEF Skip, Inv, TypeOK
  <2>2. /\ OpenLeft(i) = 5 * (Last + 1 - next[i]) + 4
        /\ OpenLeft(i)' = 5 * (Last + 1 - (next[i] + 1)) + 4
    BY <2>1 DEF OpenLeft, Place
  <2> QED
    BY <1>1, <2>2
<1>5. CASE Begin(i) \/ Exec(i) \/ ExecExists(i) \/ Record(i)
  <2>1. /\ next'[i] = next[i]
        /\ \/ pc[i] = "check" /\ pc'[i] = "exec"
           \/ pc[i] = "exec" /\ pc'[i] = "record"
           \/ pc[i] = "record" /\ pc'[i] = "commit"
    BY <1>5 DEF Begin, Exec, ExecExists, Record, At, Inv, TypeOK
  <2>2. /\ Place(pc'[i]) < Place(pc[i]) /\ Place(pc[i]) \in Nat /\ Place(pc'[i]) \in Nat
        /\ OpenLeft(i) = 5 * (Last + 1 - next[i]) + Place(pc[i])
        /\ OpenLeft(i)' = 5 * (Last + 1 - next[i]) + Place(pc'[i])
    BY <2>1 DEF OpenLeft, Place
  <2> QED
    BY <1>1, <2>2
<1>6. CASE Commit(i)
  <2>1. pc[i] = "commit" /\ pc'[i] = "check" /\ next'[i] = next[i] + 1
    BY <1>6 DEF Commit, At, Inv, TypeOK
  <2>2. /\ OpenLeft(i) = 5 * (Last + 1 - next[i]) + 1
        /\ OpenLeft(i)' = 5 * (Last + 1 - (next[i] + 1)) + 4
    BY <2>1 DEF OpenLeft, Place
  <2> QED
    BY <1>1, <2>2
<1>7. CASE Opened(i) \/ OpenRefused(i) \/ OpenFails(i)
  <2>1. pc'[i] \in {"up", "down"}
    BY <1>7 DEF Opened, OpenRefused, OpenFails, Gone, At, Inv, TypeOK
  <2>2. OpenLeft(i)' = 0
    BY <2>1 DEF OpenLeft
  <2> QED
    BY <1>1, <1>2, <2>2 DEF OpenLeft, Place
<1>8. ~Launch(i) /\ ~Crash(i) /\ ~UseStep(i)
  BY <1>1 DEF Launch, At, Crash, UseStep, StartCapture, StopCapture, StartSession, InsertAlert,
    UpsertFlow, ListSessions, DeleteSession, AcknowledgeAlert, GetPagedAlerts, MayUse
<1> QED
  BY <1>3, <1>4, <1>5, <1>6, <1>7, <1>8 DEF OpenStep

\* Open is bounded, however many instances open the file at once and whatever else they do
\* to it: each step of an instance that opens it uses up one of at most 5 * Last, no step
\* of another instance sends it back, and what a migration finds taken or already done
\* ends the opening instead of being tried again (db.go:38-77, 242-290).
THEOREM OpenIsBounded ==
    Spec => /\ OpenShrinks
            /\ [](\A i \in Instances : OpenLeft(i) \in 0..5 * Last)
<1>1. Inv /\ Inv' /\ [Next]_vars =>
        [\A i \in Instances : pc[i] \in Opening =>
             OpenLeft(i)' < OpenLeft(i) \/ UNCHANGED <<pc[i], next[i]>>]_vars
  <2> SUFFICES ASSUME Inv, Inv', Next, NEW i \in Instances, pc[i] \in Opening
               PROVE  OpenLeft(i)' < OpenLeft(i) \/ UNCHANGED <<pc[i], next[i]>>
    OBVIOUS
  <2>1. PICK j \in Instances :
            Launch(j) \/ OpenStep(j) \/ OpenFails(j) \/ Crash(j) \/ UseStep(j)
    BY DEF Next
  <2>2. CASE i = j
    BY <2>1, <2>2, OwnStepCounts
  <2>3. CASE i # j
    BY <2>1, <2>3, OthersStay DEF Inv
  <2> QED
    BY <2>2, <2>3
<1>2. Inv => \A i \in Instances : OpenLeft(i) \in 0..5 * Last
  <2> SUFFICES ASSUME Inv, NEW i \in Instances
               PROVE  OpenLeft(i) \in 0..5 * Last
    OBVIOUS
  <2>1. /\ pc[i] \in Opening \cup {"up", "down"} /\ next[i] \in 2..Last + 1
        /\ Last \in Nat /\ Last >= 9
    BY DatabaseAssumption DEF Inv, TypeOK, UniqueFlowIndex
  <2>2. Place(pc[i]) \in 1..4
    BY DEF Place
  <2>3. 5 * (Last + 1 - next[i]) + Place(pc[i]) \in 0..5 * Last
    BY <2>1, <2>2
  <2> QED
    BY <2>1, <2>3 DEF OpenLeft
<1> QED
  BY <1>1, <1>2, DatabaseInvariant, PTL DEF Spec, OpenShrinks
===============================================================================
