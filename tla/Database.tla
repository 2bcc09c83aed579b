------------------------------- MODULE Database -------------------------------
(***************************************************************************)
(* The database file: its schema, which db.Open brings up to date, and the *)
(* rows of the capture sessions.                                           *)
(*                                                                         *)
(* Nothing keeps a user from starting the program twice, so the file is    *)
(* shared by instances of it.  Each has one connection (SetMaxOpenConns);  *)
(* SQLite lets one of them write at a time.  A step is one SQL statement,  *)
(* and any of them may fail.  While the schema is migrated an instance     *)
(* that fails is gone (log.Fatalf), like one that crashes.                 *)
(*                                                                         *)
(* Of the tables that refer to sessions, flows stands for the ones that    *)
(* are written again under the same key (flows, hosts) and those that are  *)
(* only added to (snapshots; nothing writes to dns_queries); alerts are    *)
(* also changed by id.                                                     *)
(***************************************************************************)
EXTENDS Naturals, FiniteSets

CONSTANTS Instances,    \* processes running the program on the same file
          Last,         \* the id of the last entry of migrations
          MaxSessions,  \* bound: rows InsertSession creates
          MaxAlerts,    \* bound: rows InsertAlert creates
          Keys,         \* flow keys
          Nobody

Bare            == 1  \* schema_migrations itself: created without being recorded
FlowsTable      == 3
UniqueFlowIndex == 9  \* cannot be created while two rows share a key

ASSUME DatabaseAssumption ==
    /\ Last \in Nat /\ Last >= UniqueFlowIndex
    /\ MaxSessions \in Nat /\ MaxAlerts \in Nat
    /\ Nobody \notin Instances

Migrations == 2..Last

\* The program numbers InsertSession and InsertAlert do not know: which call made
\* a row, whatever id the row was given.
Serial      == 0..MaxSessions
AlertSerial == 1..MaxAlerts
FlowRow  == [session : 1..MaxSessions, key : Keys, by : 1..MaxSessions]
ShownRow ==      [table : {"sessions"}, id : 1..MaxSessions, serial : 1..MaxSessions]
            \cup [table : {"alerts"}, id : 1..MaxAlerts, serial : AlertSerial]
AlertRow == [id : 1..MaxAlerts, session : 1..MaxSessions, by : 1..MaxSessions,
             serial : AlertSerial, acknowledged : BOOLEAN]

VARIABLES
    objects,     \* the migrations whose table or index exists
    recorded,    \* the rows of schema_migrations
    duplicates,  \* an older release has left two rows of one flow behind
    writer,      \* the instance whose open transaction holds the write lock
    pc, next,    \* per instance: where Open is, and at which migration
    inserted,    \* the sessions table: the serial of the call that made the row, 0 for none
    flows, alerts,
    seq, alertSeq,      \* sqlite_sequence
    capture,     \* per instance: the session of its capture, 0 for none
    serial,      \* per instance: the serial of that session
    seen,        \* per instance: the rows its view shows
    starts, raised      \* history: calls of InsertSession and InsertAlert that succeeded

schemaVars == <<objects, recorded, duplicates>>
openVars   == <<writer, pc, next>>
rowVars    == <<inserted, flows, alerts, seq, alertSeq>>
appVars    == <<capture, serial, seen>>
ghostVars  == <<starts, raised>>
vars == <<schemaVars, openVars, rowVars, appVars, ghostVars>>

Opening == {"bare", "check", "exec", "record", "commit"}

\* A file that does not exist yet or that an older release has left: some prefix of
\* the migrations is applied.
Init ==
    /\ \E k \in 0..Last : /\ objects = 1..k
                          /\ recorded = 2..k
                          /\ duplicates \in {d \in BOOLEAN : d => k \in FlowsTable..UniqueFlowIndex - 1}
    /\ writer = Nobody
    /\ pc = [i \in Instances |-> "down"] /\ next = [i \in Instances |-> 2]
    /\ inserted = [s \in 1..MaxSessions |-> 0]
    /\ flows = {} /\ alerts = {} /\ seq = 0 /\ alertSeq = 0
    /\ capture = [i \in Instances |-> 0] /\ serial = [i \in Instances |-> 0]
    /\ seen = [i \in Instances |-> {}]
    /\ starts = 0 /\ raised = 0

-------------------------------------------------------------------------------
(* Open and migrate *)

At(i, here, there) == pc[i] = here /\ pc' = [pc EXCEPT ![i] = there]

\* A statement that changes the file needs the lock, which a transaction keeps.
MayWrite(i) == writer \in {Nobody, i}

Launch(i) ==
    /\ At(i, "down", "bare")
    /\ UNCHANGED <<schemaVars, writer, next, rowVars, appVars, ghostVars>>

\* CREATE TABLE IF NOT EXISTS schema_migrations, outside of any transaction.
CreateBare(i) ==
    /\ At(i, "bare", "check")
    /\ objects' = objects \cup {Bare}
    /\ next' = [next EXCEPT ![i] = 2]
    /\ UNCHANGED <<recorded, duplicates, writer, rowVars, appVars, ghostVars>>

\* Mutant: the query counts the rows of schema_migrations, whatever their id.
SomethingApplied(m) == recorded # {}

MigrationApplied(m) == m \in recorded

Skip(i) ==
    /\ pc[i] = "check" /\ next[i] <= Last /\ MigrationApplied(next[i])
    /\ next' = [next EXCEPT ![i] = @ + 1]
    /\ UNCHANGED <<schemaVars, writer, pc, rowVars, appVars, ghostVars>>

\* The answer may be out of date by the time the transaction begins.
Begin(i) ==
    /\ At(i, "check", "exec")
    /\ next[i] <= Last /\ ~MigrationApplied(next[i])
    /\ UNCHANGED <<schemaVars, writer, next, rowVars, appVars, ghostVars>>

\* The migration cannot be carried out on the rows there are.
Refused(i) == next[i] = UniqueFlowIndex /\ duplicates /\ next[i] \notin objects

\* Mutant: no transaction, so that every statement is committed on its own.
ExecWithoutTransaction(i) ==
    /\ At(i, "exec", "record")
    /\ next[i] \notin objects /\ ~Refused(i) /\ MayWrite(i)
    /\ objects' = objects \cup {next[i]}
    /\ UNCHANGED <<recorded, duplicates, writer, next, rowVars, appVars, ghostVars>>

\* The object is created in the transaction; others see it after the commit.
Exec(i) ==
    /\ At(i, "exec", "record")
    /\ next[i] \notin objects /\ ~Refused(i) /\ MayWrite(i)
    /\ writer' = i
    /\ UNCHANGED <<schemaVars, next, rowVars, appVars, ghostVars>>

\* IF NOT EXISTS: the statement changes nothing and needs no lock.
ExecExists(i) ==
    /\ At(i, "exec", "record")
    /\ next[i] \in objects
    /\ UNCHANGED <<schemaVars, writer, next, rowVars, appVars, ghostVars>>

\* Mutant: the record is written through the pool, whose only connection the
\* transaction holds: the statement waits for itself.
RecordOnPool(i) ==
    /\ At(i, "record", "commit")
    /\ pc[i] \notin {"exec", "record", "commit"}
    /\ next[i] \notin recorded /\ MayWrite(i)
    /\ writer' = i
    /\ UNCHANGED <<schemaVars, next, rowVars, appVars, ghostVars>>

Record(i) ==
    /\ At(i, "record", "commit")
    /\ next[i] \notin recorded /\ MayWrite(i)
    /\ writer' = i
    /\ UNCHANGED <<schemaVars, next, rowVars, appVars, ghostVars>>

Commit(i) ==
    /\ At(i, "commit", "check")
    /\ objects' = objects \cup {next[i]} /\ recorded' = recorded \cup {next[i]}
    /\ writer' = Nobody
    /\ next' = [next EXCEPT ![i] = @ + 1]
    /\ UNCHANGED <<duplicates, rowVars, appVars, ghostVars>>

Opened(i) ==
    /\ At(i, "check", "up")
    /\ next[i] > Last
    /\ UNCHANGED <<schemaVars, writer, next, rowVars, appVars, ghostVars>>

\* The process is gone, with its transaction and everything it had in memory.
Gone(i) ==
    /\ pc' = [pc EXCEPT ![i] = "down"]
    /\ writer' = IF writer = i THEN Nobody ELSE writer
    /\ capture' = [capture EXCEPT ![i] = 0] /\ serial' = [serial EXCEPT ![i] = 0]
    /\ seen' = [seen EXCEPT ![i] = {}]
    /\ UNCHANGED <<schemaVars, next, rowVars, ghostVars>>

\* The lock is taken (SQLITE_BUSY, at once or after a while), the index cannot be built,
\* or another instance has recorded the migration since it was checked: the primary key
\* of schema_migrations refuses the second record.
OpenRefused(i) == /\ \/ pc[i] \in {"exec", "record"} /\ ~MayWrite(i)
                     \/ pc[i] = "exec" /\ Refused(i)
                     \/ pc[i] = "record" /\ next[i] \in recorded
                  /\ Gone(i)

\* A statement fails, or the process is killed, while the database is being opened.
OpenFails(i) == pc[i] \in Opening /\ Gone(i)

\* The program is quit or crashes, whatever it is capturing.
Crash(i) == pc[i] = "up" /\ Gone(i)

-------------------------------------------------------------------------------
(* Sessions and their rows *)

MayUse(i) == pc[i] = "up" /\ MayWrite(i)

\* Mutant: PRAGMA foreign_keys is missing.
ForeignKeysOff == FALSE

ForeignKeys == TRUE

\* Mutant: INTEGER PRIMARY KEY without AUTOINCREMENT, which takes the next id after
\* the largest there is.
NextIDFree(last, present) ==
    IF present = {} THEN 1 ELSE 1 + CHOOSE m \in present : \A n \in present : n <= m

\* AUTOINCREMENT: an id is never given out again.
NextID(last, present) == last + 1

SessionRows == {s \in 1..MaxSessions : inserted[s] # 0}
AlertIDs    == {a.id : a \in alerts}

\* The row InsertSession adds.
InsertSession ==
    LET id == NextID(seq, SessionRows)
    IN  /\ starts < MaxSessions
        /\ starts' = starts + 1
        /\ inserted' = [inserted EXCEPT ![id] = starts + 1]
        /\ seq' = id

\* StartCapture; what the service does besides is CaptureService.
StartCapture(i) ==
    /\ MayUse(i) /\ capture[i] = 0
    /\ InsertSession
    /\ capture' = [capture EXCEPT ![i] = seq'] /\ serial' = [serial EXCEPT ![i] = starts']
    /\ UNCHANGED <<schemaVars, openVars, flows, alerts, alertSeq, seen, raised>>

\* SessionService.StartSession: a row without a capture.
StartSession(i) ==
    /\ MayUse(i)
    /\ InsertSession
    /\ UNCHANGED <<schemaVars, openVars, flows, alerts, alertSeq, appVars, raised>>

\* The capture of the instance is over.  The end time is CaptureService's business.
StopCapture(i) ==
    /\ MayUse(i) /\ capture[i] # 0
    /\ capture' = [capture EXCEPT ![i] = 0] /\ serial' = [serial EXCEPT ![i] = 0]
    /\ UNCHANGED <<schemaVars, openVars, rowVars, seen, ghostVars>>

\* The row a running capture writes to a table that refers to sessions; without its
\* session the statement fails, which onSnapshot ignores.
MayRefer(i) == capture[i] # 0 /\ (ForeignKeys => capture[i] \in SessionRows)

\* UpsertFlow and UpsertHost; InsertSnapshot never meets a key again.
UpsertFlow(i, k) ==
    /\ MayUse(i) /\ MayRefer(i)
    /\ flows' = {f \in flows : ~(f.session = capture[i] /\ f.key = k)}
                    \cup {[session |-> capture[i], key |-> k, by |-> serial[i]]}
    /\ UNCHANGED <<schemaVars, openVars, inserted, alerts, seq, alertSeq, appVars, ghostVars>>

InsertAlert(i) ==
    /\ MayUse(i) /\ MayRefer(i) /\ raised < MaxAlerts
    /\ raised' = raised + 1
    /\ alertSeq' = NextID(alertSeq, AlertIDs)
    /\ alerts' = alerts \cup {[id |-> alertSeq', session |-> capture[i], by |-> serial[i],
                               serial |-> raised + 1, acknowledged |-> FALSE]}
    /\ UNCHANGED <<schemaVars, openVars, inserted, flows, seq, appVars, starts>>

\* A view asks for what it shows and keeps the answer while the table goes on.
ListSessions(i) ==
    /\ pc[i] = "up"
    /\ seen' = [seen EXCEPT ![i] = {[table |-> "sessions", id |-> s, serial |-> inserted[s]] :
                                    s \in SessionRows}]
    /\ UNCHANGED <<schemaVars, openVars, rowVars, capture, serial, ghostVars>>

GetPagedAlerts(i, s) ==
    /\ pc[i] = "up"
    /\ seen' = [seen EXCEPT ![i] = {[table |-> "alerts", id |-> a.id, serial |-> a.serial] :
                                    a \in {b \in alerts : b.session = s}}]
    /\ UNCHANGED <<schemaVars, openVars, rowVars, capture, serial, ghostVars>>

\* DELETE FROM sessions, with ON DELETE CASCADE, for a session of the list; captures are
\* not asked.
DeleteSession(i) ==
    /\ MayUse(i)
    /\ \E shown \in seen[i] :
        /\ shown.table = "sessions"
        /\ inserted' = [inserted EXCEPT ![shown.id] = 0]
        /\ flows' = {f \in flows : ForeignKeys => f.session # shown.id}
        /\ alerts' = {a \in alerts : ForeignKeys => a.session # shown.id}
    /\ UNCHANGED <<schemaVars, openVars, seq, alertSeq, appVars, ghostVars>>

\* UPDATE alerts SET acknowledged=1 WHERE id=?
Acknowledged(a, id) ==
    [id |-> a.id, session |-> a.session, by |-> a.by, serial |-> a.serial,
     acknowledged |-> a.id = id \/ a.acknowledged]

\* The user acknowledges an alert the view shows, by its id, however old the view is.
AcknowledgeAlert(i) ==
    /\ MayUse(i)
    /\ \E shown \in seen[i] :
        /\ shown.table = "alerts"
        /\ alerts' = {Acknowledged(a, shown.id) : a \in alerts}
    /\ UNCHANGED <<schemaVars, openVars, inserted, flows, seq, alertSeq, appVars, ghostVars>>

-------------------------------------------------------------------------------

OpenStep(i) == \/ CreateBare(i) \/ Skip(i) \/ Begin(i) \/ Exec(i) \/ ExecExists(i)
               \/ Record(i) \/ Commit(i) \/ Opened(i) \/ OpenRefused(i)

UseStep(i) == \/ StartCapture(i) \/ StopCapture(i) \/ StartSession(i)
              \/ InsertAlert(i) \/ \E k \in Keys : UpsertFlow(i, k)
              \/ ListSessions(i) \/ DeleteSession(i) \/ AcknowledgeAlert(i)
              \/ \E s \in 1..MaxSessions : GetPagedAlerts(i, s)

Next == \E i \in Instances :
            Launch(i) \/ OpenStep(i) \/ OpenFails(i) \/ Crash(i) \/ UseStep(i)

\* An instance that has begun to open the file goes on: its statements return, if only
\* with an error.  Nobody has to start the program or use it.
Fairness == \A i \in Instances : WF_vars(OpenStep(i))

Spec     == Init /\ [][Next]_vars
FairSpec == Spec /\ Fairness

-------------------------------------------------------------------------------
(* Properties *)

TypeOK ==
    /\ objects \subseteq 1..Last /\ recorded \subseteq Migrations
    /\ duplicates \in BOOLEAN
    /\ writer \in Instances \cup {Nobody}
    /\ pc \in [Instances -> Opening \cup {"down", "up"}]
    /\ next \in [Instances -> 2..Last + 1]
    /\ inserted \in [1..MaxSessions -> Serial]
    /\ flows \subseteq FlowRow /\ alerts \subseteq AlertRow
    /\ seq \in Serial /\ alertSeq \in 0..MaxAlerts
    /\ capture \in [Instances -> Serial] /\ serial \in [Instances -> Serial]
    /\ seen \in [Instances -> SUBSET ShownRow]
    /\ starts \in Serial /\ raised \in 0..MaxAlerts

\* The comment on migrate: the file is always left with all migrations up to some
\* point applied and recorded, and none behind it, whoever died where.
SchemaAsRecorded ==
    \E k \in 0..Last : objects = 1..k /\ recorded = 2..k

\* A transaction in the middle of a migration has the lock, works on a migration nobody
\* else has applied, and its instance has skipped nothing on the way there.
TransactionsHold ==
    \A i \in Instances :
        /\ writer = i => pc[i] \in {"record", "commit"} /\ next[i] \notin objects
        /\ pc[i] = "commit" => writer = i
        /\ pc[i] = "record" => writer = i \/ next[i] \in objects
        /\ pc[i] \in {"exec", "record", "commit"} => next[i] <= Last
        /\ pc[i] \in {"check", "exec", "record", "commit"} => 1..next[i] - 1 \subseteq objects
        /\ pc[i] = "up" => next[i] = Last + 1 /\ objects = 1..Last

\* Ids are handed out in the order of the calls, so that an id stands for one row only.
IdsAreSerials ==
    /\ seq = starts /\ alertSeq = raised
    /\ \A s \in 1..MaxSessions : inserted[s] # 0 => inserted[s] = s /\ s <= starts
    /\ \A a \in alerts : a.serial = a.id /\ a.id <= raised
    /\ \A i \in Instances : /\ serial[i] = capture[i] /\ capture[i] <= starts
                            /\ \A shown \in seen[i] :
                                   /\ shown.serial = shown.id
                                   /\ shown.id <= IF shown.table = "sessions" THEN starts ELSE raised

\* An instance that has come up finds every table and index its queries name, however
\* many instances were migrating the file, failed or died at the same time.
UpMeansCurrent == \A i \in Instances : pc[i] = "up" => recorded = Migrations /\ objects = 1..Last

\* A row belongs to the session it was captured in, and that session is there: whoever
\* deletes the session of a running capture, in whatever instance, what the capture still
\* writes does not turn up under a session created afterwards.
RowsOfOwnCapture == /\ \A f \in flows : inserted[f.session] = f.by
                    /\ \A a \in alerts : inserted[a.session] = a.by

\* The rows a view shows may be gone, but their ids never stand for other rows: a session
\* deleted or exported, or an alert acknowledged, from an old view is the one that was
\* shown or none.
OldViewsAreHarmless ==
    \A i \in Instances : \A shown \in seen[i] :
        IF shown.table = "sessions"
        THEN inserted[shown.id] \in {0, shown.serial}
        ELSE \A a \in alerts : a.id = shown.id => a.serial = shown.serial

\* The strengthening the theorems need.
Inv == /\ TypeOK /\ SchemaAsRecorded /\ TransactionsHold /\ IdsAreSerials
       /\ RowsOfOwnCapture /\ OldViewsAreHarmless

\* Open returns, with a database or an error: no instance waits for ever for its own
\* connection or for the lock of another one.
OpenSettles == \A i \in Instances : pc[i] \in Opening ~> pc[i] \in {"up", "down"}
===============================================================================
