----------------------------- MODULE SettingsStore -----------------------------
(***************************************************************************)
(* The settings: one row in the database, the SettingsService in front of  *)
(* it and the copy the frontend edits.                                     *)
(*                                                                         *)
(* The backend keeps capture preferences and detector thresholds in one    *)
(* document.  The frontend keeps the document as it was loaded in settings *)
(* and the thresholds once more, so that settings.thresholds is what the   *)
(* last load brought and not what is shown.  Saving is two calls, of which *)
(* the second reads, changes and writes the document.  A step ends wherever *)
(* the frontend awaits something or the backend calls the database, and    *)
(* every call of the backend may fail.                                     *)
(***************************************************************************)
CONSTANTS Values,   \* what the user may choose, for either half
          Default,  \* the factory default
          Blank,    \* what new Settings() and new DetectorThresholds() hold
          NoRow,    \* the settings table has no row for the key
          Saves,    \* calls of handleSaveAll that may overlap
          Loads,    \* calls of loadAll that may overlap
          Nobody

Value    == Values \union {Default, Blank}
Document == [capture : Value, thresholds : Value]
Both(v)  == [capture |-> v, thresholds |-> v]

Halves   == {"settings", "thresholds"}
NoReply  == [in |-> {}, settings |-> Both(Default), thresholds |-> Default]

ASSUME SettingsAssumption ==
    /\ NoRow \notin Document
    /\ Saves \intersect Loads = {}
    /\ Nobody \notin Saves \union Loads

Calls == Saves \union Loads

VARIABLES
    db,         \* the row of the settings table
    settings, thresholds, isLoading, isDirty, error,   \* the frontend's store
    pc,         \* where each call is
    document,   \* the document a save is going to write
    wanted,     \* the argument of SaveDetectorThresholds
    replies,    \* what has come back to a load, per read
    alone       \* history: the last call that began, as long as nothing has interfered

storeVars == <<settings, thresholds, isLoading, isDirty, error>>
saveVars  == <<document, wanted>>
vars      == <<db, storeVars, pc, saveVars, replies, alone>>

Init ==
    /\ db = NoRow
    /\ settings = Both(Blank) /\ thresholds = Default
    /\ isLoading = FALSE /\ isDirty = FALSE /\ error = FALSE
    /\ pc = [c \in Calls |-> "idle"]
    /\ document = [s \in Saves |-> Both(Default)] /\ wanted = [s \in Saves |-> Default]
    /\ replies = [l \in Loads |-> NoReply]
    /\ alone = Nobody

Stored == IF db = NoRow THEN Both(Default) ELSE db

At(c, here, there) == pc[c] = here /\ pc' = [pc EXCEPT ![c] = there]

Begins(c)    == alone' = IF \A other \in Calls : pc[other] = "idle" THEN c ELSE Nobody
Interferes   == alone' = Nobody

--------------------------------------------------------------------------------
\* The user changes a field; the fields are enabled whatever goes on.

EditCapture ==
    /\ \E v \in Values : settings' = [settings EXCEPT !.capture = v]
    /\ isDirty' = TRUE
    /\ Interferes
    /\ UNCHANGED <<db, thresholds, isLoading, error, pc, saveVars, replies>>

EditThresholds ==
    /\ \E v \in Values : thresholds' = v
    /\ isDirty' = TRUE
    /\ Interferes
    /\ UNCHANGED <<db, settings, isLoading, error, pc, saveVars, replies>>

--------------------------------------------------------------------------------
\* loadAll, called when the view is mounted and to discard changes.  The two
\* reads are on their way at once; the first that fails ends the call.

LoadBegin(l) ==
    /\ At(l, "idle", "reading")
    /\ isLoading' = TRUE /\ error' = FALSE
    /\ replies' = [replies EXCEPT ![l] = NoReply]
    /\ Begins(l)
    /\ UNCHANGED <<db, settings, thresholds, isDirty, saveVars>>

GetSettings(l) ==
    /\ pc[l] = "reading" /\ "settings" \notin replies[l].in
    /\ replies' = [replies EXCEPT ![l] = [in |-> @.in \union {"settings"},
                                          settings |-> Stored, thresholds |-> @.thresholds]]
    /\ UNCHANGED <<db, storeVars, pc, saveVars, alone>>

GetDetectorThresholds(l) ==
    /\ pc[l] = "reading" /\ "thresholds" \notin replies[l].in
    /\ replies' = [replies EXCEPT ![l] = [in |-> @.in \union {"thresholds"},
                                          settings |-> @.settings, thresholds |-> Stored.thresholds]]
    /\ UNCHANGED <<db, storeVars, pc, saveVars, alone>>

LoadReturn(l) ==
    /\ replies[l].in = Halves
    /\ At(l, "reading", "idle")
    /\ settings' = replies[l].settings /\ thresholds' = replies[l].thresholds
    /\ isLoading' = FALSE
    /\ replies' = [replies EXCEPT ![l] = NoReply]
    /\ UNCHANGED <<db, isDirty, error, saveVars, alone>>

\* Mutant: the catch block of loadAll leaves isLoading alone.
LoadFailLoading(l) ==
    /\ replies[l].in # Halves
    /\ At(l, "reading", "idle")
    /\ replies' = [replies EXCEPT ![l] = NoReply]
    /\ Interferes
    /\ UNCHANGED <<db, storeVars, saveVars>>

LoadFail(l) ==
    /\ replies[l].in # Halves
    /\ At(l, "reading", "idle")
    /\ isLoading' = FALSE
    /\ replies' = [replies EXCEPT ![l] = NoReply]
    /\ Interferes
    /\ UNCHANGED <<db, settings, thresholds, isDirty, error, saveVars>>

--------------------------------------------------------------------------------
\* handleSaveAll: saveSettings, then saveThresholds whatever came of the first.

MaySave == isDirty /\ ~isLoading

SaveBegin(s) ==
    /\ MaySave
    /\ At(s, "idle", "importing")
    /\ error' = FALSE
    /\ Begins(s)
    /\ UNCHANGED <<db, settings, thresholds, isLoading, isDirty, saveVars, replies>>

\* Mutant: saveSettings sends the document as the database has it.
SaveSettingsCallStored(s) ==
    /\ At(s, "importing", "writing settings")
    /\ document' = [document EXCEPT ![s] = Stored]
    /\ UNCHANGED <<db, storeVars, wanted, replies, alone>>

\* What saveSettings sends: the document with the thresholds of the last load.
SaveSettingsCall(s) ==
    /\ At(s, "importing", "writing settings")
    /\ document' = [document EXCEPT ![s] = settings]
    /\ UNCHANGED <<db, storeVars, wanted, replies, alone>>

SaveSettingsWrite(s) ==
    /\ At(s, "writing settings", "settings written")
    /\ db' = document[s]
    /\ UNCHANGED <<storeVars, saveVars, replies, alone>>

SaveSettingsFails(s) ==
    /\ At(s, "writing settings", "settings failed")
    /\ Interferes
    /\ UNCHANGED <<db, storeVars, saveVars, replies>>

\* The end of saveSettings and the beginning of saveThresholds are one turn of
\* the event loop: an error of the first half is set and reset in it.
SaveSettingsReturn(s) ==
    /\ \/ At(s, "settings written", "importing again") /\ isDirty' = FALSE
       \/ At(s, "settings failed", "importing again") /\ UNCHANGED isDirty
    /\ error' = FALSE
    /\ UNCHANGED <<db, settings, thresholds, isLoading, saveVars, replies, alone>>

SaveThresholdsCall(s) ==
    /\ At(s, "importing again", "reading document")
    /\ wanted' = [wanted EXCEPT ![s] = thresholds]
    /\ UNCHANGED <<db, storeVars, document, replies, alone>>

SaveThresholdsRead(s) ==
    /\ At(s, "reading document", "writing thresholds")
    /\ document' = [document EXCEPT ![s] = [Stored EXCEPT !.thresholds = wanted[s]]]
    /\ UNCHANGED <<db, storeVars, wanted, replies, alone>>

SaveThresholdsWrite(s) ==
    /\ At(s, "writing thresholds", "thresholds written")
    /\ db' = document[s]
    /\ UNCHANGED <<storeVars, saveVars, replies, alone>>

SaveThresholdsFails(s) ==
    /\ \/ At(s, "reading document", "thresholds failed")
       \/ At(s, "writing thresholds", "thresholds failed")
    /\ Interferes
    /\ UNCHANGED <<db, storeVars, saveVars, replies>>

SaveThresholdsReturn(s) ==
    /\ \/ At(s, "thresholds written", "idle") /\ isDirty' = FALSE /\ UNCHANGED error
       \/ At(s, "thresholds failed", "idle") /\ error' = TRUE /\ UNCHANGED isDirty
    /\ document' = [document EXCEPT ![s] = Both(Default)]
    /\ wanted' = [wanted EXCEPT ![s] = Default]
    /\ UNCHANGED <<db, settings, thresholds, isLoading, replies, alone>>

--------------------------------------------------------------------------------
LoadStep(l) ==
    GetSettings(l) \/ GetDetectorThresholds(l) \/ LoadReturn(l) \/ LoadFail(l)

SaveStep(s) ==
    \/ SaveSettingsCall(s) \/ SaveSettingsWrite(s) \/ SaveSettingsFails(s) \/ SaveSettingsReturn(s)
    \/ SaveThresholdsCall(s) \/ SaveThresholdsRead(s) \/ SaveThresholdsWrite(s)
    \/ SaveThresholdsFails(s) \/ SaveThresholdsReturn(s)

Next ==
    \/ EditCapture \/ EditThresholds
    \/ \E l \in Loads : LoadBegin(l) \/ LoadStep(l)
    \/ \E s \in Saves : SaveBegin(s) \/ SaveStep(s)

\* Calls that have begun come to an end; nobody has to click or to type.
Fairness ==
    /\ \A l \in Loads : WF_vars(LoadStep(l))
    /\ \A s \in Saves : WF_vars(SaveStep(s))

Spec == Init /\ [][Next]_vars /\ Fairness

--------------------------------------------------------------------------------
SaveWriting  == {"writing settings", "settings written", "settings failed"}
SaveSecond   == {"importing again", "reading document", "writing thresholds",
                 "thresholds written", "thresholds failed"}

TypeOK ==
    /\ db \in Document \union {NoRow}
    /\ settings \in Document /\ thresholds \in Value
    /\ isLoading \in BOOLEAN /\ isDirty \in BOOLEAN /\ error \in BOOLEAN
    /\ pc \in [Calls -> {"idle", "reading", "importing"} \union SaveWriting \union SaveSecond]
    /\ \A l \in Loads : pc[l] \in {"idle", "reading"}
    /\ \A s \in Saves : pc[s] # "reading"
    /\ document \in [Saves -> Document] /\ wanted \in [Saves -> Value]
    /\ replies \in [Loads -> [in : SUBSET Halves, settings : Document, thresholds : Value]]
    /\ alone \in Calls \union {Nobody}

\* What is shown is what is stored.
Agreed == Stored = [capture |-> settings.capture, thresholds |-> thresholds]

\* A call that ran to its end without failing, and without an edit or another
\* call since it began, leaves the screen and the database in agreement: the
\* second half of a save puts right the thresholds of the last load that the
\* first half has written, and keeps the capture preferences it has written.
QuietCallsAgree == alone # Nobody /\ pc[alone] = "idle" => Agreed

\* How far a call nothing has interfered with has come.
LoadOnCourse(l) ==
    pc[l] = "reading" =>
        /\ "settings" \in replies[l].in => replies[l].settings = Stored
        /\ "thresholds" \in replies[l].in => replies[l].thresholds = Stored.thresholds

SaveOnCourse(s) ==
    /\ pc[s] \notin {"settings failed", "thresholds failed"}
    /\ pc[s] \in SaveWriting => document[s] = settings
    /\ pc[s] \in {"settings written"} \union SaveSecond => Stored.capture = settings.capture
    /\ pc[s] \in {"reading document", "writing thresholds", "thresholds written"} =>
           wanted[s] = thresholds
    /\ pc[s] = "writing thresholds" =>
           document[s] = [capture |-> settings.capture, thresholds |-> thresholds]
    /\ pc[s] = "thresholds written" => Agreed

OnCourse ==
    alone # Nobody =>
        /\ \A c \in Calls \ {alone} : pc[c] = "idle"
        /\ alone \in Loads => LoadOnCourse(alone)
        /\ alone \in Saves => SaveOnCourse(alone)

Inv == TypeOK /\ OnCourse /\ QuietCallsAgree

\* The spinner goes away: Save and Discard are disabled while a load is on its
\* way, and a load that failed must not leave them so.
LoadsSettle == isLoading ~> ~isLoading

================================================================================
