---------------------------- MODULE HandlersProofs ----------------------------
(***************************************************************************)
(* What the handlers do in an execution, for every number of attempts,     *)
(* files and tables: the copy of tables (SqlCopy), the relay between two   *)
(* hosts (RelayTransfer) and the transfer of one file (FileTransfer).      *)
(* Last, all of the work side by side.                                     *)
(***************************************************************************)
EXTENDS WorkProofs, MaskingProofs

-----------------------------------------------------------------------------
(* SqlCopy: the tables of an attempt *)

\* The steps of an attempt after its script, and those with an exported table.
Copying == sql.step \in {"next", "mask", "in"}
Exported == sql.step \in {"mask", "in"}

\* The columns of a table are never altered back.
OrderInv == \A t \in Tables : sql.ddl[t] = 2 => schema[t] # 1

\* An attempt appends to the tables that its script has created and that are
\* still to be done; no row is anywhere twice.
AppendInv ==
    /\ Copying => /\ sql.todo \subseteq sql.tables
                  /\ \A t \in sql.todo : sqlDest[t] = "empty"
    /\ Exported => sql.table \in sql.todo
    /\ \A t \in Tables : sqlDest[t] # "twice"

SourceChanged(t) == schema[t] = 0 \/ schema[t] # sql.ddl[t]

\* The tables that are not of the transfer are left alone, the ones that have been
\* done are whole, and the rest of the scope did not exist any more.
WholeInv ==
    /\ sql.tables \subseteq sql.scope
    /\ sql.step = "idle" => sql.scope = {}
    /\ \A t \in Tables \ sql.scope : sqlDest[t] = "old"
    /\ sql.step \in {"introspect", "ddl", "next", "mask", "in"} \/ sql.result = "ok" =>
         \A t \in sql.scope \ sql.tables : schema[t] = 0
    /\ Exported => sql.out = sql.ddl[sql.table] \/ SourceChanged(sql.table)
    /\ Copying \/ sql.result = "ok" =>
         \A t \in sql.tables \ sql.todo :
             sqlDest[t] = "full" \/ SourceChanged(t) \/ t \in sql.odd
    /\ sql.result = "ok" => sql.step = "end" /\ sql.todo = {}

\* The process of a copy.
Sql ==
    [step : Q!Steps, tries : 0 .. MaxAttempts, scope : SUBSET Tables, tables : SUBSET Tables,
     todo : SUBSET Tables, table : Tables, ddl : [Tables -> 0 .. 2],
     out : 0 .. 2, odd : SUBSET Rules, result : {"none", "ok", "error"}]

\* A failed attempt is followed by another one, or by the end.
LEMMA AfterFailure ==
    ASSUME Q!TypeOK, NEW s, Q!FailedAttempt(s)
    PROVE  /\ sql' \in Sql
           /\ sql'.step \in {"list", "end"}
           /\ sql'.scope = sql.scope /\ sql'.tables = sql.tables /\ sql'.ddl = sql.ddl
           /\ sql'.result \in {sql.result, "error"}
<1>1. sql \in Sql
  BY DEF Q!TypeOK, Sql
<1>2. CASE sql.tries < MaxAttempts
  <2>1. sql' = [sql EXCEPT !.step = "list", !.tries = sql.tries + 1]
    BY <1>2 DEF Q!FailedAttempt
  <2>2. sql.tries + 1 \in 0 .. MaxAttempts
    BY <1>1, <1>2, WorkAssumption DEF Sql
  <2> QED BY <1>1, <2>1, <2>2 DEF Sql, Q!Steps
<1>3. CASE ~(sql.tries < MaxAttempts)
  <2>1. sql' = [sql EXCEPT !.step = "end", !.result = "error"]
    BY <1>3 DEF Q!FailedAttempt
  <2> QED BY <1>1, <2>1 DEF Sql, Q!Steps
<1> QED BY <1>2, <1>3

\* Every step keeps the types of the copy.
LEMMA SqlTypes == Q!TypeOK /\ [Q!Next]_(Q!vars) => Q!TypeOK'
<1> SUFFICES ASSUME Q!TypeOK, [Q!Next]_(Q!vars) PROVE Q!TypeOK'
  OBVIOUS
<1> USE WorkAssumption DEF Q!TypeOK, Q!Steps, Q!Holdings
<1>1. ASSUME NEW scope \in {Tables} \cup {{t} : t \in Tables}, NEW odd \in SUBSET Rules,
             Q!StartAttempt(scope, odd) PROVE Q!TypeOK'
  <2>1. sql' = [sql EXCEPT !.step = "list", !.tries = 1, !.scope = scope,
                           !.odd = odd]
    BY <1>1 DEF Q!StartAttempt
  <2>2. scope \in SUBSET Tables /\ 1 \in 0 .. MaxAttempts
    OBVIOUS
  <2>3. sql' \in Sql
    BY <2>1, <2>2 DEF Sql
  <2> QED BY <1>1, <2>3 DEF Q!StartAttempt, Sql
<1>2. CASE Q!ListTables
  BY <1>2 DEF Q!ListTables, Q!Goto
<1>3. CASE Q!NoTables
  BY <1>3 DEF Q!NoTables, Q!Goto
<1>4. CASE Q!IntrospectionFails
  BY <1>4 DEF Q!IntrospectionFails, Q!RemoveTemps
<1>5. CASE Q!RunScript
  BY <1>5 DEF Q!RunScript
<1>6. CASE Q!ScriptFails
  <2>1. sql' \in Sql
    BY <1>6, AfterFailure DEF Q!ScriptFails
  <2>2. PICK created \in SUBSET sql.tables, gone \in SUBSET sql.tables :
           /\ sqlDest' = [t \in Tables |-> IF t \in gone THEN "none"
                                         ELSE IF t \in created THEN "empty" ELSE sqlDest[t]]
           /\ \A t, u \in gone : t = u
    BY <1>6, Zenon DEF Q!ScriptFails
  <2>3. sqlDest' \in [Tables -> Q!Holdings]
    BY <2>2
  <2> QED BY <1>6, <2>1, <2>3 DEF Q!ScriptFails, Q!RemoveTemps, Sql
<1>7. CASE Q!ExportFails
  <2>1. sql' \in Sql
    BY <1>7, AfterFailure DEF Q!ExportFails
  <2> QED BY <1>7, <2>1 DEF Q!ExportFails, Q!RemoveTemps, Sql
<1>8. CASE Q!Mask
  BY <1>8 DEF Q!Mask, Q!Goto
<1>9. CASE Q!Import
  BY <1>9 DEF Q!Import
<1>10. CASE Q!ImportFails
  <2>1. sql' \in Sql
    BY <1>10, AfterFailure DEF Q!ImportFails
  <2> QED BY <1>10, <2>1 DEF Q!ImportFails, Q!RemoveTemps, Sql
<1>11. CASE Q!Complete
  BY <1>11 DEF Q!Complete, Q!RemoveTemps
<1>12. CASE Q!Killed
  BY <1>12 DEF Q!Killed, Q!Goto
<1>13. ASSUME NEW t \in Tables, Q!Introspect(t) PROVE Q!TypeOK'
  BY <1>13 DEF Q!Introspect
<1>14. ASSUME NEW t \in Tables, Q!Export(t) PROVE Q!TypeOK'
  <2>1. sql' = [sql EXCEPT !.step = IF t \in Rules THEN "mask" ELSE "in", !.table = t,
                           !.out = schema[t]]
    BY <1>14 DEF Q!Export
  <2>2. sql' \in Sql
    BY <2>1 DEF Sql
  <2> QED BY <1>14, <2>2 DEF Q!Export, Sql
<1>15. ASSUME NEW t \in Tables, Q!Alter(t) PROVE Q!TypeOK'
  BY <1>15 DEF Q!Alter
<1>16. CASE UNCHANGED Q!vars
  BY <1>16 DEF Q!vars
<1> QED
  BY <1>1, <1>2, <1>3, <1>4, <1>5, <1>6, <1>7, <1>8, <1>9, <1>10, <1>11, <1>12, <1>13, <1>14, <1>15,
     <1>16
  DEF Q!Next


\* No step alters a table back.
LEMMA OrderSteps == Q!TypeOK /\ OrderInv /\ [Q!Next]_(Q!vars) => OrderInv'
<1> SUFFICES ASSUME Q!TypeOK, OrderInv, [Q!Next]_(Q!vars) PROVE OrderInv'
  OBVIOUS
<1> USE DEF Q!TypeOK, OrderInv
<1>1. ASSUME NEW scope \in {Tables} \cup {{t} : t \in Tables}, NEW odd \in SUBSET Rules,
             Q!StartAttempt(scope, odd) PROVE OrderInv'
  BY <1>1 DEF Q!StartAttempt
<1>2. CASE Q!ListTables
  BY <1>2 DEF Q!ListTables, Q!Goto
<1>3. CASE Q!NoTables
  BY <1>3 DEF Q!NoTables, Q!Goto
<1>4. CASE Q!IntrospectionFails
  BY <1>4 DEF Q!IntrospectionFails
<1>5. CASE Q!RunScript
  BY <1>5 DEF Q!RunScript
<1>6. CASE Q!ScriptFails
  BY <1>6, AfterFailure DEF Q!ScriptFails
<1>7. CASE Q!ExportFails
  BY <1>7, AfterFailure DEF Q!ExportFails
<1>8. CASE Q!Mask
  BY <1>8 DEF Q!Mask, Q!Goto
<1>9. CASE Q!Import
  BY <1>9 DEF Q!Import
<1>10. CASE Q!ImportFails
  BY <1>10, AfterFailure DEF Q!ImportFails
<1>11. CASE Q!Complete
  BY <1>11 DEF Q!Complete
<1>12. CASE Q!Killed
  BY <1>12 DEF Q!Killed, Q!Goto
<1>13. ASSUME NEW t \in Tables, Q!Introspect(t) PROVE OrderInv'
  BY <1>13 DEF Q!Introspect
<1>14. ASSUME NEW t \in Tables, Q!Export(t) PROVE OrderInv'
  BY <1>14 DEF Q!Export
<1>15. ASSUME NEW t \in Tables, Q!Alter(t) PROVE OrderInv'
  BY <1>15 DEF Q!Alter
<1>16. CASE UNCHANGED Q!vars
  BY <1>16 DEF Q!vars
<1> QED
  BY <1>1, <1>2, <1>3, <1>4, <1>5, <1>6, <1>7, <1>8, <1>9, <1>10, <1>11, <1>12, <1>13, <1>14, <1>15,
     <1>16
  DEF Q!Next


\* Every step appends to an empty table only.
LEMMA AppendSteps == Q!TypeOK /\ AppendInv /\ [Q!Next]_(Q!vars) => AppendInv'
<1> SUFFICES ASSUME Q!TypeOK, AppendInv, [Q!Next]_(Q!vars) PROVE AppendInv'
  OBVIOUS
<1> USE DEF Q!TypeOK, AppendInv, Copying, Exported, Q!Steps
<1>1. ASSUME NEW scope \in {Tables} \cup {{t} : t \in Tables}, NEW odd \in SUBSET Rules,
             Q!StartAttempt(scope, odd)
      PROVE  AppendInv'
  BY <1>1 DEF Q!StartAttempt
<1>2. CASE Q!ListTables
  BY <1>2 DEF Q!ListTables, Q!Goto
<1>3. CASE Q!NoTables
  BY <1>3 DEF Q!NoTables, Q!Goto
<1>4. CASE Q!IntrospectionFails
  BY <1>4 DEF Q!IntrospectionFails
<1>5. CASE Q!RunScript
  BY <1>5 DEF Q!RunScript
<1>6. CASE Q!ScriptFails
  BY <1>6, AfterFailure DEF Q!ScriptFails
<1>7. CASE Q!ExportFails
  BY <1>7, AfterFailure DEF Q!ExportFails
<1>8. CASE Q!Mask
  BY <1>8 DEF Q!Mask, Q!Goto
<1>9. CASE Q!Import
  BY <1>9 DEF Q!Import
<1>10. CASE Q!ImportFails
  BY <1>10, AfterFailure DEF Q!ImportFails
<1>11. CASE Q!Complete
  BY <1>11 DEF Q!Complete
<1>12. CASE Q!Killed
  BY <1>12 DEF Q!Killed, Q!Goto
<1>13. ASSUME NEW t \in Tables, Q!Introspect(t) PROVE AppendInv'
  BY <1>13 DEF Q!Introspect
<1>14. ASSUME NEW t \in Tables, Q!Export(t) PROVE AppendInv'
  BY <1>14 DEF Q!Export
<1>15. ASSUME NEW t \in Tables, Q!Alter(t) PROVE AppendInv'
  BY <1>15 DEF Q!Alter
<1>16. CASE UNCHANGED Q!vars
  BY <1>16 DEF Q!vars
<1> QED
  BY <1>1, <1>2, <1>3, <1>4, <1>5, <1>6, <1>7, <1>8, <1>9, <1>10, <1>11, <1>12, <1>13, <1>14, <1>15,
     <1>16
  DEF Q!Next


\* Every step leaves the tables that are done whole.
LEMMA WholeSteps == Q!TypeOK /\ OrderInv /\ AppendInv /\ WholeInv /\ [Q!Next]_(Q!vars) => WholeInv'
<1> SUFFICES ASSUME Q!TypeOK, OrderInv, AppendInv, WholeInv, [Q!Next]_(Q!vars) PROVE WholeInv'
  OBVIOUS
<1> USE DEF Q!TypeOK, OrderInv, AppendInv, WholeInv, SourceChanged, Copying, Exported, Q!Steps
<1>1. ASSUME NEW scope \in {Tables} \cup {{t} : t \in Tables}, NEW odd \in SUBSET Rules,
             Q!StartAttempt(scope, odd) PROVE WholeInv'
  BY <1>1 DEF Q!StartAttempt
<1>2. CASE Q!ListTables
  BY <1>2 DEF Q!ListTables, Q!Goto
<1>3. CASE Q!NoTables
  BY <1>3 DEF Q!NoTables, Q!Goto
<1>4. CASE Q!IntrospectionFails
  BY <1>4 DEF Q!IntrospectionFails
<1>5. CASE Q!RunScript
  BY <1>5 DEF Q!RunScript
<1>6. CASE Q!ScriptFails
  BY <1>6, AfterFailure DEF Q!ScriptFails
<1>7. CASE Q!ExportFails
  BY <1>7, AfterFailure DEF Q!ExportFails
<1>8. CASE Q!Mask
  BY <1>8 DEF Q!Mask, Q!Goto
<1>9. CASE Q!Import
  BY <1>9 DEF Q!Import
<1>10. CASE Q!ImportFails
  BY <1>10, AfterFailure DEF Q!ImportFails
<1>11. CASE Q!Complete
  BY <1>11 DEF Q!Complete
<1>12. CASE Q!Killed
  BY <1>12 DEF Q!Killed, Q!Goto
<1>13. ASSUME NEW t \in Tables, Q!Introspect(t) PROVE WholeInv'
  BY <1>13 DEF Q!Introspect
<1>14. ASSUME NEW t \in Tables, Q!Export(t) PROVE WholeInv'
  BY <1>14 DEF Q!Export
<1>15. ASSUME NEW t \in Tables, Q!Alter(t) PROVE WholeInv'
  BY <1>15 DEF Q!Alter
<1>16. CASE UNCHANGED Q!vars
  BY <1>16 DEF Q!vars
<1> QED
  BY <1>1, <1>2, <1>3, <1>4, <1>5, <1>6, <1>7, <1>8, <1>9, <1>10, <1>11, <1>12, <1>13, <1>14, <1>15,
     <1>16
  DEF Q!Next


\* Every step that ends an attempt removes its files.
LEMMA FileSteps == Q!TypeOK /\ Q!FilesOnlyAtWork /\ [Q!Next]_(Q!vars) => Q!FilesOnlyAtWork'
<1> SUFFICES ASSUME Q!TypeOK, Q!FilesOnlyAtWork, [Q!Next]_(Q!vars) PROVE Q!FilesOnlyAtWork'
  OBVIOUS
<1> USE DEF Q!TypeOK, Q!FilesOnlyAtWork, Q!Steps, Q!RemoveTemps
<1>1. ASSUME NEW scope \in {Tables} \cup {{t} : t \in Tables}, NEW odd \in SUBSET Rules,
             Q!StartAttempt(scope, odd) PROVE Q!FilesOnlyAtWork'
  BY <1>1 DEF Q!StartAttempt
<1>2. CASE Q!ListTables
  BY <1>2 DEF Q!ListTables, Q!Goto
<1>3. CASE Q!NoTables
  BY <1>3 DEF Q!NoTables, Q!Goto
<1>4. CASE Q!IntrospectionFails
  BY <1>4 DEF Q!IntrospectionFails
<1>5. CASE Q!RunScript
  BY <1>5 DEF Q!RunScript
<1>6. CASE Q!ScriptFails
  BY <1>6, AfterFailure DEF Q!ScriptFails
<1>7. CASE Q!ExportFails
  BY <1>7, AfterFailure DEF Q!ExportFails
<1>8. CASE Q!Mask
  BY <1>8 DEF Q!Mask, Q!Goto
<1>9. CASE Q!Import
  BY <1>9 DEF Q!Import
<1>10. CASE Q!ImportFails
  BY <1>10, AfterFailure DEF Q!ImportFails
<1>11. CASE Q!Complete
  BY <1>11 DEF Q!Complete
<1>12. CASE Q!Killed
  BY <1>12 DEF Q!Killed, Q!Goto
<1>13. ASSUME NEW t \in Tables, Q!Introspect(t) PROVE Q!FilesOnlyAtWork'
  BY <1>13 DEF Q!Introspect
<1>14. ASSUME NEW t \in Tables, Q!Export(t) PROVE Q!FilesOnlyAtWork'
  BY <1>14 DEF Q!Export
<1>15. ASSUME NEW t \in Tables, Q!Alter(t) PROVE Q!FilesOnlyAtWork'
  BY <1>15 DEF Q!Alter
<1>16. CASE UNCHANGED Q!vars
  BY <1>16 DEF Q!vars
<1> QED
  BY <1>1, <1>2, <1>3, <1>4, <1>5, <1>6, <1>7, <1>8, <1>9, <1>10, <1>11, <1>12, <1>13, <1>14, <1>15,
     <1>16
  DEF Q!Next


CopyInv == Q!TypeOK /\ OrderInv /\ AppendInv /\ WholeInv /\ Q!FilesOnlyAtWork

\* The copy and what it finds stay as CopyInv says.
LEMMA CopyInvariant == Q!Spec => []CopyInv
<1>1. Q!Init => CopyInv
  <2> SUFFICES ASSUME Q!Init PROVE CopyInv
    OBVIOUS
  <2>1. Q!TypeOK
    BY WorkAssumption DEF Q!Init, Q!TypeOK, Q!Steps, Q!Holdings
  <2>2. OrderInv /\ AppendInv /\ Q!FilesOnlyAtWork
    BY DEF Q!Init, OrderInv, AppendInv, Q!FilesOnlyAtWork, Copying, Exported
  <2>3. WholeInv
    BY DEF Q!Init, WholeInv, Copying, Exported
  <2> QED BY <2>1, <2>2, <2>3 DEF CopyInv
<1>2. CopyInv /\ [Q!Next]_(Q!vars) => CopyInv'
  BY SqlTypes, OrderSteps, AppendSteps, WholeSteps, FileSteps DEF CopyInv
<1> QED
  BY <1>1, <1>2, PTL DEF Q!Spec

\* However often an attempt is repeated, no row is at the destination twice, and
\* what ends well is one whole copy of every table that was not altered meanwhile
\* (MssqlTransferHandler.execute, _transfer_once).
THEOREM CopiesOnce == Q!Spec => []CopiesWholeAndOnce
<1>1. CopyInv => CopiesWholeAndOnce
  <2> SUFFICES ASSUME CopyInv PROVE Q!DoneIsCopy /\ Q!CopiedOnce
    BY DEF CopiesWholeAndOnce
  <2>1. Q!CopiedOnce
    BY DEF CopyInv, AppendInv, Q!CopiedOnce
  <2>2. ASSUME sql.result = "ok", NEW t \in Tables
        PROVE  sqlDest[t] \in {"old", "full"} \/ schema[t] = 0 \/ schema[t] # sql.ddl[t]
               \/ t \in sql.odd
    BY <2>2 DEF CopyInv, WholeInv, SourceChanged
  <2> QED BY <2>1, <2>2 DEF Q!DoneIsCopy
<1> QED
  BY <1>1, CopyInvariant, PTL

-----------------------------------------------------------------------------
(* RelayTransfer: the files of a flow *)

\* The files are taken one by one from those listed; one under way is not done,
\* holds something once it is written, and is the only one that may be harmed.
\* What has not begun is not there.
RelayInv ==
    /\ relay.todo \subseteq relay.listed
    /\ relay.step \in {"idle", "connect", "hosts", "stat"} => relay.listed = {}
    /\ relay.step \in {"fetch", "put", "verify", "compare"} => relay.file \in relay.todo
    /\ relay.step = "put" => relay.read # {}
    /\ relay.step \in {"verify", "compare"} => relayDest[relay.file].holds # {}
    /\ relay.step = "next" => \A f \in relay.todo : relayDest[f].holds = {}
    /\ relay.result = "ok" => relay.todo = {} /\ relay.step = "end"
    /\ \A f \in relay.listed \ relay.todo :
          /\ relayDest[f].holds # {}
          /\ relay.verify => relayDest[f].sound
    /\ \A f \in Files : f \in relay.todo \ {relay.file} \/ f \notin relay.listed
                       => relayDest[f].holds = {}

\* The process of a flow.
Relay ==
    [step : R!Steps, verify : BOOLEAN, strict : BOOLEAN, listed : SUBSET Files, todo : SUBSET Files,
     file : Files, read : R!Contents, result : {"none", "ok", "error"}]

\* Every step keeps the types of the relay.
LEMMA RelayTypes == R!TypeOK /\ [R!Next]_(R!vars) => R!TypeOK'
<1> SUFFICES ASSUME R!TypeOK, [R!Next]_(R!vars) PROVE R!TypeOK'
  OBVIOUS
<1> USE DEF R!TypeOK, R!Steps, R!Contents
<1>1. ASSUME NEW v \in BOOLEAN, NEW b \in BOOLEAN, R!Begin(v, b) PROVE R!TypeOK'
  BY <1>1 DEF R!Begin
<1>2. CASE R!Connect
  BY <1>2 DEF R!Connect, R!Goto
<1>3. CASE R!ListDirectory
  BY <1>3 DEF R!ListDirectory
<1>4. CASE R!StartFails
  BY <1>4 DEF R!StartFails, R!End
<1>5. ASSUME NEW f \in Files, R!StatFile(f) PROVE R!TypeOK'
  BY <1>5 DEF R!StatFile
<1>6. ASSUME NEW f \in Files, R!StartFile(f) PROVE R!TypeOK'
  <2>1. relay' = [relay EXCEPT !.step = "fetch", !.file = f, !.read = relaySource[f]]
    BY <1>6 DEF R!StartFile
  <2>2. relaySource[f] \in R!Contents
    OBVIOUS
  <2>3. relay' \in Relay
    BY <2>1, <2>2 DEF Relay
  <2> QED BY <1>6, <2>3 DEF R!StartFile, Relay
<1>7. ASSUME NEW f \in Files, R!SourceChanges(f) PROVE R!TypeOK'
  BY <1>7 DEF R!SourceChanges
<1>8. CASE R!Fetch
  <2>1. PICK c \in {relay.read, relaySource[relay.file],
                   relay.read \cup relaySource[relay.file]} :
           relay' = [relay EXCEPT !.step = "put", !.read = c]
    BY <1>8 DEF R!Fetch, R!ReadSince
  <2>2. relay.read \in R!Contents /\ relaySource[relay.file] \in R!Contents
    OBVIOUS
  <2>3. c \in R!Contents
    BY <2>2
  <2>4. relay' \in Relay
    BY <2>1, <2>3 DEF Relay
  <2> QED BY <1>8, <2>4 DEF R!Fetch, Relay
<1>9. CASE R!Put
  BY <1>9 DEF R!Put, R!Goto
<1>10. CASE R!FileDone
  BY <1>10 DEF R!FileDone, R!ReadSince
<1>11. CASE R!FileFails
  <2>1. relay' \in Relay
    BY <1>11 DEF R!FileFails, R!End, Relay
  <2>2. relayDest' \in [Files -> [holds : R!Contents, sound : BOOLEAN]]
    <3> DEFINE d == [holds |-> relay.read, sound |-> FALSE]
    <3>1. d \in [holds : R!Contents, sound : BOOLEAN]
      OBVIOUS
    <3>2. relayDest' = relayDest \/ relayDest' = [relayDest EXCEPT ![relay.file] = d]
      BY <1>11 DEF R!FileFails, R!FailedPut
    <3> HIDE DEF d
    <3> QED BY <3>1, <3>2
  <2> QED BY <1>11, <2>1, <2>2 DEF R!FileFails, Relay
<1>12. CASE R!Complete
  BY <1>12 DEF R!Complete, R!End
<1>13. CASE R!Killed
  BY <1>13 DEF R!Killed, R!Goto
<1>14. CASE R!WriteHosts
  BY <1>14 DEF R!WriteHosts, R!Goto
<1>15. CASE R!HostsWriteFails
  BY <1>15 DEF R!HostsWriteFails, R!End
<1>16. CASE R!HashSource
  BY <1>16 DEF R!HashSource
<1>17. CASE UNCHANGED R!vars
  BY <1>17 DEF R!vars
<1> QED
  BY <1>1, <1>2, <1>3, <1>4, <1>5, <1>6, <1>7, <1>8, <1>9, <1>10, <1>11, <1>12, <1>13,
     <1>14, <1>15, <1>16, <1>17
  DEF R!Next


\* Every step keeps the files of the flow as RelayInv says.
LEMMA RelaySteps == R!TypeOK /\ RelayInv /\ [R!Next]_(R!vars) => RelayInv'
<1> SUFFICES ASSUME R!TypeOK, RelayInv, [R!Next]_(R!vars) PROVE RelayInv'
  OBVIOUS
<1> USE DEF R!TypeOK, RelayInv, R!Steps, R!Contents
<1>1. ASSUME NEW v \in BOOLEAN, NEW b \in BOOLEAN, R!Begin(v, b) PROVE RelayInv'
  BY <1>1 DEF R!Begin
<1>2. CASE R!Connect
  BY <1>2 DEF R!Connect, R!Goto
<1>3. CASE R!ListDirectory
  BY <1>3 DEF R!ListDirectory
<1>4. CASE R!StartFails
  BY <1>4 DEF R!StartFails, R!End
<1>5. ASSUME NEW f \in Files, R!StatFile(f) PROVE RelayInv'
  BY <1>5 DEF R!StatFile
<1>6. ASSUME NEW f \in Files, R!StartFile(f) PROVE RelayInv'
  BY <1>6 DEF R!StartFile
<1>7. ASSUME NEW f \in Files, R!SourceChanges(f) PROVE RelayInv'
  BY <1>7 DEF R!SourceChanges
<1>8. CASE R!Fetch
  BY <1>8 DEF R!Fetch, R!ReadSince
<1>9. CASE R!Put
  BY <1>9 DEF R!Put, R!Goto
<1>10. CASE R!FileDone
  BY <1>10 DEF R!FileDone, R!ReadSince
<1>11. CASE R!FileFails
  BY <1>11 DEF R!FileFails, R!MayRaise, R!FailedPut, R!End
<1>12. CASE R!Complete
  BY <1>12 DEF R!Complete, R!End
<1>13. CASE R!Killed
  BY <1>13 DEF R!Killed, R!Goto
<1>14. CASE R!WriteHosts
  BY <1>14 DEF R!WriteHosts, R!Goto
<1>15. CASE R!HostsWriteFails
  BY <1>15 DEF R!HostsWriteFails, R!End
<1>16. CASE R!HashSource
  BY <1>16 DEF R!HashSource
<1>17. CASE UNCHANGED R!vars
  BY <1>17 DEF R!vars
<1> QED
  BY <1>1, <1>2, <1>3, <1>4, <1>5, <1>6, <1>7, <1>8, <1>9, <1>10, <1>11, <1>12, <1>13,
     <1>14, <1>15, <1>16, <1>17
  DEF R!Next


\* Every step removes the local copy of a file that is done.
LEMMA LocalCopySteps == R!TypeOK /\ R!NoLocalCopy /\ [R!Next]_(R!vars) => R!NoLocalCopy'
<1> SUFFICES ASSUME R!TypeOK, R!NoLocalCopy, [R!Next]_(R!vars) PROVE R!NoLocalCopy'
  OBVIOUS
<1> USE DEF R!TypeOK, R!NoLocalCopy, R!Steps
<1>1. ASSUME NEW v \in BOOLEAN, NEW b \in BOOLEAN, R!Begin(v, b) PROVE R!NoLocalCopy'
  BY <1>1 DEF R!Begin
<1>2. CASE R!Connect
  BY <1>2 DEF R!Connect, R!Goto
<1>3. CASE R!ListDirectory
  BY <1>3 DEF R!ListDirectory
<1>4. CASE R!StartFails
  BY <1>4 DEF R!StartFails, R!End
<1>5. ASSUME NEW f \in Files, R!StatFile(f) PROVE R!NoLocalCopy'
  BY <1>5 DEF R!StatFile
<1>6. ASSUME NEW f \in Files, R!StartFile(f) PROVE R!NoLocalCopy'
  BY <1>6 DEF R!StartFile
<1>7. ASSUME NEW f \in Files, R!SourceChanges(f) PROVE R!NoLocalCopy'
  BY <1>7 DEF R!SourceChanges
<1>8. CASE R!Fetch
  BY <1>8 DEF R!Fetch, R!ReadSince
<1>9. CASE R!Put
  BY <1>9 DEF R!Put, R!Goto
<1>10. CASE R!FileDone
  BY <1>10 DEF R!FileDone, R!ReadSince
<1>11. CASE R!FileFails
  BY <1>11 DEF R!FileFails, R!MayRaise, R!FailedPut, R!End
<1>12. CASE R!Complete
  BY <1>12 DEF R!Complete, R!End
<1>13. CASE R!Killed
  BY <1>13 DEF R!Killed, R!Goto
<1>14. CASE R!WriteHosts
  BY <1>14 DEF R!WriteHosts, R!Goto
<1>15. CASE R!HostsWriteFails
  BY <1>15 DEF R!HostsWriteFails, R!End
<1>16. CASE R!HashSource
  BY <1>16 DEF R!HashSource
<1>17. CASE UNCHANGED R!vars
  BY <1>17 DEF R!vars
<1> QED
  BY <1>1, <1>2, <1>3, <1>4, <1>5, <1>6, <1>7, <1>8, <1>9, <1>10, <1>11, <1>12, <1>13,
     <1>14, <1>15, <1>16, <1>17
  DEF R!Next


\* The relay and its files stay as RelayInv says.
LEMMA RelayInvariant == R!Spec => []((R!TypeOK /\ RelayInv) /\ R!NoLocalCopy)
<1>1. R!Init => (R!TypeOK /\ RelayInv) /\ R!NoLocalCopy
  <2> SUFFICES ASSUME R!Init PROVE (R!TypeOK /\ RelayInv) /\ R!NoLocalCopy
    OBVIOUS
  <2>1. R!TypeOK
    BY WorkAssumption DEF R!Init, R!TypeOK, R!Steps, R!Contents
  <2>2. RelayInv /\ R!NoLocalCopy
    BY DEF R!Init, RelayInv, R!NoLocalCopy
  <2> QED BY <2>1, <2>2
<1>2. R!TypeOK /\ RelayInv /\ [R!Next]_(R!vars) => (R!TypeOK /\ RelayInv)'
  BY RelayTypes, RelaySteps
<1>3. R!TypeOK /\ R!NoLocalCopy /\ [R!Next]_(R!vars) => R!NoLocalCopy'
  BY LocalCopySteps
<1> QED
  BY <1>1, <1>2, <1>3, PTL DEF R!Spec

\* A flow that ends well has delivered every listed file, with a checksum unharmed;
\* one that does not has touched no file after the one that failed
\* (_transfer_directory, _transfer_file).
THEOREM DeliversAllOrStops == R!Spec => []DeliversOrStops
<1>1. R!TypeOK /\ RelayInv => DeliversOrStops
  <2> SUFFICES ASSUME R!TypeOK, RelayInv PROVE R!AllDelivered /\ R!StopsAtFirstError
    BY DEF DeliversOrStops
  <2>1. R!AllDelivered
    BY DEF RelayInv, R!AllDelivered
  <2>2. R!StopsAtFirstError
    BY DEF RelayInv, R!StopsAtFirstError
  <2> QED BY <2>1, <2>2
<1> QED
  BY <1>1, RelayInvariant, PTL

-----------------------------------------------------------------------------
(* FileTransfer: the temporary files and the destination *)

\* Until the finally each temporary file is one that a variable holds, and then
\* all but the one whose writing failed; the encrypted copy always is.
TempInv ==
    /\ "cipher" \in temps => "cipher" \in ft.kept
    /\ ft.step \notin {"finally", "end", "killed"} => temps \subseteq ft.kept
    /\ ft.step = "finally" => temps \subseteq ft.kept \/ ft.result = "error"
    /\ F!TempsRemoved

\* Nothing has been written before the file is encrypted.
CipherInv ==
    /\ ft.step \in {"idle", "hosts", "key", "encrypt"} => dest.holds = {}
    /\ F!OnlyCipherLeaves

\* The process of a transfer.
Ft ==
    [step : F!Steps, p : F!Params, tries : 0 .. MaxAttempts,
     kept : SUBSET {"hosts", "key", "cipher"},
     read : SUBSET {1, 2}, hash : SUBSET {1, 2}, changed : BOOLEAN,
     result : {"none", "ok", "error", "answer"}]

\* What a step that only goes on, one that raises and one that keeps the path of a
\* temporary file leave alone.
LEMMA GoesOn ==
    ASSUME F!TypeOK, NEW s \in F!Steps, F!Goto(s)
    PROVE  /\ ft' \in Ft /\ ft'.step = s /\ ft'.p = ft.p /\ ft'.tries = ft.tries
           /\ ft'.kept = ft.kept /\ ft'.hash = ft.hash /\ ft'.changed = ft.changed
           /\ ft'.read = ft.read /\ ft'.result = ft.result
<1>1. ft \in Ft
  BY DEF F!TypeOK, Ft
<1>2. ft' = [ft EXCEPT !.step = s]
  BY DEF F!Goto
<1> QED BY <1>1, <1>2 DEF Ft

LEMMA Raises ==
    ASSUME F!TypeOK, F!Raise \/ F!RaiseOrAnswer
    PROVE  /\ ft' \in Ft /\ ft'.step = "finally" /\ ft'.p = ft.p /\ ft'.kept = ft.kept
           /\ ft'.read = ft.read /\ ft'.result \in {"error", "answer"}
           /\ F!Raise => ft'.result = "error"
<1>1. ft \in Ft
  BY DEF F!TypeOK, Ft
<1>2. CASE F!Raise
  <2>1. ft' = [ft EXCEPT !.step = "finally", !.result = "error"]
    BY <1>2 DEF F!Raise
  <2> QED BY <1>1, <2>1 DEF Ft, F!Steps
<1>3. CASE F!RaiseOrAnswer
  <2>1. PICK e \in {"error", "answer"} : ft' = [ft EXCEPT !.step = "finally", !.result = e]
    BY <1>3 DEF F!RaiseOrAnswer
  <2>2. /\ ft' \in Ft /\ ft'.step = "finally" /\ ft'.p = ft.p /\ ft'.kept = ft.kept
        /\ ft'.read = ft.read /\ ft'.result = e
    BY <1>1, <2>1 DEF Ft, F!Steps
  <2>3. F!Raise => ft'.result = "error"
    BY <1>1 DEF F!Raise, Ft
  <2> QED BY <2>2, <2>3
<1> QED BY <1>2, <1>3

LEMMA Keeps ==
    ASSUME F!TypeOK, NEW name \in {"hosts", "key", "cipher"}, NEW s \in F!Steps,
           F!Keep(name, s)
    PROVE  /\ ft' \in Ft /\ ft'.step = s /\ ft'.p = ft.p /\ ft'.tries = ft.tries
           /\ ft'.kept = ft.kept \cup {name}
           /\ ft'.read = ft.read /\ ft'.result = ft.result
           /\ temps' = temps \cup {name}
<1>1. ft \in Ft
  BY DEF F!TypeOK, Ft
<1>2. ft' = [ft EXCEPT !.step = s, !.kept = ft.kept \cup {name}] /\ temps' = temps \cup {name}
  BY DEF F!Keep
<1>3. ft.kept \cup {name} \in SUBSET {"hosts", "key", "cipher"}
  BY <1>1 DEF Ft
<1> QED BY <1>1, <1>2, <1>3 DEF Ft

\* Until it has been compared, the local hash is that of the source as it is, unless
\* that has changed since; and so it is when the transfer has returned.
VerifiedInv ==
    /\ ft.step \in {"hash", "compare"} => ft.hash = source \/ ft.changed
    /\ F!VerifiedIsSource

\* An attempt starts within the limit; so do the steps before it.
TriesInv ==
    /\ ft.step \in {"idle", "hosts", "key", "encrypt", "dry"} => ft.tries = 0
    /\ ft.step = "attempt" => ft.tries < MaxAttempts

FileTypeInv == F!TypeOK /\ TriesInv

\* An attempt reads the encrypted copy, or the source.
LEMMA Starts ==
    ASSUME FileTypeInv, F!StartAttempt, F!HostAccepted
    PROVE  /\ ft' \in Ft /\ ft'.step = "sending" /\ ft'.p = ft.p /\ ft'.kept = ft.kept
           /\ F!Encrypts => ft'.read = ft.read
           /\ ft'.result = ft.result
<1>1. ft \in Ft
  BY DEF FileTypeInv, F!TypeOK, Ft
<1>2. PICK c \in {ft.read, source} :
         /\ ft' = [ft EXCEPT !.step = "sending", !.tries = ft.tries + 1, !.read = c]
         /\ F!Encrypts => c = ft.read
  BY DEF F!StartAttempt
<1>3. c \in SUBSET {1, 2}
  BY <1>1 DEF Ft, FileTypeInv, F!TypeOK, F!Contents
<1>4. ft.tries + 1 \in 0 .. MaxAttempts
  BY <1>1, WorkAssumption DEF Ft, FileTypeInv, TriesInv, F!StartAttempt
<1> QED BY <1>1, <1>2, <1>3, <1>4 DEF Ft, F!Steps

\* The encrypted copy is made from the source as it is.
LEMMA EncryptsCopy ==
    ASSUME FileTypeInv, F!EncryptSource, F!Encrypts
    PROVE  /\ ft' \in Ft /\ ft'.step \in {"dry", "attempt"} /\ ft'.p = ft.p
           /\ ft'.tries = ft.tries /\ ft'.kept = ft.kept \cup {"cipher"}
           /\ ft'.result = ft.result /\ temps' = temps \cup {"cipher"}
<1>1. ft \in Ft
  BY DEF FileTypeInv, F!TypeOK, Ft
<1>2. PICK s \in {"dry", "attempt"} :
         ft' = [ft EXCEPT !.step = s, !.kept = ft.kept \cup {"cipher"}, !.read = source]
  BY DEF F!EncryptSource, F!AfterEncrypt
<1>3. ft.kept \cup {"cipher"} \in SUBSET {"hosts", "key", "cipher"}
  BY <1>1 DEF Ft
<1>4. source \in SUBSET {1, 2}
  BY DEF FileTypeInv, F!TypeOK, F!Contents
<1>5. temps' = temps \cup {"cipher"}
  BY DEF F!EncryptSource
<1> QED BY <1>1, <1>2, <1>3, <1>4, <1>5 DEF Ft, F!Steps

\* The contents that the source goes through.
LEMMA FileContents == {1} \in F!Contents /\ {1, 2} \in F!Contents /\ {2} \in F!Contents
<1>1. {1} # {} /\ {2} # {} /\ {1, 2} # {}
  OBVIOUS
<1>2. {1} \in SUBSET {1, 2} /\ {2} \in SUBSET {1, 2} /\ {1, 2} \in SUBSET {1, 2}
  OBVIOUS
<1> QED BY <1>1, <1>2 DEF F!Contents

\* What an attempt writes at the destination, if it writes anything.
LEMMA Writes ==
    ASSUME FileTypeInv,
           \/ \E c \in F!Sent, b \in BOOLEAN : dest' = F!Written(c, b)
           \/ F!FailedWrite
    PROVE  /\ dest' \in [cipher : BOOLEAN, holds : SUBSET {1, 2}, sound : BOOLEAN]
           /\ \/ dest' = dest
              \/ dest'.cipher = F!Encrypts /\ (F!Encrypts => dest'.holds = ft.read)
<1>1. CASE dest' = dest
  BY <1>1 DEF FileTypeInv, F!TypeOK
<1>2. CASE dest' # dest
  <2>1. PICK c \in F!Sent, b \in BOOLEAN :
           dest' = [cipher |-> F!Encrypts, holds |-> c, sound |-> b]
    BY <1>2 DEF F!FailedWrite, F!Written
  <2>2. ft.read \in SUBSET {1, 2} /\ source \in SUBSET {1, 2}
    BY DEF FileTypeInv, F!TypeOK, F!Contents
  <2>3. c \in SUBSET {1, 2} /\ (F!Encrypts => c = ft.read)
    BY <2>1, <2>2 DEF F!Sent, F!ReadSince
  <2>4. F!Encrypts \in BOOLEAN
    BY DEF FileTypeInv, F!TypeOK, F!Params, F!Encrypts, F!IsSftp, F!P
  <2> QED BY <2>1, <2>3, <2>4
<1> QED BY <1>1, <1>2

\* Every step keeps the types of the transfer and the limit of its attempts.
LEMMA FileTypes == FileTypeInv /\ [F!Next]_(F!vars) => FileTypeInv'
<1> SUFFICES ASSUME FileTypeInv, [F!Next]_(F!vars) PROVE FileTypeInv'
  OBVIOUS
<1> USE WorkAssumption DEF FileTypeInv, TriesInv, Ft, F!TypeOK, F!Steps
<1>1. ASSUME NEW p \in F!Params, F!Begin(p) PROVE FileTypeInv'
  BY <1>1 DEF F!Begin
<1>2. CASE F!SetupKnownHosts
  BY <1>2, GoesOn, Keeps DEF F!SetupKnownHosts
<1>3. CASE F!SetupSshKey
  BY <1>3, GoesOn, Keeps DEF F!SetupSshKey
<1>4. CASE F!SshKeyError
  BY <1>4, Raises DEF F!SshKeyError
<1>5. CASE F!TempWriteFails
  BY <1>5, Raises DEF F!TempWriteFails
<1>6. CASE F!EncryptSource
  BY <1>6, GoesOn, EncryptsCopy DEF F!EncryptSource, F!AfterEncrypt
<1>7. CASE F!GPGEncryptError
  BY <1>7, Raises DEF F!GPGEncryptError
<1>8. CASE F!DryRun
  BY <1>8, GoesOn, Raises DEF F!DryRun
<1>9. CASE F!StartAttempt
  BY <1>9, Starts, Raises DEF F!StartAttempt
<1>10. CASE F!AttemptSucceeds
  BY <1>10, GoesOn, Writes DEF F!AttemptSucceeds
<1>11. CASE F!AttemptAgain
  BY <1>11, GoesOn, Raises, Writes DEF F!AttemptAgain
<1>12. CASE F!AttemptFatal
  BY <1>12, Raises, Writes DEF F!AttemptFatal
<1>13. CASE F!SkipVerify
  BY <1>13 DEF F!SkipVerify, F!Return
<1>14. CASE F!StartHash
  <2>1. ft' = [ft EXCEPT !.step = "hash", !.hash = source, !.changed = FALSE]
    BY <1>14 DEF F!StartHash
  <2>2. ft \in Ft /\ source \in SUBSET {1, 2}
    BY DEF F!Contents
  <2>3. ft' \in Ft /\ ft'.step = "hash"
    BY <2>1, <2>2
  <2> QED BY <1>14, <2>3 DEF F!StartHash
<1>15. CASE F!HashLocal
  <2>1. PICK c \in F!ReadSince(ft.hash) : ft' = [ft EXCEPT !.step = "compare", !.hash = c]
    BY <1>15 DEF F!HashLocal
  <2>2. ft \in Ft /\ source \in SUBSET {1, 2}
    BY DEF F!Contents
  <2>3. c \in SUBSET {1, 2}
    BY <2>2 DEF F!ReadSince
  <2>4. ft' \in Ft /\ ft'.step = "compare"
    BY <2>1, <2>2, <2>3
  <2> QED BY <1>15, <2>4 DEF F!HashLocal
<1>16. CASE F!CompareRemote
  BY <1>16 DEF F!CompareRemote, F!Return
<1>17. CASE F!VerifyRaises
  BY <1>17, Raises DEF F!VerifyRaises
<1>18. CASE F!VerifyTimeout
  BY <1>18, GoesOn, Raises DEF F!VerifyTimeout
<1>19. CASE F!Cleanup
  BY <1>19, GoesOn DEF F!Cleanup
<1>20. CASE F!Killed
  BY <1>20, GoesOn DEF F!Killed
<1>21. CASE F!OverwriteSource
  <2>1. source' \in F!Contents
    <3>1. source' = {1, 2} \/ source' = {2}
      BY <1>21 DEF F!OverwriteSource
    <3> QED BY <3>1, FileContents
  <2> QED BY <1>21, <2>1 DEF F!OverwriteSource
<1>22. CASE UNCHANGED F!vars
  BY <1>22 DEF F!vars
<1> QED
  BY <1>1, <1>2, <1>3, <1>4, <1>5, <1>6, <1>7, <1>8, <1>9, <1>10, <1>11, <1>12, <1>13,
     <1>14, <1>15, <1>16, <1>17, <1>18, <1>19, <1>20, <1>21, <1>22
  DEF F!Next


\* Every step keeps the temporary files where the finally finds them.
LEMMA TempSteps == FileTypeInv /\ TempInv /\ [F!Next]_(F!vars) => TempInv'
<1> SUFFICES ASSUME FileTypeInv, TempInv, [F!Next]_(F!vars) PROVE TempInv'
  OBVIOUS
<1> USE DEF FileTypeInv, F!TypeOK, F!Steps, TempInv, F!TempsRemoved
<1>1. ASSUME NEW p \in F!Params, F!Begin(p) PROVE TempInv'
  BY <1>1 DEF F!Begin
<1>2. CASE F!SetupKnownHosts
  BY <1>2, GoesOn, Keeps DEF F!SetupKnownHosts
<1>3. CASE F!SetupSshKey
  BY <1>3, GoesOn, Keeps DEF F!SetupSshKey
<1>4. CASE F!SshKeyError
  BY <1>4, Raises DEF F!SshKeyError
<1>5. CASE F!TempWriteFails
  BY <1>5, Raises DEF F!TempWriteFails
<1>6. CASE F!EncryptSource
  BY <1>6, GoesOn, EncryptsCopy DEF F!EncryptSource, F!AfterEncrypt
<1>7. CASE F!GPGEncryptError
  BY <1>7, Raises DEF F!GPGEncryptError
<1>8. CASE F!DryRun
  BY <1>8, GoesOn, Raises DEF F!DryRun
<1>9. CASE F!StartAttempt
  BY <1>9, Starts, Raises DEF F!StartAttempt
<1>10. CASE F!AttemptSucceeds
  BY <1>10, GoesOn DEF F!AttemptSucceeds
<1>11. CASE F!AttemptAgain
  BY <1>11, GoesOn, Raises DEF F!AttemptAgain
<1>12. CASE F!AttemptFatal
  BY <1>12, Raises DEF F!AttemptFatal
<1>13. CASE F!SkipVerify
  BY <1>13 DEF F!SkipVerify, F!Return
<1>14. CASE F!StartHash
  BY <1>14 DEF F!StartHash
<1>15. CASE F!HashLocal
  BY <1>15 DEF F!HashLocal, F!ReadSince
<1>16. CASE F!CompareRemote
  BY <1>16 DEF F!CompareRemote, F!Return
<1>17. CASE F!VerifyRaises
  BY <1>17, Raises DEF F!VerifyRaises
<1>18. CASE F!VerifyTimeout
  BY <1>18, GoesOn, Raises DEF F!VerifyTimeout
<1>19. CASE F!Cleanup
  BY <1>19, GoesOn DEF F!Cleanup
<1>20. CASE F!Killed
  BY <1>20, GoesOn DEF F!Killed
<1>21. CASE F!OverwriteSource
  BY <1>21 DEF F!OverwriteSource
<1>22. CASE UNCHANGED F!vars
  BY <1>22 DEF F!vars
<1> QED
  BY <1>1, <1>2, <1>3, <1>4, <1>5, <1>6, <1>7, <1>8, <1>9, <1>10, <1>11, <1>12, <1>13,
     <1>14, <1>15, <1>16, <1>17, <1>18, <1>19, <1>20, <1>21, <1>22
  DEF F!Next


\* A transfer that verifies returns with what it has hashed.
LEMMA VerifiedSteps == FileTypeInv /\ VerifiedInv /\ [F!Next]_(F!vars) => VerifiedInv'
<1> SUFFICES ASSUME FileTypeInv, VerifiedInv, [F!Next]_(F!vars) PROVE VerifiedInv'
  OBVIOUS
<1> USE DEF FileTypeInv, F!TypeOK, F!Steps, VerifiedInv, F!VerifiedIsSource, F!Verifies, F!Encrypts,
            F!IsSftp, F!P
<1>1. ASSUME NEW p \in F!Params, F!Begin(p) PROVE VerifiedInv'
  BY <1>1 DEF F!Begin
<1>2. CASE F!SetupKnownHosts
  BY <1>2, GoesOn, Keeps DEF F!SetupKnownHosts
<1>3. CASE F!SetupSshKey
  BY <1>3, GoesOn, Keeps DEF F!SetupSshKey
<1>4. CASE F!SshKeyError
  BY <1>4, Raises DEF F!SshKeyError
<1>5. CASE F!TempWriteFails
  BY <1>5, Raises DEF F!TempWriteFails
<1>6. CASE F!EncryptSource
  BY <1>6, GoesOn, EncryptsCopy DEF F!EncryptSource, F!AfterEncrypt
<1>7. CASE F!GPGEncryptError
  BY <1>7, Raises DEF F!GPGEncryptError
<1>8. CASE F!DryRun
  BY <1>8, GoesOn, Raises DEF F!DryRun
<1>9. CASE F!StartAttempt
  BY <1>9, Starts, Raises DEF F!StartAttempt
<1>10. CASE F!AttemptSucceeds
  BY <1>10, GoesOn DEF F!AttemptSucceeds
<1>11. CASE F!AttemptAgain
  BY <1>11, GoesOn, Raises DEF F!AttemptAgain
<1>12. CASE F!AttemptFatal
  BY <1>12, Raises DEF F!AttemptFatal
<1>13. CASE F!SkipVerify
  BY <1>13 DEF F!SkipVerify, F!Return
<1>14. CASE F!StartHash
  BY <1>14 DEF F!StartHash
<1>15. CASE F!HashLocal
  BY <1>15 DEF F!HashLocal, F!ReadSince
<1>16. CASE F!CompareRemote
  BY <1>16 DEF F!CompareRemote, F!Return
<1>17. CASE F!VerifyRaises
  BY <1>17, Raises DEF F!VerifyRaises
<1>18. CASE F!VerifyTimeout
  BY <1>18, GoesOn, Raises DEF F!VerifyTimeout
<1>19. CASE F!Cleanup
  BY <1>19, GoesOn DEF F!Cleanup
<1>20. CASE F!Killed
  BY <1>20, GoesOn DEF F!Killed
<1>21. CASE F!OverwriteSource
  BY <1>21 DEF F!OverwriteSource
<1>22. CASE UNCHANGED F!vars
  BY <1>22 DEF F!vars
<1> QED
  BY <1>1, <1>2, <1>3, <1>4, <1>5, <1>6, <1>7, <1>8, <1>9, <1>10, <1>11, <1>12, <1>13,
     <1>14, <1>15, <1>16, <1>17, <1>18, <1>19, <1>20, <1>21, <1>22
  DEF F!Next


\* Every step of an encrypted transfer writes the encrypted copy.
LEMMA CipherSteps == FileTypeInv /\ CipherInv /\ [F!Next]_(F!vars) => CipherInv'
<1> SUFFICES ASSUME FileTypeInv, CipherInv, [F!Next]_(F!vars) PROVE CipherInv'
  OBVIOUS
<1> USE DEF FileTypeInv, F!TypeOK, F!Steps, CipherInv, F!OnlyCipherLeaves, F!Encrypts, F!IsSftp, F!P
<1>1. ASSUME NEW p \in F!Params, F!Begin(p) PROVE CipherInv'
  BY <1>1 DEF F!Begin
<1>2. CASE F!SetupKnownHosts
  BY <1>2, GoesOn, Keeps DEF F!SetupKnownHosts
<1>3. CASE F!SetupSshKey
  BY <1>3, GoesOn, Keeps DEF F!SetupSshKey
<1>4. CASE F!SshKeyError
  BY <1>4, Raises DEF F!SshKeyError
<1>5. CASE F!TempWriteFails
  BY <1>5, Raises DEF F!TempWriteFails
<1>6. CASE F!EncryptSource
  BY <1>6, GoesOn, EncryptsCopy DEF F!EncryptSource, F!AfterEncrypt
<1>7. CASE F!GPGEncryptError
  BY <1>7, Raises DEF F!GPGEncryptError
<1>8. CASE F!DryRun
  BY <1>8, GoesOn, Raises DEF F!DryRun
<1>9. CASE F!StartAttempt
  BY <1>9, Starts, Raises DEF F!StartAttempt
<1>10. CASE F!AttemptSucceeds
  BY <1>10, GoesOn, Writes DEF F!AttemptSucceeds
<1>11. CASE F!AttemptAgain
  BY <1>11, GoesOn, Raises, Writes DEF F!AttemptAgain
<1>12. CASE F!AttemptFatal
  BY <1>12, Raises, Writes DEF F!AttemptFatal
<1>13. CASE F!SkipVerify
  BY <1>13 DEF F!SkipVerify, F!Return
<1>14. CASE F!StartHash
  BY <1>14 DEF F!StartHash
<1>15. CASE F!HashLocal
  BY <1>15 DEF F!HashLocal, F!ReadSince
<1>16. CASE F!CompareRemote
  BY <1>16 DEF F!CompareRemote, F!Return
<1>17. CASE F!VerifyRaises
  BY <1>17, Raises DEF F!VerifyRaises
<1>18. CASE F!VerifyTimeout
  BY <1>18, GoesOn, Raises DEF F!VerifyTimeout
<1>19. CASE F!Cleanup
  BY <1>19, GoesOn DEF F!Cleanup
<1>20. CASE F!Killed
  BY <1>20, GoesOn DEF F!Killed
<1>21. CASE F!OverwriteSource
  BY <1>21 DEF F!OverwriteSource
<1>22. CASE UNCHANGED F!vars
  BY <1>22 DEF F!vars
<1> QED
  BY <1>1, <1>2, <1>3, <1>4, <1>5, <1>6, <1>7, <1>8, <1>9, <1>10, <1>11, <1>12, <1>13,
     <1>14, <1>15, <1>16, <1>17, <1>18, <1>19, <1>20, <1>21, <1>22
  DEF F!Next


FileInv == FileTypeInv /\ TempInv /\ VerifiedInv /\ CipherInv

\* The transfer of a file stays as FileInv says.
LEMMA FileInvariant == F!Spec => []FileInv
<1>1. F!Init => FileInv
  <2> SUFFICES ASSUME F!Init PROVE FileInv
    OBVIOUS
  <2>1. ft.p \in F!Params
    <3>1. [handler |-> "rsync", strict_host_key_checking |-> FALSE, known_host_key |-> FALSE,
           genuine |-> FALSE, ssh_key |-> FALSE, encrypt |-> FALSE, gpg_passphrase |-> FALSE,
           dry_run |-> FALSE, verify_checksum |-> FALSE] \in F!Params
      BY DEF F!Params
    <3>2. (CHOOSE p \in F!Params : TRUE) \in F!Params
      BY <3>1
    <3> QED BY <3>2 DEF F!Init
  <2>2. ft \in Ft /\ TriesInv
    BY <2>1, WorkAssumption DEF F!Init, Ft, TriesInv, F!Steps
  <2>3. FileTypeInv
    BY <2>2, FileContents DEF F!Init, FileTypeInv, F!TypeOK, Ft
  <2>4. TempInv /\ VerifiedInv /\ CipherInv
    BY DEF F!Init, TempInv, F!TempsRemoved, VerifiedInv, F!VerifiedIsSource, CipherInv,
           F!OnlyCipherLeaves
  <2> QED BY <2>3, <2>4 DEF FileInv
<1>2. FileInv /\ [F!Next]_(F!vars) => FileInv'
  BY FileTypes, TempSteps, VerifiedSteps, CipherSteps DEF FileInv
<1> QED
  BY <1>1, <1>2, PTL DEF F!Spec

\* What a verified transfer leaves is what its source holds, unless that changed since
\* its hashing began, and with encryption on nothing plain is ever written
\* (verify_rsync, verify_sftp, _encrypt_source_if_needed).
THEOREM ArrivesVerified == F!Spec => []ArrivesAsAsked
<1>1. FileInv => ArrivesAsAsked
  BY DEF FileInv, VerifiedInv, CipherInv, ArrivesAsAsked
<1> QED
  BY <1>1, FileInvariant, PTL

\* However a transfer, a flow or a copy of tables ends, the worker keeps no copy of
\* what it moved (the finally of execute, of _transfer_file and of _transfer_once).
THEOREM LeavesNothingBehind == F!Spec /\ R!Spec /\ Q!Spec => []NothingLeftBehind
<1>1. FileInv /\ R!NoLocalCopy /\ CopyInv => NothingLeftBehind
  BY DEF FileInv, TempInv, CopyInv, NothingLeftBehind
<1> QED
  BY <1>1, FileInvariant, RelayInvariant, CopyInvariant, PTL

-----------------------------------------------------------------------------
(* All of the work *)

\* Every behaviour of the work is one of each of its parts.
LEMMA WorkIsItsParts ==
    WorkSpec => C!Spec /\ U!Spec /\ Spec /\ F!Spec /\ R!Spec /\ Q!Spec /\ M!Spec
<1>1. WorkInit => C!Init /\ U!Init /\ Init /\ F!Init /\ R!Init /\ Q!Init /\ M!Init
  BY DEF WorkInit
<1>2. [WorkNext]_allVars => [C!Next]_(C!vars)
  BY DEF WorkNext, allVars, cVars, C!vars
<1>3. [WorkNext]_allVars => [U!Next]_(U!vars)
  BY DEF WorkNext, allVars, uVars, U!vars
<1>4. [WorkNext]_allVars => [Next]_vars
  BY DEF WorkNext, allVars, vars
<1>5. [WorkNext]_allVars => [F!Next]_(F!vars)
  BY DEF WorkNext, allVars, fVars, F!vars
<1>6. [WorkNext]_allVars => [R!Next]_(R!vars)
  BY DEF WorkNext, allVars, rVars, R!vars
<1>7. [WorkNext]_allVars => [Q!Next]_(Q!vars)
  BY DEF WorkNext, allVars, qVars, Q!vars
<1>8. [WorkNext]_allVars => [M!Next]_(M!vars)
  BY DEF WorkNext, allVars, mVars, M!vars
<1> QED
  BY <1>1, <1>2, <1>3, <1>4, <1>5, <1>6, <1>7, <1>8, PTL
  DEF WorkSpec, C!Spec, U!Spec, Spec, F!Spec, R!Spec, Q!Spec, M!Spec

\* Each part of the work keeps its types, whatever part moves.
THEOREM WorkTypes == WorkSpec => []AllTypeOK
<1>1. /\ ScheduleInv /\ UploadInv /\ DbInv /\ FileInv
      /\ (R!TypeOK /\ RelayInv) /\ CopyInv /\ MaskTypeInv
      => AllTypeOK
  BY DEF ScheduleInv, UploadInv, DbInv, FileInv, FileTypeInv, CopyInv, MaskTypeInv, AllTypeOK
<1> QED
  BY <1>1, WorkIsItsParts, ScheduleInvariant, UploadInvariant, Inductive,
     FileInvariant, RelayInvariant, CopyInvariant, MaskInvariant, PTL

\* All of it together: what the parts keep, the work keeps in which they are side by
\* side, and whatever becomes of an upload or of a database transfer is what
\* _cleanup_source_file and execute_db_transfer promise.
THEOREM WorkIsSafe ==
    WorkSpec =>
      /\ [](/\ AllTypeOK /\ RowAndTaskAgree /\ OffMeansOff /\ CreatedIsRun
            /\ SendsOwnUpload /\ RunningIsWorked /\ DoneIsCopied
            /\ NothingLeftBehind /\ ArrivesAsAsked /\ DeliversOrStops
            /\ CopiesWholeAndOnce /\ MaskedUnlessMisread)
      /\ NotDoneIsKept /\ DbKeepsOutcome
BY WorkIsItsParts, WorkTypes, RowsAgree, OffCreatesNone, TickRunsItsJob,
   SendsItsUpload, UploadIsKept, RunningWorked, DoneCopied, DbRefinement, LeavesNothingBehind,
   ArrivesVerified, DeliversAllOrStops, CopiesOnce, RowsAreMasked, PTL

=============================================================================
