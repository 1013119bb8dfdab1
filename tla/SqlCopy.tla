------------------------------- MODULE SqlCopy -------------------------------
(***************************************************************************)
(* MssqlTransferHandler.execute: the tables are dropped and created at the *)
(* destination by one script (sqlcmd), then each is exported to a file,    *)
(* masked and appended (bcp).  Nothing of it is a transaction; a step that *)
(* fails repeats the whole attempt.  Somebody may alter the source while   *)
(* it is copied.  What masking makes of a row is told in Masking.          *)
(***************************************************************************)
EXTENDS Naturals

CONSTANTS
    Tables,       \* the tables of the source database
    Rules,        \* those with masking rules
    MaxAttempts   \* MSSQL_MAX_RETRIES

VARIABLES
    sql,     \* the process and its local variables
    temps,   \* its temporary files: the script and the exported tables
    schema,  \* [Tables -> version of the source's columns], 0: no such table
    dest     \* [Tables -> what the destination holds]

vars == <<sql, temps, schema, dest>>

Steps == {"idle", "list", "introspect", "ddl", "next", "out", "mask", "in", "end", "killed"}

Holdings == {"old", "none", "empty", "part", "full", "garbled", "twice"}

\* ddl: the schema in the script; out: the schema of the exported file; odd: the
\* tables with rules, and a value that holds a tab or a newline, which a file in
\* character format (-c) does not escape.
TypeOK ==
    /\ sql \in [step : Steps, tries : 0 .. MaxAttempts, scope : SUBSET Tables, tables : SUBSET Tables,
                todo : SUBSET Tables, table : Tables, ddl : [Tables -> 0 .. 2],
                out : 0 .. 2, odd : SUBSET Rules, result : {"none", "ok", "error"}]
    /\ temps \subseteq Tables \cup {"script"}
    /\ schema \in [Tables -> 0 .. 2]
    /\ dest \in [Tables -> Holdings]

Init ==
    /\ sql = [step |-> "idle", tries |-> 0, scope |-> {}, tables |-> {}, todo |-> {},
              table |-> CHOOSE t \in Tables : TRUE, ddl |-> [t \in Tables |-> 0],
              out |-> 0, odd |-> {}, result |-> "none"]
    /\ temps = {}
    /\ schema = [t \in Tables |-> 1]
    /\ dest = [t \in Tables |-> "old"]

Goto(step) == sql' = [sql EXCEPT !.step = step]

\* The finally of _transfer_once.
RemoveTemps == temps' = {}

\* A transfer of one table, or of the whole database.
StartAttempt(scope, odd) ==
    /\ sql.step = "idle"
    /\ sql' = [sql EXCEPT !.step = "list", !.tries = 1, !.scope = scope, !.odd = odd]
    /\ UNCHANGED <<temps, schema, dest>>

\* _source_table_names: the table named, or all there are now.
ListTables ==
    /\ sql.step = "list"
    /\ LET ts == IF sql.scope = Tables THEN {t \in Tables : schema[t] # 0} ELSE sql.scope IN
       sql' = [sql EXCEPT !.step = "introspect", !.tables = ts, !.todo = ts]
    /\ temps' = {"script"}
    /\ UNCHANGED <<schema, dest>>

\* _introspect_table for the script.
Introspect(t) ==
    /\ sql.step = "introspect" /\ t \in sql.todo
    /\ sql' = [sql EXCEPT !.todo = @ \ {t}, !.ddl[t] = schema[t],
                          !.step = IF sql.todo = {t} THEN "ddl" ELSE @]
    /\ UNCHANGED <<temps, schema, dest>>

\* The database is empty: the script is, too.
NoTables ==
    /\ sql.step = "introspect" /\ sql.tables = {}
    /\ Goto("ddl")
    /\ UNCHANGED <<temps, schema, dest>>

\* pyodbc.Error: no second attempt.
IntrospectionFails ==
    /\ sql.step \in {"list", "introspect", "mask"}
    /\ sql' = [sql EXCEPT !.step = "end", !.result = "error"]
    /\ RemoveTemps
    /\ UNCHANGED <<schema, dest>>

\* sqlcmd -b drops and creates every table; without columns it cannot.
RunScript ==
    /\ sql.step = "ddl"
    /\ \A t \in sql.tables : sql.ddl[t] # 0
    /\ dest' = [t \in Tables |-> IF t \in sql.tables THEN "empty" ELSE dest[t]]
    /\ sql' = [sql EXCEPT !.step = "next", !.todo = sql.tables]
    /\ UNCHANGED <<temps, schema>>

\* bcp out of the next table, in native format unless it has rules.
Export(t) ==
    /\ sql.step = "next" /\ t \in sql.todo
    /\ schema[t] # 0
    /\ sql' = [sql EXCEPT !.step = IF t \in Rules THEN "mask" ELSE "in", !.table = t,
                          !.out = schema[t]]
    /\ temps' = temps \cup {t}
    /\ UNCHANGED <<schema, dest>>

\* The columns are read again, by _introspect_table, and the file is rewritten.
Mask ==
    /\ sql.step = "mask"
    /\ Goto("in")
    /\ UNCHANGED <<temps, schema, dest>>

\* bcp in appends; a file of another schema may load as something else, and so
\* may one whose values look like separators.
Import ==
    LET t == sql.table IN
    /\ sql.step = "in"
    /\ dest' = [dest EXCEPT ![t] = IF @ # "empty" THEN "twice"
                                   ELSE IF sql.out = sql.ddl[t] /\ t \notin sql.odd
                                   THEN "full" ELSE "garbled"]
    /\ sql' = [sql EXCEPT !.step = "next", !.todo = @ \ {t}]
    /\ UNCHANGED <<temps, schema>>

\* A faulty variant: the next attempt goes on with the tables that are left.
FailedAttemptResumes(step) ==
    sql' = IF sql.tries < MaxAttempts
           THEN [sql EXCEPT !.step = IF step = "ddl" THEN "list" ELSE "next", !.tries = @ + 1]
           ELSE [sql EXCEPT !.step = "end", !.result = "error"]

\* _transfer_once returns False: the next attempt starts from the beginning.
FailedAttempt(step) ==
    sql' = IF sql.tries < MaxAttempts
           THEN [sql EXCEPT !.step = "list", !.tries = @ + 1]
           ELSE [sql EXCEPT !.step = "end", !.result = "error"]

\* The script stops half way: some tables are recreated, one may be missing.
ScriptFails ==
    /\ sql.step = "ddl"
    /\ \E created \in SUBSET sql.tables, gone \in SUBSET sql.tables :
         /\ dest' = [t \in Tables |-> IF t \in gone THEN "none"
                                      ELSE IF t \in created THEN "empty" ELSE dest[t]]
         /\ \A t, u \in gone : t = u
    /\ FailedAttempt("ddl")
    /\ RemoveTemps
    /\ UNCHANGED schema

\* bcp out fails, its table has been dropped for instance.
ExportFails ==
    /\ sql.step = "next" /\ sql.todo # {}
    /\ FailedAttempt("next")
    /\ RemoveTemps
    /\ UNCHANGED <<schema, dest>>

\* bcp in fails after some batches.
ImportFails ==
    /\ sql.step = "in"
    /\ dest' = [dest EXCEPT ![sql.table] = IF @ = "empty" THEN "part" ELSE "twice"]
    /\ FailedAttempt("in")
    /\ RemoveTemps
    /\ UNCHANGED schema

\* _transfer_once returns True; whatever _verify_row_counts finds is only logged.
Complete ==
    /\ sql.step = "next" /\ sql.todo = {}
    /\ sql' = [sql EXCEPT !.step = "end", !.result = "ok"]
    /\ RemoveTemps
    /\ UNCHANGED <<schema, dest>>

Killed ==
    /\ sql.step \notin {"idle", "end", "killed"}
    /\ Goto("killed")
    /\ UNCHANGED <<temps, schema, dest>>

\* Somebody alters or drops a table of the source.
Alter(t) ==
    /\ sql.step \notin {"idle", "end", "killed"}
    /\ schema[t] # 0
    /\ schema' = [schema EXCEPT ![t] = IF @ = 1 THEN 2 ELSE 0]
    /\ UNCHANGED <<sql, temps, dest>>

Next ==
    \/ \E scope \in {Tables} \cup {{t} : t \in Tables}, odd \in SUBSET Rules :
         StartAttempt(scope, odd)
    \/ ListTables \/ NoTables \/ IntrospectionFails \/ RunScript
    \/ ScriptFails \/ ExportFails \/ Mask \/ Import \/ ImportFails \/ Complete \/ Killed
    \/ \E t \in Tables : Introspect(t) \/ Export(t) \/ Alter(t)

Spec == Init /\ [][Next]_vars

-----------------------------------------------------------------------------
(* Properties *)

\* However often the copy is tried again, no row is there twice: an attempt
\* appends only to tables that it has just created.
CopiedOnce == \A t \in Tables : dest[t] # "twice"

\* A transfer that ends well leaves each table of the destination either
\* untouched or with one whole copy, also when an earlier attempt had dropped or
\* half filled it; unless its source was dropped or altered in the meantime, or it
\* has rules and a value that looks like a separator.
DoneIsCopy ==
    sql.result = "ok" =>
        \A t \in Tables : \/ dest[t] \in {"old", "full"}
                          \/ schema[t] = 0 \/ schema[t] # sql.ddl[t]
                          \/ t \in sql.odd

\* The files with the rows of the source are on the worker's disk only while an
\* attempt is at work, whichever step of it fails; a killed process leaves them.
FilesOnlyAtWork == sql.step \in {"idle", "list", "end"} => temps = {}

=============================================================================
