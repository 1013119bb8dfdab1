--------------------------------- MODULE Work ---------------------------------
(***************************************************************************)
(* The work around and inside the jobs: what creates them                  *)
(* (Scheduler, UploadStore), the life of a database transfer               *)
(* (DbTransferJob), and what the handlers do in an execution               *)
(* (FileTransfer, RelayTransfer, SqlCopy, Masking).  Each has its own      *)
(* picture of the part of the system it touches and no property relates    *)
(* them, so each of them moves with the others at rest in their            *)
(* initial state: the sum of the state spaces, not their product.          *)
(***************************************************************************)
EXTENDS DbTransferJob

CONSTANTS
    Requests, Ticks, None,                \* Scheduler
    Uploads, Names,                       \* UploadStore
    MaxAttempts,                          \* FileTransfer, SqlCopy
    Files, BigFiles,                      \* RelayTransfer
    Tables, Rules,                        \* SqlCopy
    Engines, MaxValue                     \* Masking

VARIABLES
    sched, beat, flow, req, tick, job, owed, late, cut, past,
    upload, disk, there, old,
    ft, temps, source, dest,
    relay, temp, relaySource, relayDest,
    sql, sqlTemps, schema, sqlDest,
    masking, loading, reader, line,
    moves  \* the component explored

ASSUME WorkAssumption ==
    /\ None \notin [enabled : BOOLEAN]
    /\ Names # {} /\ Files # {} /\ Tables # {}
    /\ MaxAttempts \in Nat \ {0}
    /\ Engines \subseteq {"postgres", "mysql", "mssql"} /\ MaxValue \in Nat

C == INSTANCE Scheduler
U == INSTANCE UploadStore
F == INSTANCE FileTransfer
R == INSTANCE RelayTransfer WITH source <- relaySource, dest <- relayDest
Q == INSTANCE SqlCopy WITH temps <- sqlTemps, dest <- sqlDest
M == INSTANCE Masking WITH job <- masking

cVars == <<sched, beat, flow, req, tick, job, owed, late, cut, past>>
uVars == <<upload, disk, there, old>>
fVars == <<ft, temps, source, dest>>
rVars == <<relay, temp, relaySource, relayDest>>
qVars == <<sql, sqlTemps, schema, sqlDest>>
mVars == <<masking, loading, reader, line>>

allVars == <<cVars, uVars, vars, fVars, rVars, qVars, mVars, moves>>

WorkInit ==
    /\ C!Init /\ U!Init /\ Init /\ F!Init /\ R!Init /\ Q!Init /\ M!Init
    /\ moves \in {"schedule", "upload", "database", "file", "relay", "sql", "masking"}

WorkNext ==
    /\ UNCHANGED moves
    /\ \/ moves = "schedule" /\ C!Next
          /\ UNCHANGED <<uVars, vars, fVars, rVars, qVars, mVars>>
       \/ moves = "upload" /\ U!Next
          /\ UNCHANGED <<cVars, vars, fVars, rVars, qVars, mVars>>
       \/ moves = "database" /\ Next
          /\ UNCHANGED <<cVars, uVars, fVars, rVars, qVars, mVars>>
       \/ moves = "file" /\ F!Next
          /\ UNCHANGED <<cVars, uVars, vars, rVars, qVars, mVars>>
       \/ moves = "relay" /\ R!Next
          /\ UNCHANGED <<cVars, uVars, vars, fVars, qVars, mVars>>
       \/ moves = "sql" /\ Q!Next
          /\ UNCHANGED <<cVars, uVars, vars, fVars, rVars, mVars>>
       \/ moves = "masking" /\ M!Next
          /\ UNCHANGED <<cVars, uVars, vars, fVars, rVars, qVars>>

WorkSpec == WorkInit /\ [][WorkNext]_allVars

-----------------------------------------------------------------------------

\* The types of the components.
AllTypeOK ==
    /\ moves = "schedule" => C!TypeOK
    /\ moves = "upload" => U!TypeOK
    /\ moves = "database" => TypeOK
    /\ moves = "file" => F!TypeOK
    /\ moves = "relay" => R!TypeOK
    /\ moves = "sql" => Q!TypeOK
    /\ moves = "masking" => M!TypeOK

\* Scheduler: a schedule and its PeriodicTask agree (schedule_edit, _sync_celery_beat).
RowAndTaskAgree == C!RowAndTaskAgree

\* Scheduler: one that is off creates no more jobs (_create_job_from_schedule).
OffMeansOff == C!OffMeansOff

\* Scheduler: a job that a tick creates gets its process (_create_job_from_schedule).
CreatedIsRun == C!CreatedIsRun

\* UploadStore: a job sends what was uploaded for it (_write_upload).
SendsOwnUpload == U!SendsOwnUpload

\* UploadStore: the upload of a job stays until it is done (_cleanup_source_file).
NotDoneIsKept == U!NotDoneIsKept

\* FileTransfer, RelayTransfer, SqlCopy: a transfer leaves no temporary file on the
\* worker, however it ends (the finally of execute, _transfer_file, _transfer_once).
NothingLeftBehind == F!TempsRemoved /\ R!NoLocalCopy /\ Q!FilesOnlyAtWork

\* FileTransfer: what arrives is the verified source, and with encryption on no
\* attempt writes anything plain (verify_rsync, _encrypt_source_if_needed).
ArrivesAsAsked == F!VerifiedIsSource /\ F!OnlyCipherLeaves

\* RelayTransfer: a flow that ends well has delivered all, and one that does not
\* has stopped at the first error (_transfer_directory).
DeliversOrStops == R!AllDelivered /\ R!StopsAtFirstError

\* SqlCopy: what ends well is one whole copy, and no row is ever there twice
\* (_transfer_once and its retry).
CopiesWholeAndOnce == Q!DoneIsCopy /\ Q!CopiedOnce

\* Masking: a row arrives as its rules say (_relay_lines, _mask_dat_file).
MaskedUnlessMisread == M!MaskedUnlessMisread

=============================================================================
