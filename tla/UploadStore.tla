----------------------------- MODULE UploadStore -----------------------------
(***************************************************************************)
(* The transfers volume.  A form writes its upload under the name that the *)
(* user gave it, piece by piece, and creates a job for it, or asks for a   *)
(* dry run; the worker sends the file by its name and removes it after a   *)
(* success; the retention removes what is old.  Nothing keeps two uploads  *)
(* of one name apart.  A file is the set of uploads that its bytes come    *)
(* from.  FileTransfer has the steps of the sending.                       *)
(***************************************************************************)
EXTENDS Naturals, FiniteSets

CONSTANTS
    Uploads,  \* the forms submitted
    Names

VARIABLES
    upload,  \* [Uploads -> the request and the job it creates]
    disk,    \* [Names -> the uploads in the file], {}: an empty one
    there,   \* the names with a file
    old      \* the files older than the retention period

vars == <<upload, disk, there, old>>

Steps == {"idle", "writing", "written", "pending", "sending", "done", "failed", "preview"}

\* open: the upload's file is still the one of this name; sent: what the job sent;
\* shared: another upload of the name was under way at the same time.
TypeOK ==
    /\ upload \in [Uploads -> [step : Steps, name : Names, open : BOOLEAN,
                               shared : BOOLEAN, sent : SUBSET Uploads]]
    /\ disk \in [Names -> SUBSET Uploads]
    /\ there \subseteq Names /\ old \subseteq there

Init ==
    /\ upload = [u \in Uploads |-> [step |-> "idle", name |-> CHOOSE n \in Names : TRUE,
                                    open |-> FALSE, shared |-> FALSE, sent |-> {}]]
    /\ disk = [n \in Names |-> {}]
    /\ there = {} /\ old = {}

File(u) == upload[u].name
At(u, step) == upload[u].step = step

\* The file of a name is unlinked: whoever still writes it writes to no name.
Unlink(n) ==
    /\ there' = there \ {n}
    /\ old' = old \ {n}
    /\ disk' = [disk EXCEPT ![n] = {}]

-----------------------------------------------------------------------------
(* transfer_create and transfer_dry_run *)

Users(n) == {u \in Uploads : File(u) = n /\ upload[u].step \in {"writing", "written", "pending", "sending"}}

Opened(u, n) ==
    [v \in Uploads |->
        IF v = u
        THEN [step |-> "writing", name |-> n, open |-> TRUE, shared |-> Users(n) # {}, sent |-> {}]
        ELSE [upload[v] EXCEPT !.shared = @ \/ v \in Users(n)]]

\* A faulty variant: the file is opened to append.
OpenToAppend(u, n) ==
    /\ At(u, "idle")
    /\ upload' = Opened(u, n)
    /\ there' = there \cup {n}
    /\ old' = old \ {n}
    /\ UNCHANGED disk

\* _write_upload: open(local_path, 'wb') creates or truncates.
OpenFile(u, n) ==
    /\ At(u, "idle")
    /\ upload' = Opened(u, n)
    /\ disk' = [disk EXCEPT ![n] = {}]
    /\ there' = there \cup {n}
    /\ old' = old \ {n}

\* A piece of the upload; two that write one file mix their pieces.
WriteChunk(u) ==
    /\ At(u, "writing") /\ upload[u].open
    /\ disk' = [disk EXCEPT ![File(u)] = @ \cup {u}]
    /\ old' = old \ {File(u)}
    /\ UNCHANGED <<upload, there>>

WriteDone(u) ==
    /\ At(u, "writing")
    /\ upload[u].open => u \in disk[File(u)]
    /\ upload' = [upload EXCEPT ![u].step = "written"]
    /\ UNCHANGED <<disk, there, old>>

\* OSError: the form shows it; what has been written stays.
WriteFails(u) ==
    /\ At(u, "writing")
    /\ upload' = [upload EXCEPT ![u].step = "failed"]
    /\ UNCHANGED <<disk, there, old>>

CreateJob(u) ==
    /\ At(u, "written")
    /\ upload' = [upload EXCEPT ![u].step = "pending"]
    /\ UNCHANGED <<disk, there, old>>

\* A batch: one job per file once all of them are written, none if one fails.
CreateBatch(us) ==
    /\ Cardinality(us) > 1
    /\ \A u \in us : At(u, "written")
    /\ upload' = [u \in Uploads |-> IF u \in us THEN [upload[u] EXCEPT !.step = "pending"]
                                    ELSE upload[u]]
    /\ UNCHANGED <<disk, there, old>>

\* The dry run asks the worker, which writes nothing; the file stays.
Preview(u) ==
    /\ At(u, "written")
    /\ upload' = [upload EXCEPT ![u].step = "preview"]
    /\ UNCHANGED <<disk, there, old>>

-----------------------------------------------------------------------------
(* The worker *)

\* The job sends the file that has the name now.
Send(u) ==
    /\ At(u, "pending")
    /\ IF File(u) \in there
       THEN upload' = [upload EXCEPT ![u].step = "sending", ![u].sent = disk[File(u)]]
       ELSE upload' = [upload EXCEPT ![u].step = "failed"]
    /\ UNCHANGED <<disk, there, old>>

\* A faulty variant: the source of a failed transfer is removed, too.
SendFailsAndRemoves(u) ==
    /\ At(u, "sending")
    /\ upload' = [v \in Uploads |->
                    [upload[v] EXCEPT !.step = IF v = u THEN "failed" ELSE @,
                                      !.open = @ /\ upload[v].name # File(u)]]
    /\ Unlink(File(u))

\* The transfer fails: the source stays.
SendFails(u) ==
    /\ At(u, "sending")
    /\ upload' = [upload EXCEPT ![u].step = "failed"]
    /\ UNCHANGED <<disk, there, old>>

\* mark_done, then _cleanup_source_file removes whatever has the name now.
SendDone(u) ==
    /\ At(u, "sending")
    /\ upload' = [v \in Uploads |->
                    [upload[v] EXCEPT !.step = IF v = u THEN "done" ELSE @,
                                      !.open = @ /\ upload[v].name # File(u)]]
    /\ Unlink(File(u))

-----------------------------------------------------------------------------
(* cleanup_old_transfers *)

RetentionPasses(n) ==
    /\ n \in there \ old
    /\ old' = old \cup {n}
    /\ UNCHANGED <<upload, disk, there>>

\* The age of the file is compared, then it is removed.
Retention(n) ==
    /\ n \in old
    /\ upload' = [u \in Uploads |-> [upload[u] EXCEPT !.open = @ /\ upload[u].name # n]]
    /\ Unlink(n)

Next ==
    \/ \E u \in Uploads :
         \/ \E n \in Names : OpenFile(u, n)
         \/ WriteChunk(u) \/ WriteDone(u) \/ WriteFails(u) \/ CreateJob(u) \/ Preview(u)
         \/ Send(u) \/ SendFails(u) \/ SendDone(u)
    \/ \E us \in SUBSET Uploads : CreateBatch(us)
    \/ \E n \in Names : RetentionPasses(n) \/ Retention(n)

Spec == Init /\ [][Next]_vars

-----------------------------------------------------------------------------
(* Properties *)

\* A job sends exactly what was uploaded for it, unless another upload or dry run
\* of the same name was under way in the meantime; what earlier ones have left of
\* that name does no harm.
SendsOwnUpload ==
    \A u \in Uploads : ~upload[u].shared /\ upload[u].sent # {} => upload[u].sent = {u}

\* The upload of a job that is not done stays where it is, unless it shares its
\* name or the retention period has passed before the job ran.
NotDoneIsKept ==
    [][\A u \in Uploads :
          /\ ~upload[u].shared /\ upload[u].step \in {"written", "pending", "sending"}
          /\ File(u) \in there \ old
          => File(u) \in there' \/ upload'[u].step = "done"]_vars

=============================================================================
