---------------------------- MODULE FileTransfer ----------------------------
(***************************************************************************)
(* One transfer of a file to an SSH host: RsyncHandler.execute and         *)
(* .preview (the dry run preview of the form) and SFTPHandler.execute.     *)
(* They differ in the order of their steps, in what they retry and in what *)
(* they leave in temporary files.                                          *)
(*                                                                         *)
(* The source is a file of the transfers volume that another upload of the *)
(* same name may overwrite, chunk by chunk, while it is read: the contents *)
(* of a file are the set of versions its bytes come from.                  *)
(***************************************************************************)
EXTENDS Naturals

CONSTANT MaxAttempts  \* RSYNC_MAX_RETRIES = SFTP_MAX_RETRIES

VARIABLES
    ft,      \* the process: where it is, its parameters, its local variables
    temps,   \* its temporary files on the worker's disk
    source,  \* contents of source_path
    dest     \* the file at destination_path

vars == <<ft, temps, source, dest>>

Contents == (SUBSET {1, 2}) \ {{}}

\* The parameters of a transfer; genuine: the host has the key the user knows.
Params == [handler : {"rsync", "sftp", "preview"},
           strict_host_key_checking : BOOLEAN, known_host_key : BOOLEAN,
           genuine : BOOLEAN, ssh_key : BOOLEAN, encrypt : BOOLEAN,
           gpg_passphrase : BOOLEAN, dry_run : BOOLEAN, verify_checksum : BOOLEAN]

Steps == {"idle", "hosts", "key", "encrypt", "dry", "attempt", "sending",
          "verify", "hash", "compare", "finally", "end", "killed"}

\* kept: the temporary files whose path a local variable holds; hash: the contents
\* that the local checksum is of; changed: history, the source has changed since
\* its hashing began.
TypeOK ==
    /\ ft \in [step : Steps, p : Params, tries : 0 .. MaxAttempts,
               kept : SUBSET {"hosts", "key", "cipher"},
               read : SUBSET {1, 2}, hash : SUBSET {1, 2}, changed : BOOLEAN,
               result : {"none", "ok", "error", "answer"}]
    /\ temps \subseteq {"hosts", "key", "cipher"}
    /\ source \in Contents
    /\ dest \in [cipher : BOOLEAN, holds : SUBSET {1, 2}, sound : BOOLEAN]

Init ==
    /\ ft = [step |-> "idle", p |-> CHOOSE p \in Params : TRUE,
             tries |-> 0, kept |-> {}, read |-> {}, hash |-> {}, changed |-> FALSE,
             result |-> "none"]
    /\ temps = {}
    /\ source = {1}
    /\ dest = [cipher |-> FALSE, holds |-> {}, sound |-> TRUE]

P == ft.p
IsSftp == P.handler = "sftp"

\* rsync encrypts what the connection says, sftp whenever there is a passphrase.
Encrypts == P.gpg_passphrase /\ (IsSftp \/ P.encrypt)

\* _build_ssh_options, _build_client: what the host key check lets through.
\* Without a known key, rsync passes no option (ssh in batch mode refuses an
\* unknown host), and sftp raises.
HostAccepted ==
    ~P.strict_host_key_checking \/ (P.known_host_key /\ P.genuine)

Goto(step) == ft' = [ft EXCEPT !.step = step]
Raise == ft' = [ft EXCEPT !.step = "finally", !.result = "error"]

\* preview catches what its setup raises and answers with the message.
RaiseOrAnswer ==
    ft' = [ft EXCEPT !.step = "finally",
                     !.result = IF P.handler = "preview" THEN "answer" ELSE "error"]

\* A temporary file that a local variable remembers.
Keep(name, step) ==
    /\ temps' = temps \cup {name}
    /\ ft' = [ft EXCEPT !.step = step, !.kept = @ \cup {name}]

-----------------------------------------------------------------------------
(* The steps of execute and preview *)

Begin(p) ==
    /\ ft.step = "idle"
    /\ ft' = [ft EXCEPT !.step = IF p.handler = "sftp" THEN "encrypt" ELSE "hosts",
                        !.p = p]
    /\ UNCHANGED <<temps, source, dest>>

\* _setup_known_hosts
SetupKnownHosts ==
    /\ ft.step = "hosts"
    /\ IF P.strict_host_key_checking /\ P.known_host_key
       THEN Keep("hosts", "key")
       ELSE Goto("key") /\ UNCHANGED temps
    /\ UNCHANGED <<source, dest>>

\* _setup_ssh_key
SetupSshKey ==
    /\ ft.step = "key"
    /\ IF P.ssh_key THEN Keep("key", "encrypt")
                    ELSE Goto("encrypt") /\ UNCHANGED temps
    /\ UNCHANGED <<source, dest>>

\* load_private_key finds no class that reads the key.
SshKeyError ==
    /\ ft.step = "key" /\ P.ssh_key
    /\ RaiseOrAnswer
    /\ UNCHANGED <<temps, source, dest>>

\* The file exists, writing it fails, and no variable has its path yet.
TempWriteFails ==
    /\ \/ ft.step = "hosts" /\ P.known_host_key /\ temps' = temps \cup {"hosts"}
       \/ ft.step = "key" /\ P.ssh_key /\ temps' = temps \cup {"key"}
       \/ ft.step = "attempt" /\ IsSftp /\ P.known_host_key /\ temps' = temps \cup {"hosts"}
    /\ P.strict_host_key_checking \/ ft.step = "key"
    /\ Raise
    /\ UNCHANGED <<source, dest>>

AfterEncrypt ==
    IF ~IsSftp /\ (P.dry_run \/ P.handler = "preview") THEN "dry" ELSE "attempt"

\* _encrypt_source_if_needed, encrypt_file
EncryptSource ==
    /\ ft.step = "encrypt"
    /\ IF Encrypts
       THEN /\ temps' = temps \cup {"cipher"}
            /\ ft' = [ft EXCEPT !.step = AfterEncrypt, !.kept = @ \cup {"cipher"},
                                !.read = source]
       ELSE Goto(AfterEncrypt) /\ UNCHANGED temps
    /\ UNCHANGED <<source, dest>>

\* gpg fails, is missing or takes too long: encrypt_file removes what it wrote.
GPGEncryptError ==
    /\ ft.step = "encrypt" /\ Encrypts
    /\ RaiseOrAnswer
    /\ UNCHANGED <<temps, source, dest>>

\* rsync --dry-run: _run_dry_run_precheck of a transfer, or all that preview does.
DryRun ==
    /\ ft.step = "dry"
    /\ \/ P.handler = "preview" /\ RaiseOrAnswer
       \/ P.handler = "rsync" /\ HostAccepted /\ Goto("attempt")
       \/ P.handler = "rsync" /\ Raise
    /\ UNCHANGED <<temps, source, dest>>

\* An attempt starts to read: the encrypted copy, or the source.
StartAttempt ==
    /\ ft.step = "attempt"
    /\ IF HostAccepted
       THEN ft' = [ft EXCEPT !.step = "sending", !.tries = @ + 1,
                             !.read = IF Encrypts THEN @ ELSE source]
       ELSE Raise
    /\ UNCHANGED <<temps, source, dest>>

\* What one gets who has begun to read the source when it held c: that, what it
\* holds now, or a torn mixture.
ReadSince(c) == {c, source, c \cup source}

\* What an attempt may have sent.
Sent == IF Encrypts THEN {ft.read} ELSE ReadSince(ft.read)

Written(holds, sound) == [cipher |-> Encrypts, holds |-> holds, sound |-> sound]

\* rsync exits with 0, sftp.put returns; what the remote disk keeps may still
\* not be what was sent.
AttemptSucceeds ==
    /\ ft.step = "sending"
    /\ \E c \in Sent, s \in BOOLEAN : dest' = Written(c, s)
    /\ Goto("verify")
    /\ UNCHANGED <<temps, source>>

\* rsync writes a file of its own and renames it; sftp.put writes in place.
FailedWrite ==
    \/ UNCHANGED dest
    \/ IsSftp /\ \E c \in Sent : dest' = Written(c, FALSE)

\* A faulty variant: the loop has no end.
AttemptForever ==
    /\ ft.step = "sending"
    /\ Goto("attempt")
    /\ FailedWrite
    /\ UNCHANGED <<temps, source>>

\* An exit code that _check_rsync_output does not know, a timeout of sftp.
AttemptAgain ==
    /\ ft.step = "sending"
    /\ IF ft.tries < MaxAttempts THEN Goto("attempt") ELSE Raise
    /\ FailedWrite
    /\ UNCHANGED <<temps, source>>

\* Permission denied, no space, no such file, an SSH error.
AttemptFatal ==
    /\ ft.step = "sending"
    /\ Raise
    /\ FailedWrite
    /\ UNCHANGED <<temps, source>>

-----------------------------------------------------------------------------
(* Verification and the end *)

Return == ft' = [ft EXCEPT !.step = "finally", !.result = "ok"]

Verifies == P.verify_checksum /\ ~Encrypts

\* _verify_checksum_if_needed: skipped for an encrypted file.
SkipVerify ==
    /\ ft.step = "verify" /\ ~Verifies
    /\ Return
    /\ UNCHANGED <<temps, source, dest>>

\* _local_sha256 opens the source, and reads it chunk by chunk.
StartHash ==
    /\ ft.step = "verify" /\ Verifies
    /\ ft' = [ft EXCEPT !.step = "hash", !.hash = source, !.changed = FALSE]
    /\ UNCHANGED <<temps, source, dest>>

HashLocal ==
    /\ ft.step = "hash"
    /\ \E c \in ReadSince(ft.hash) : ft' = [ft EXCEPT !.step = "compare", !.hash = c]
    /\ UNCHANGED <<temps, source, dest>>

\* A faulty variant: the checksums are computed and not compared.
CompareNothing == ft.step = "compare" /\ Return /\ UNCHANGED <<temps, source, dest>>

\* verify_rsync and verify_sftp: sha256sum of the remote file equals the local hash.
CompareRemote ==
    /\ ft.step = "compare"
    /\ dest.sound /\ dest.holds = ft.hash
    /\ Return
    /\ UNCHANGED <<temps, source, dest>>

\* The source is gone; ChecksumVerificationError; sha256sum fails; verify_rsync's
\* TimeoutExpired, which nothing catches.
VerifyRaises ==
    /\ ft.step \in {"hash", "compare"}
    /\ Raise
    /\ UNCHANGED <<temps, source, dest>>

\* A timeout of sftp while it waits for the remote checksum repeats the whole attempt.
VerifyTimeout ==
    /\ ft.step = "compare" /\ IsSftp
    /\ IF ft.tries < MaxAttempts THEN Goto("attempt") ELSE Raise
    /\ UNCHANGED <<temps, source, dest>>

\* A faulty variant: the encrypted copy is removed only after a success.
CleanupOnSuccess ==
    /\ ft.step = "finally"
    /\ temps' = IF ft.result = "ok" THEN temps \ ft.kept ELSE temps \ (ft.kept \ {"cipher"})
    /\ Goto("end")
    /\ UNCHANGED <<source, dest>>

\* The finally of execute and preview.
Cleanup ==
    /\ ft.step = "finally"
    /\ temps' = temps \ ft.kept
    /\ Goto("end")
    /\ UNCHANGED <<source, dest>>

\* The process is killed by a stop request or is lost.
Killed ==
    /\ ft.step \notin {"idle", "end", "killed"}
    /\ Goto("killed")
    /\ UNCHANGED <<temps, source, dest>>

\* Another upload of the same name: it overwrites the file piece by piece.
OverwriteSource ==
    /\ ft.step \notin {"idle", "end", "killed"}
    /\ source # {2}
    /\ source' = IF source = {1} THEN {1, 2} ELSE {2}
    /\ ft' = [ft EXCEPT !.changed = TRUE]
    /\ UNCHANGED <<temps, dest>>

Next ==
    \/ \E p \in Params : Begin(p)
    \/ SetupKnownHosts \/ SetupSshKey \/ SshKeyError \/ TempWriteFails
    \/ EncryptSource \/ GPGEncryptError \/ DryRun
    \/ StartAttempt \/ AttemptSucceeds \/ AttemptAgain \/ AttemptFatal
    \/ SkipVerify \/ StartHash \/ HashLocal \/ CompareRemote \/ VerifyRaises \/ VerifyTimeout
    \/ Cleanup
    \/ Killed \/ OverwriteSource

Spec == Init /\ [][Next]_vars

-----------------------------------------------------------------------------
(* Properties *)

\* However execute and preview end, the encrypted copy of the source is gone,
\* and so are the private key and the known hosts unless writing them failed;
\* only a killed process leaves them.
TempsRemoved ==
    ft.step = "end" =>
        /\ "cipher" \notin temps
        /\ temps # {} => ft.result = "error" /\ temps \cap ft.kept = {}

\* A transfer with verify_checksum that returns has left at the destination,
\* unharmed, what its checksum was computed of; and that is what the source holds,
\* whatever attempts came before, unless an upload of the same name has written to
\* it since the hashing began: a checksum does not tell of a rewrite that comes
\* while it is computed or compared.
VerifiedIsSource ==
    ft.step \in {"finally", "end"} /\ ft.result = "ok" /\ Verifies =>
        /\ dest.sound /\ dest.holds = ft.hash
        /\ dest.holds = source \/ ft.changed

\* With encryption on, nothing the retries write at the destination is plain,
\* and all attempts send the contents that were encrypted once.
OnlyCipherLeaves ==
    Encrypts /\ dest.holds # {} => dest.cipher /\ dest.holds = ft.read

=============================================================================
