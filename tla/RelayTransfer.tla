---------------------------- MODULE RelayTransfer ----------------------------
(***************************************************************************)
(* RelayHandler.execute: a flow copies a file, or the regular files of a   *)
(* directory, from one SFTP host to another through the worker: a large    *)
(* file through a temporary file, others through memory.  The files of the *)
(* source may change, appear and vanish in the meantime.  The contents of  *)
(* a file are the set of versions its bytes come from; none, no file.      *)
(***************************************************************************)
EXTENDS Naturals

CONSTANTS
    Files,     \* the names in the source directory
    BigFiles   \* those above RELAY_STREAM_THRESHOLD

VARIABLES
    relay,   \* the process
    temp,    \* its temporary files: known hosts, the copy of a large file
    source,  \* [Files -> contents], the files of the source host
    dest     \* [Files -> [holds, sound]], the files of the destination host

vars == <<relay, temp, source, dest>>

Contents == SUBSET {1, 2}

Steps == {"idle", "connect", "hosts", "stat", "next", "fetch", "put", "verify", "compare",
          "end", "killed"}

\* strict: a host whose key is known is checked; todo: the listed files still to
\* come; read: what the worker holds of file, then what its checksum began with.
TypeOK ==
    /\ relay \in [step : Steps, verify : BOOLEAN, strict : BOOLEAN, listed : SUBSET Files,
                  todo : SUBSET Files, file : Files, read : Contents,
                  result : {"none", "ok", "error"}]
    /\ temp \subseteq {"hosts", "copy"}
    /\ source \in [Files -> Contents]
    /\ dest \in [Files -> [holds : Contents, sound : BOOLEAN]]

Init ==
    /\ relay = [step |-> "idle", verify |-> FALSE, strict |-> FALSE, listed |-> {}, todo |-> {},
                file |-> CHOOSE f \in Files : TRUE, read |-> {}, result |-> "none"]
    /\ temp = {}
    /\ source = [f \in Files |-> {1}]
    /\ dest = [f \in Files |-> [holds |-> {}, sound |-> TRUE]]

Goto(step) == relay' = [relay EXCEPT !.step = step]
End(result) == relay' = [relay EXCEPT !.step = "end", !.result = result]

Begin(verify, strict) ==
    /\ relay.step = "idle"
    /\ relay' = [relay EXCEPT !.step = "connect", !.verify = verify, !.strict = strict]
    /\ UNCHANGED <<temp, source, dest>>

\* _build_client of either host puts the key into a file that load_host_keys reads.
WriteHosts ==
    /\ relay.step = "connect" /\ relay.strict
    /\ Goto("hosts")
    /\ temp' = {"hosts"}
    /\ UNCHANGED <<source, dest>>

\* The file exists, and writing it fails before the try that would remove it.
HostsWriteFails ==
    /\ relay.step = "connect" /\ relay.strict
    /\ End("error")
    /\ temp' = {"hosts"}
    /\ UNCHANGED <<source, dest>>

\* The file is removed, and both hosts are connected.
Connect ==
    /\ relay.step = IF relay.strict THEN "hosts" ELSE "connect"
    /\ Goto("stat")
    /\ temp' = {}
    /\ UNCHANGED <<source, dest>>

\* source_path is a file.
StatFile(f) ==
    /\ relay.step = "stat"
    /\ source[f] # {}
    /\ relay' = [relay EXCEPT !.step = "next", !.listed = {f}, !.todo = {f}]
    /\ UNCHANGED <<temp, source, dest>>

\* source_path is a directory: its regular files as they are now.
ListDirectory ==
    /\ relay.step = "stat"
    /\ LET there == {f \in Files : source[f] # {}} IN
       relay' = [relay EXCEPT !.step = "next", !.listed = there, !.todo = there]
    /\ UNCHANGED <<temp, source, dest>>

\* A strict check without a known key, a refused key or password, a host out
\* of reach; then FILE NOT FOUND, cannot list.
StartFails ==
    /\ relay.step \in {"connect", "hosts", "stat"}
    /\ End("error")
    /\ temp' = {}
    /\ UNCHANGED <<source, dest>>

\* _transfer_file opens the source; the size is the one listed.
StartFile(f) ==
    /\ relay.step = "next"
    /\ f \in relay.todo
    /\ relay' = [relay EXCEPT !.step = "fetch", !.file = f, !.read = source[f]]
    /\ temp' = IF f \in BigFiles THEN {"copy"} ELSE {}
    /\ UNCHANGED <<source, dest>>

\* What one gets of the file who has begun to read it when it was relay.read: that,
\* what it is now, or a torn mixture.
ReadSince == {relay.read, source[relay.file], relay.read \cup source[relay.file]}

\* A vanished file raises.
Fetch ==
    /\ relay.step = "fetch"
    /\ \E c \in ReadSince :
         /\ c # {}
         /\ relay' = [relay EXCEPT !.step = "put", !.read = c]
    /\ UNCHANGED <<temp, source, dest>>

\* put and putfo return; the remote disk may still keep something else.
Put ==
    /\ relay.step = "put"
    /\ \E s \in BOOLEAN : dest' = [dest EXCEPT ![relay.file] = [holds |-> relay.read, sound |-> s]]
    /\ Goto("verify")
    /\ UNCHANGED <<temp, source>>

\* A faulty variant: the checksum of a file is computed and not compared.
NextFileUnverified ==
    /\ relay.step = IF relay.verify THEN "compare" ELSE "verify"
    /\ relay' = [relay EXCEPT !.step = "next", !.todo = @ \ {relay.file}]
    /\ temp' = {}
    /\ UNCHANGED <<source, dest>>

\* verify_relay: sha256sum on the source host, then on the destination.
HashSource ==
    /\ relay.step = "verify" /\ relay.verify /\ source[relay.file] # {}
    /\ relay' = [relay EXCEPT !.step = "compare", !.read = source[relay.file]]
    /\ UNCHANGED <<temp, source, dest>>

\* The hashes are equal, or were not asked for; the file's finally removes the
\* temporary.
FileDone ==
    LET d == dest[relay.file] IN
    /\ relay.step = IF relay.verify THEN "compare" ELSE "verify"
    /\ relay.verify => d.sound /\ d.holds \in ReadSince
    /\ relay' = [relay EXCEPT !.step = "next", !.todo = @ \ {relay.file}]
    /\ temp' = {}
    /\ UNCHANGED <<source, dest>>

MayRaise ==
    relay.step \in {"fetch", "put", "compare"} \/ (relay.step = "verify" /\ relay.verify)

\* put writes in place: one that fails leaves what it has written.
FailedPut ==
    \/ UNCHANGED dest
    \/ /\ relay.step = "put"
       /\ dest' = [dest EXCEPT ![relay.file] = [holds |-> relay.read, sound |-> FALSE]]

\* RelayTransferError, or an OSError made into one: the transfer ends, with
\* the file half written if it was being put.
FileFails ==
    /\ MayRaise
    /\ FailedPut
    /\ End("error")
    /\ temp' = {}
    /\ UNCHANGED source

\* The last file, or an empty directory.
Complete ==
    /\ relay.step = "next" /\ relay.todo = {}
    /\ End("ok")
    /\ UNCHANGED <<temp, source, dest>>

Killed ==
    /\ relay.step \notin {"idle", "end", "killed"}
    /\ Goto("killed")
    /\ UNCHANGED <<temp, source, dest>>

\* The source host: a file is rewritten piece by piece, or removed.
SourceChanges(f) ==
    /\ relay.step \notin {"idle", "end", "killed"}
    /\ source[f] # {}
    /\ source' = [source EXCEPT ![f] = CASE @ = {1} -> {1, 2} [] @ = {1, 2} -> {2} [] OTHER -> {}]
    /\ UNCHANGED <<relay, temp, dest>>

Next ==
    \/ \E v, s \in BOOLEAN : Begin(v, s)
    \/ WriteHosts \/ HostsWriteFails \/ Connect \/ ListDirectory \/ StartFails
    \/ \E f \in Files : StatFile(f) \/ StartFile(f) \/ SourceChanges(f)
    \/ Fetch \/ Put \/ HashSource \/ FileDone \/ FileFails \/ Complete \/ Killed

Spec == Init /\ [][Next]_vars

-----------------------------------------------------------------------------
(* Properties *)

\* The worker keeps a local copy of a large file only while it relays it: however
\* the file ends, _transfer_file's finally removes it.  The known hosts are there
\* while they are loaded; only one whose writing failed is left.
NoLocalCopy ==
    /\ "copy" \in temp => relay.step \in {"fetch", "put", "verify", "compare", "killed"}
    /\ "hosts" \in temp =>
          \/ relay.step \in {"hosts", "killed"}
          \/ relay.step = "end" /\ relay.result = "error"

\* A flow that ends well has delivered every file that was listed; with
\* verify_checksum unharmed, as it compares each of them with its source.
AllDelivered ==
    relay.result = "ok" =>
        \A f \in relay.listed :
            /\ dest[f].holds # {}
            /\ relay.verify => dest[f].sound

\* The first error ends the transfer: files not yet begun stay as they were,
\* and every file is whole but the one that failed.
StopsAtFirstError ==
    \A f \in Files :
        /\ f \in relay.todo \ {relay.file} \/ f \notin relay.listed => dest[f].holds = {}
        /\ relay.verify /\ f \in relay.listed \ relay.todo => dest[f].sound

=============================================================================
