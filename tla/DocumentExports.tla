-------------------------- MODULE DocumentExports --------------------------
(***************************************************************************)
(* The export_file tool and the download endpoint over one workspace's     *)
(* directory of exports (server/services/document_exporter.py).  An export *)
(* runs in a thread of the server's pool: the tool call that waits for it  *)
(* may time out or be aborted, the thread goes on; downloads interleave    *)
(* with every step of it.  The server may be killed and started again.     *)
(*                                                                         *)
(* An export stands for its fresh file_id: no two exports share a file.    *)
(***************************************************************************)
EXTENDS Naturals, FiniteSets

CONSTANTS
    Exports,     \* the export_file calls of a behaviour
    Downloads,   \* the GET /api/files/{file_id} calls of a behaviour
    NoExport,    \* a download that was not sent
    Workers,     \* size of the thread pool
    MaxCrashes   \* bound on the times the server is killed

ASSUME ExportsAssumption ==
    /\ NoExport \notin Exports
    /\ Workers \in Nat \ {0}
    /\ MaxCrashes \in Nat

VARIABLES
    caller,      \* what the agent loop knows of each export_file call
    thread,      \* where the work of each call stands
    temps,       \* temporary files: <<export, the file they will replace>>
    artifacts,   \* <file_id>.<extension>, complete
    manifests,   \* <file_id>.json, complete
    download,    \* the download calls
    crashes      \* times the server was killed

vars == <<caller, thread, temps, artifacts, manifests, download, crashes>>

Callers == {"unsent", "waiting", "succeeded", "failed", "timeout", "aborted", "lost"}
Working == {"converting", "artifact", "artifactStored", "manifest", "cleaning",
            "cleaningManifest"}
Ends == {"stored", "refused", "cleaned", "uncleaned", "withdrawn", "killed"}
Threads == {"none", "queued"} \cup Working \cup Ends
Files == {"artifact", "manifest"}
DownloadSteps == {"unsent", "sent", "manifestRead", "resolved", "served", "missing", "broken"}
Unsent == [step |-> "unsent", of |-> NoExport]
DownloadCalls == [step: DownloadSteps, of: Exports \cup {NoExport}]

Init ==
    /\ caller = [e \in Exports |-> "unsent"]
    /\ thread = [e \in Exports |-> "none"]
    /\ temps = {} /\ artifacts = {} /\ manifests = {}
    /\ download = [d \in Downloads |-> Unsent]
    /\ crashes = 0

-----------------------------------------------------------------------------
(* The tool call: ToolRegistry.execute around asyncio.to_thread *)

CallTool(e) ==
    /\ caller[e] = "unsent"
    /\ caller' = [caller EXCEPT ![e] = "waiting"]
    /\ thread' = [thread EXCEPT ![e] = "queued"]
    /\ UNCHANGED <<temps, artifacts, manifests, download, crashes>>

\* A worker that is free takes the call.
TakeJob(e) ==
    /\ thread[e] = "queued"
    /\ Cardinality({x \in Exports : thread[x] \in Working}) < Workers
    /\ thread' = [thread EXCEPT ![e] = "converting"]
    /\ UNCHANGED <<caller, temps, artifacts, manifests, download, crashes>>

\* Mutant of Return: the id is announced once the artifact is stored.
ReturnEarly(e) ==
    /\ caller[e] = "waiting"
    /\ thread[e] \in {"artifactStored", "stored", "refused", "cleaned", "uncleaned"}
    /\ caller' = [caller EXCEPT
                    ![e] = IF thread[e] \in {"artifactStored", "stored"}
                           THEN "succeeded" ELSE "failed"]
    /\ UNCHANGED <<thread, temps, artifacts, manifests, download, crashes>>

\* The tool's result: the file's id and url, or an error.
Return(e) ==
    /\ caller[e] = "waiting"
    /\ thread[e] \in {"stored", "refused", "cleaned", "uncleaned"}
    /\ caller' = [caller EXCEPT
                    ![e] = IF thread[e] = "stored" THEN "succeeded" ELSE "failed"]
    /\ UNCHANGED <<thread, temps, artifacts, manifests, download, crashes>>

\* tool_timeout_s passes, or the run is aborted.  Work that no thread has taken
\* is withdrawn from the pool's queue; a thread is not interrupted.
GiveUp(e) ==
    /\ caller[e] = "waiting"
    /\ \E outcome \in {"timeout", "aborted"} : caller' = [caller EXCEPT ![e] = outcome]
    /\ thread' = [thread EXCEPT ![e] = IF @ = "queued" THEN "withdrawn" ELSE @]
    /\ UNCHANGED <<temps, artifacts, manifests, download, crashes>>

-----------------------------------------------------------------------------
(* The thread: DocumentExporter.export *)

\* Mutant of Refuse: an end that nothing else knows.
RefuseSilently(e) ==
    /\ thread[e] = "converting"
    /\ thread' = [thread EXCEPT ![e] = "failed"]
    /\ UNCHANGED <<caller, temps, artifacts, manifests, download, crashes>>

\* Unsupported, too large, unconvertible, or no directory: nothing was written.
Refuse(e) ==
    /\ thread[e] = "converting"
    /\ thread' = [thread EXCEPT ![e] = "refused"]
    /\ UNCHANGED <<caller, temps, artifacts, manifests, download, crashes>>

OpenArtifact(e) ==
    /\ thread[e] = "converting"
    /\ thread' = [thread EXCEPT ![e] = "artifact"]
    /\ temps' = temps \cup {<<e, "artifact">>}
    /\ UNCHANGED <<caller, artifacts, manifests, download, crashes>>

StoreArtifact(e) ==
    /\ thread[e] = "artifact"
    /\ thread' = [thread EXCEPT ![e] = "artifactStored"]
    /\ temps' = temps \ {<<e, "artifact">>}
    /\ artifacts' = artifacts \cup {e}
    /\ UNCHANGED <<caller, manifests, download, crashes>>

\* Mutant of OpenManifest: the manifest is written in place.
OpenManifestInPlace(e) ==
    /\ thread[e] = "artifactStored"
    /\ thread' = [thread EXCEPT ![e] = "manifest"]
    /\ manifests' = manifests \cup {e}
    /\ UNCHANGED <<caller, temps, artifacts, download, crashes>>

OpenManifest(e) ==
    /\ thread[e] = "artifactStored"
    /\ thread' = [thread EXCEPT ![e] = "manifest"]
    /\ temps' = temps \cup {<<e, "manifest">>}
    /\ UNCHANGED <<caller, artifacts, manifests, download, crashes>>

StoreManifest(e) ==
    /\ thread[e] = "manifest"
    /\ thread' = [thread EXCEPT ![e] = "stored"]
    /\ temps' = temps \ {<<e, "manifest">>}
    /\ manifests' = manifests \cup {e}
    /\ UNCHANGED <<caller, artifacts, download, crashes>>

\* Writing or replacing a file raises; _atomic_write unlinks its temporary file,
\* which may raise in turn and leave it.
WriteFails(e) ==
    /\ thread[e] \in {"converting", "artifact", "artifactStored", "manifest"}
    /\ thread' = [thread EXCEPT ![e] = "cleaning"]
    /\ temps' \in {temps, temps \ {<<e, "artifact">>, <<e, "manifest">>}}
    /\ UNCHANGED <<caller, artifacts, manifests, download, crashes>>

\* Mutant of RemoveArtifact: the artifact stays.
RemoveNothing(e) ==
    /\ thread[e] = "cleaning"
    /\ thread' = [thread EXCEPT ![e] = "cleaningManifest"]
    /\ UNCHANGED <<caller, temps, artifacts, manifests, download, crashes>>

RemoveArtifact(e) ==
    /\ thread[e] = "cleaning"
    /\ thread' = [thread EXCEPT ![e] = "cleaningManifest"]
    /\ artifacts' = artifacts \ {e}
    /\ UNCHANGED <<caller, temps, manifests, download, crashes>>

RemoveManifest(e) ==
    /\ thread[e] = "cleaningManifest"
    /\ thread' = [thread EXCEPT ![e] = "cleaned"]
    /\ manifests' = manifests \ {e}
    /\ UNCHANGED <<caller, temps, artifacts, download, crashes>>

\* An unlink of the cleanup raises: export_failed, and the file stays.
CleanupFails(e) ==
    /\ thread[e] \in {"cleaning", "cleaningManifest"}
    /\ thread' = [thread EXCEPT ![e] = "uncleaned"]
    /\ UNCHANGED <<caller, temps, artifacts, manifests, download, crashes>>

-----------------------------------------------------------------------------
(* GET /api/files/{file_id}: DocumentExporter.resolve, then FileResponse *)

Step(d, step) == download' = [download EXCEPT ![d].step = step]

RequestFile(d) ==
    /\ download[d].step = "unsent"
    /\ \E e \in Exports : download' = [download EXCEPT ![d] = [step |-> "sent", of |-> e]]
    /\ UNCHANGED <<caller, thread, temps, artifacts, manifests, crashes>>

ReadManifest(d) ==
    /\ download[d].step = "sent"
    /\ Step(d, IF download[d].of \in manifests THEN "manifestRead" ELSE "missing")
    /\ UNCHANGED <<caller, thread, temps, artifacts, manifests, crashes>>

FindArtifact(d) ==
    /\ download[d].step = "manifestRead"
    /\ Step(d, IF download[d].of \in artifacts THEN "resolved" ELSE "missing")
    /\ UNCHANGED <<caller, thread, temps, artifacts, manifests, crashes>>

\* FileResponse opens the path after the headers were chosen.
SendFile(d) ==
    /\ download[d].step = "resolved"
    /\ Step(d, IF download[d].of \in artifacts THEN "served" ELSE "broken")
    /\ UNCHANGED <<caller, thread, temps, artifacts, manifests, crashes>>

-----------------------------------------------------------------------------
\* The process is killed: what it was doing stops where it was; files stay.
Crash ==
    /\ crashes < MaxCrashes
    /\ crashes' = crashes + 1
    /\ thread' = [e \in Exports |->
                    CASE thread[e] = "queued"    -> "withdrawn"
                      [] thread[e] \in Working   -> "killed"
                      [] OTHER                   -> thread[e]]
    /\ caller' = [e \in Exports |-> IF caller[e] = "waiting" THEN "lost" ELSE caller[e]]
    /\ download' = [d \in Downloads |->
                      IF download[d].step \in {"sent", "manifestRead", "resolved"}
                      THEN Unsent ELSE download[d]]
    /\ UNCHANGED <<temps, artifacts, manifests>>

Export(e) == \/ Refuse(e) \/ OpenArtifact(e) \/ StoreArtifact(e)
             \/ OpenManifest(e) \/ StoreManifest(e) \/ WriteFails(e)
             \/ RemoveArtifact(e) \/ RemoveManifest(e) \/ CleanupFails(e)

Tool(e) == CallTool(e) \/ TakeJob(e) \/ Return(e) \/ GiveUp(e)

Download(d) == RequestFile(d) \/ ReadManifest(d) \/ FindArtifact(d) \/ SendFile(d)

Next == \/ \E e \in Exports : Tool(e) \/ Export(e)
        \/ \E d \in Downloads : Download(d)
        \/ Crash

Spec == Init /\ [][Next]_vars

-----------------------------------------------------------------------------
(* Properties *)

\* Every variable keeps its type.
TypeOK ==
    /\ caller \in [Exports -> Callers]
    /\ thread \in [Exports -> Threads]
    /\ temps \subseteq Exports \X Files
    /\ artifacts \subseteq Exports
    /\ manifests \subseteq Exports
    /\ download \in [Downloads -> DownloadCalls]
    /\ crashes \in 0..MaxCrashes

\* An id that the user was given downloads a complete file ever after, across
\* crashes; an id that resolves has its artifact, and is never that of a call the
\* model was told had failed.
AnnouncedResolves ==
    /\ \A e \in Exports : caller[e] = "succeeded" => e \in manifests
    /\ manifests \subseteq artifacts
    /\ \A e \in manifests : caller[e] # "failed"

\* A download whose id resolved is never cut off by the cleanup of an export.
ResolvedIsServed == \A d \in Downloads : download[d].step # "broken"

\* A file without its counterpart is work in progress, or was left by a crash or
\* by an unlink that failed: every other end of an export removes what it wrote.
NothingLeftBehind ==
    \A e \in artifacts \ manifests :
        thread[e] \in {"artifactStored", "manifest", "cleaning", "uncleaned", "killed"}
=============================================================================
