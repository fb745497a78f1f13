----------------------- MODULE DocumentExportsProofs -----------------------
(***************************************************************************)
(* Theorems about DocumentExports for any number of exports, downloads,    *)
(* workers and crashes.                                                    *)
(***************************************************************************)
EXTENDS DocumentExports, TLAPS

-----------------------------------------------------------------------------
(* Types, actor by actor: the agent loop that calls the tool, the thread that *)
(* exports, the browser that downloads, and the process that may die.        *)

\* What the agent loop does with an export keeps the types.
LEMMA ToolTyped ==
    ASSUME TypeOK, NEW e \in Exports, Tool(e)
    PROVE  TypeOK'
<1> USE ExportsAssumption DEF TypeOK, Callers, Threads, Working, Ends
<1>call. CASE CallTool(e)
  BY <1>call DEF CallTool
<1>take. CASE TakeJob(e)
  BY <1>take DEF TakeJob
<1>return. CASE Return(e)
  BY <1>return DEF Return
<1>giveup. CASE GiveUp(e)
  BY <1>giveup DEF GiveUp
<1> QED
  BY <1>call, <1>take, <1>return, <1>giveup DEF Tool

\* What a thread does between two system calls keeps the types: on the way to a
\* stored export, and on the way back from a write that failed.
LEMMA ThreadTyped ==
    ASSUME TypeOK, NEW e \in Exports, Export(e)
    PROVE  TypeOK'
<1> USE ExportsAssumption DEF TypeOK, Threads, Working, Ends, Files
<1>refuse. CASE Refuse(e)
  BY <1>refuse DEF Refuse
<1>store. ASSUME OpenArtifact(e) \/ StoreArtifact(e) \/ OpenManifest(e) \/ StoreManifest(e)
          PROVE  TypeOK'
  BY <1>store DEF OpenArtifact, StoreArtifact, OpenManifest, StoreManifest
<1>fail. CASE WriteFails(e)
  BY <1>fail DEF WriteFails
<1>clean. ASSUME RemoveArtifact(e) \/ RemoveManifest(e) \/ CleanupFails(e)
          PROVE  TypeOK'
  BY <1>clean DEF RemoveArtifact, RemoveManifest, CleanupFails
<1> QED
  BY <1>refuse, <1>store, <1>fail, <1>clean DEF Export

\* A download moves only its own record.
LEMMA DownloadTyped ==
    ASSUME TypeOK, NEW d \in Downloads, Download(d)
    PROVE  TypeOK'
<1> USE ExportsAssumption DEF TypeOK, DownloadCalls, DownloadSteps, Step
<1>request. CASE RequestFile(d)
  BY <1>request DEF RequestFile
<1>serve. ASSUME ReadManifest(d) \/ FindArtifact(d) \/ SendFile(d)
          PROVE  TypeOK'
  BY <1>serve DEF ReadManifest, FindArtifact, SendFile
<1> QED
  BY <1>request, <1>serve DEF Download

\* A crash ends threads, calls and downloads at stages that exist.
LEMMA CrashTyped ==
    ASSUME TypeOK, Crash
    PROVE  TypeOK'
<1>threads. thread' \in [Exports -> Threads]
  BY DEF TypeOK, Crash, Threads, Working, Ends
<1>callers. caller' \in [Exports -> Callers]
  BY DEF TypeOK, Crash, Callers
<1>downloads. download' \in [Downloads -> DownloadCalls]
  BY DEF TypeOK, Crash, Unsent, DownloadCalls, DownloadSteps
<1>count. crashes' \in 0..MaxCrashes
  BY ExportsAssumption DEF TypeOK, Crash
<1> QED
  BY <1>threads, <1>callers, <1>downloads, <1>count DEF TypeOK, Crash

\* The variables of DocumentExports keep their types in every behaviour.
THEOREM ExportsTyped == Spec => []TypeOK
<1>start. Init => TypeOK
  BY ExportsAssumption
  DEF Init, TypeOK, Callers, Threads, Unsent, DownloadCalls, DownloadSteps
<1>stutter. TypeOK /\ UNCHANGED vars => TypeOK'
  BY DEF TypeOK, vars
<1>step. TypeOK /\ [Next]_vars => TypeOK'
  BY <1>stutter, ToolTyped, ThreadTyped, DownloadTyped, CrashTyped DEF Next
<1> QED
  BY <1>start, <1>step, PTL DEF Spec

-----------------------------------------------------------------------------
(* The inductive invariant: which files exist follows from where the thread *)
(* stands, and what a caller or a download believes follows from the files. *)

\* A thread has a manifest exactly when it is done, an artifact while it works
\* towards one or failed to remove it.
FilesFollowThread ==
    \A e \in Exports :
        /\ e \in manifests <=> thread[e] = "stored"
        /\ thread[e] \in {"artifactStored", "manifest", "stored"} => e \in artifacts
        /\ e \in artifacts =>
              thread[e] \in {"artifactStored", "manifest", "cleaning", "uncleaned",
                             "killed", "stored"}

\* A call that was not made has no thread; success is announced of stored exports
\* only, failure of unstored ones that no thread works on any more.
CallersKnow ==
    \A e \in Exports :
        /\ caller[e] = "unsent" => thread[e] = "none"
        /\ caller[e] = "succeeded" => thread[e] = "stored"
        /\ caller[e] = "failed" => thread[e] \in {"refused", "cleaned", "uncleaned"}

\* A download that read a manifest reads it of a stored export.
DownloadsKnow ==
    \A d \in Downloads :
        /\ download[d].step \in {"manifestRead", "resolved"} => download[d].of \in manifests
        /\ download[d].step # "broken"

ExportsInv == TypeOK /\ FilesFollowThread /\ CallersKnow /\ DownloadsKnow

\* The steps of the caller keep the invariant: they move no thread into or out of
\* a stage that has files.
LEMMA ToolKeepsFiles ==
    ASSUME ExportsInv, NEW e \in Exports, Tool(e)
    PROVE  FilesFollowThread' /\ CallersKnow' /\ DownloadsKnow'
<1> USE DEF ExportsInv, TypeOK, FilesFollowThread, CallersKnow, DownloadsKnow
<1>1. CASE CallTool(e)
  BY <1>1 DEF CallTool
<1>2. CASE TakeJob(e)
  BY <1>2 DEF TakeJob
<1>3. CASE Return(e)
  BY <1>3 DEF Return
<1>4. CASE GiveUp(e)
  BY <1>4 DEF GiveUp
<1>5. QED
  BY <1>1, <1>2, <1>3, <1>4 DEF Tool

\* The steps of the thread keep it.
LEMMA ThreadKeepsFiles ==
    ASSUME ExportsInv, NEW e \in Exports, Export(e)
    PROVE  FilesFollowThread' /\ CallersKnow' /\ DownloadsKnow'
<1> USE DEF ExportsInv, TypeOK, FilesFollowThread, CallersKnow, DownloadsKnow
<1>1. CASE Refuse(e)
  BY <1>1 DEF Refuse
<1>2. CASE OpenArtifact(e)
  BY <1>2 DEF OpenArtifact
<1>3. CASE StoreArtifact(e)
  BY <1>3 DEF StoreArtifact
<1>4. CASE OpenManifest(e)
  BY <1>4 DEF OpenManifest
<1>5. CASE StoreManifest(e)
  BY <1>5 DEF StoreManifest
<1>6. CASE WriteFails(e)
  BY <1>6 DEF WriteFails
<1>7. CASE RemoveArtifact(e)
  BY <1>7 DEF RemoveArtifact
<1>8. CASE RemoveManifest(e)
  BY <1>8 DEF RemoveManifest
<1>9. CASE CleanupFails(e)
  BY <1>9 DEF CleanupFails
<1>10. QED
  BY <1>1, <1>2, <1>3, <1>4, <1>5, <1>6, <1>7, <1>8, <1>9 DEF Export

\* Downloads only read.
LEMMA DownloadKeepsFiles ==
    ASSUME ExportsInv, NEW d \in Downloads, Download(d)
    PROVE  FilesFollowThread' /\ CallersKnow' /\ DownloadsKnow'
<1> USE DEF ExportsInv, TypeOK, FilesFollowThread, CallersKnow, DownloadsKnow,
            DownloadCalls, Step
<1>1. CASE RequestFile(d)
  BY <1>1 DEF RequestFile
<1>2. CASE ReadManifest(d)
  BY <1>2 DEF ReadManifest
<1>3. CASE FindArtifact(d)
  BY <1>3 DEF FindArtifact
<1>4. CASE SendFile(d)
  BY <1>4 DEF SendFile
<1>5. QED
  BY <1>1, <1>2, <1>3, <1>4 DEF Download

\* A crash kills work in progress and touches no file.
LEMMA CrashKeepsFiles ==
    ASSUME ExportsInv, Crash
    PROVE  FilesFollowThread' /\ CallersKnow' /\ DownloadsKnow'
<1> USE DEF ExportsInv, TypeOK
<1>1. FilesFollowThread'
  BY DEF Crash, FilesFollowThread, Working
<1>2. CallersKnow'
  BY DEF Crash, CallersKnow, Working
<1>3. DownloadsKnow'
  BY DEF Crash, DownloadsKnow, Unsent
<1>4. QED
  BY <1>1, <1>2, <1>3

\* The invariant is inductive.
THEOREM ExportsInvariant == Spec => []ExportsInv
<1>1. Init => FilesFollowThread /\ CallersKnow /\ DownloadsKnow
  BY DEF Init, FilesFollowThread, CallersKnow, DownloadsKnow, Unsent
<1>2. TypeOK /\ TypeOK' /\ FilesFollowThread /\ CallersKnow /\ DownloadsKnow /\ [Next]_vars
        => FilesFollowThread' /\ CallersKnow' /\ DownloadsKnow'
  <2> SUFFICES ASSUME ExportsInv, [Next]_vars
               PROVE  FilesFollowThread' /\ CallersKnow' /\ DownloadsKnow'
    BY DEF ExportsInv
  <2>1. CASE UNCHANGED vars
    BY <2>1 DEF vars, ExportsInv, FilesFollowThread, CallersKnow, DownloadsKnow
  <2>2. QED
    BY <2>1, ToolKeepsFiles, ThreadKeepsFiles, DownloadKeepsFiles, CrashKeepsFiles DEF Next
<1>3. QED
  BY <1>1, <1>2, ExportsTyped, PTL DEF Spec, ExportsInv

\* An announced id downloads a complete file ever after, whatever crashes, and
\* one whose call failed never does.
THEOREM AnnouncedAlwaysResolves == Spec => []AnnouncedResolves
<1>1. ExportsInv => AnnouncedResolves
  BY DEF ExportsInv, TypeOK, FilesFollowThread, CallersKnow, AnnouncedResolves
<1>2. QED
  BY <1>1, ExportsInvariant, PTL

\* The cleanup of an export never pulls a file away from a download.
THEOREM ResolvedAlwaysServed == Spec => []ResolvedIsServed
<1>1. ExportsInv => ResolvedIsServed
  BY DEF ExportsInv, DownloadsKnow, ResolvedIsServed
<1>2. QED
  BY <1>1, ExportsInvariant, PTL

\* Files without a counterpart are in progress or were left by a crash or by an
\* unlink that failed.
THEOREM OnlyCrashesLeaveFiles == Spec => []NothingLeftBehind
<1>1. ExportsInv => NothingLeftBehind
  BY DEF ExportsInv, TypeOK, FilesFollowThread, NothingLeftBehind
<1>2. QED
  BY <1>1, ExportsInvariant, PTL
=============================================================================
