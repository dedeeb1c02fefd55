------------------------------ MODULE Installer ------------------------------
(***************************************************************************)
(* install_file of jadren-installer: calls of several processes share one  *)
(* toolchain root.  Steps are the file-system operations.  A release is a  *)
(* component name with a version; it is published by renaming a staging    *)
(* directory, whose name holds the release and the process id.             *)
(*                                                                         *)
(* A directory is known by the call that created it (a call creates at     *)
(* most one), so that a file opened for writing is still the same file     *)
(* after its directory was renamed.  The artifact a call copies does not   *)
(* change while the call runs.                                             *)
(***************************************************************************)
EXTENDS Integers, FiniteSets

CONSTANTS Calls,      \* calls of install_file
          Releases, Targets, Contents, Pids,
          Request,    \* per call: [release, target, content, verdict]
          Pid,        \* per call: std::process::id()
          Threads     \* TRUE: calls of one process may overlap

Absent == "absent"        \* no such directory, no such file
Partial == "partial"      \* a file that is being written, or never was finished
Verdicts == {"ok", "Manifest", "DigestMismatch", "Signature", "Io"}

ASSUME NamesAssumption == Absent \notin Calls \cup Contents /\ Partial \notin Contents
ASSUME RequestAssumption ==
  Request \in [Calls -> [release : Releases, target : Targets,
                         content : Contents, verdict : Verdicts]]
ASSUME PidAssumption == Pid \in [Calls -> Pids]
ASSUME ThreadsAssumption == Threads \in BOOLEAN

VARIABLES pc,
          answer,       \* what each call returned
          staging,      \* staging directories by name
          published,    \* version directories by release
          files,        \* contents of every directory
          handle,       \* the directory of the file a call is writing
          kept          \* history: calls whose remove_dir_all failed

vars == <<pc, answer, staging, published, files, handle, kept>>

EmptyDirectory == [t \in Targets |-> Absent]

\* Fault: the name of the staging directory lacks the process id.
SharedName(i) == <<Request[i].release, CHOOSE p \in Pids : TRUE>>

\* .staging-{name}-{version}-{pid}
StagingName(i) == <<Request[i].release, Pid[i]>>

Init ==
  /\ pc = [i \in Calls |-> "idle"]
  /\ answer = [i \in Calls |-> "Pending"]
  /\ staging = [k \in Releases \X Pids |-> Absent]
  /\ published = [r \in Releases |-> Absent]
  /\ files = [i \in Calls |-> EmptyDirectory]
  /\ handle = [i \in Calls |-> Absent]
  /\ kept = {}

Live(i) == pc[i] \in {"exists", "staging", "create", "copy", "write", "publish",
                      "cleanup"}

Goto(i, label) == pc' = [pc EXCEPT ![i] = label]

Return(i, a) == Goto(i, "returned") /\ answer' = [answer EXCEPT ![i] = a]

-----------------------------------------------------------------------------
\* validate, validate_component, verify_file and the creation of the root
\* touch nothing that calls compete for.  No two live processes have one id.
Call(i) ==
  /\ pc[i] = "idle"
  /\ Threads \/ \A j \in Calls : Live(j) => Pid[j] # Pid[i]
  /\ \/ Request[i].verdict = "ok" /\ Goto(i, "exists") /\ UNCHANGED answer
     \/ Request[i].verdict # "ok" /\ Return(i, Request[i].verdict)
  /\ UNCHANGED <<staging, published, files, handle, kept>>

\* destination.exists()
Installed(i) ==
  /\ published[Request[i].release] # Absent
  /\ files[published[Request[i].release]][Request[i].target] # Absent

CheckDestination(i) ==
  /\ pc[i] = "exists"
  /\ \/ Installed(i) /\ Return(i, "AlreadyInstalled")
     \/ ~Installed(i) /\ Goto(i, "staging") /\ UNCHANGED answer
  /\ UNCHANGED <<staging, published, files, handle, kept>>

\* staging.exists()
CheckStaging(i) ==
  /\ pc[i] = "staging"
  /\ \/ staging[StagingName(i)] # Absent /\ Return(i, "StagingExists")
     \/ staging[StagingName(i)] = Absent /\ Goto(i, "create") /\ UNCHANGED answer
  /\ UNCHANGED <<staging, published, files, handle, kept>>

\* fs::create_dir_all(&staging) is content with a directory that is there.
CreateStaging(i) ==
  /\ pc[i] = "create"
  /\ staging' = [staging EXCEPT ![StagingName(i)] = IF @ = Absent THEN i ELSE @]
  /\ Goto(i, "copy")
  /\ UNCHANGED <<answer, published, files, handle, kept>>

\* fs::copy creates or truncates the staged file ..
OpenCopy(i) ==
  /\ pc[i] = "copy"
  /\ LET d == staging[StagingName(i)]
     IN  \/ d = Absent /\ Goto(i, "cleanup") /\ UNCHANGED <<files, handle>>
         \/ /\ d # Absent /\ Goto(i, "write")
            /\ files' = [files EXCEPT ![d][Request[i].target] = Partial]
            /\ handle' = [handle EXCEPT ![i] = d]
  /\ UNCHANGED <<answer, staging, published, kept>>

\* .. and fills it.
WriteCopy(i) ==
  /\ pc[i] = "write"
  /\ files' = [files EXCEPT ![handle[i]][Request[i].target] = Request[i].content]
  /\ handle' = [handle EXCEPT ![i] = Absent]
  /\ Goto(i, "publish")
  /\ UNCHANGED <<answer, staging, published, kept>>

\* Fault: the rename replaces whatever is there.
ReplacesAny(r) == TRUE

\* rename(2) onto a directory needs it to be empty.
RenameAllowed(r) ==
  published[r] # Absent => files[published[r]] = EmptyDirectory

\* create_dir_all(&component_root) and fs::rename(&staging, &version_root).
Publish(i) ==
  /\ pc[i] = "publish"
  /\ LET d == staging[StagingName(i)]
         r == Request[i].release
     IN  \/ /\ d # Absent /\ RenameAllowed(r)
            /\ published' = [published EXCEPT ![r] = d]
            /\ staging' = [staging EXCEPT ![StagingName(i)] = Absent]
            /\ Return(i, "Ok")
         \/ /\ ~(d # Absent /\ RenameAllowed(r))
            /\ Goto(i, "cleanup")
            /\ UNCHANGED <<answer, published, staging>>
  /\ UNCHANGED <<files, handle, kept>>

\* Fault: the staging directory of a failed call stays.
StagingKept(i) == staging[StagingName(i)]

StagingRemoved(i) == Absent

\* let _ = fs::remove_dir_all(&staging)
Cleanup(i) ==
  /\ pc[i] = "cleanup"
  /\ staging' = [staging EXCEPT ![StagingName(i)] = StagingRemoved(i)]
  /\ Return(i, "Io")
  /\ UNCHANGED <<published, files, handle, kept>>

\* .. whose own failure is ignored.
CleanupFails(i) ==
  /\ pc[i] = "cleanup"
  /\ kept' = kept \cup {i}
  /\ Return(i, "Io")
  /\ UNCHANGED <<staging, published, files, handle>>

\* An operation fails: after the directory was made the call cleans up.
FailIo(i) ==
  /\ \/ pc[i] = "create" /\ Return(i, "Io")
     \/ /\ pc[i] \in {"copy", "write", "publish"}
        /\ Goto(i, "cleanup") /\ UNCHANGED answer
  /\ handle' = [handle EXCEPT ![i] = Absent]
  /\ UNCHANGED <<staging, published, files, kept>>

\* The process dies with every call it has under way.
Crash(p) ==
  /\ \E i \in Calls : Live(i) /\ Pid[i] = p
  /\ pc' = [i \in Calls |-> IF Live(i) /\ Pid[i] = p THEN "crashed" ELSE pc[i]]
  /\ handle' = [i \in Calls |-> IF Live(i) /\ Pid[i] = p THEN Absent ELSE handle[i]]
  /\ UNCHANGED <<answer, staging, published, files, kept>>

Finished == (\A i \in Calls : pc[i] \in {"returned", "crashed"}) /\ UNCHANGED vars

Next ==
  \/ \E i \in Calls :
       \/ Call(i) \/ CheckDestination(i) \/ CheckStaging(i) \/ CreateStaging(i)
       \/ OpenCopy(i) \/ WriteCopy(i) \/ Publish(i) \/ Cleanup(i)
       \/ CleanupFails(i) \/ FailIo(i)
  \/ \E p \in Pids : Crash(p)
  \/ Finished

Spec == Init /\ [][Next]_vars

-----------------------------------------------------------------------------
(* Properties.                                                             *)

Pcs == {"idle", "exists", "staging", "create", "copy", "write", "publish",
        "cleanup", "returned", "crashed"}
Answers == (Verdicts \ {"ok"}) \cup {"Pending", "Ok", "AlreadyInstalled", "StagingExists"}

\* The variables keep their types.
TypeOK ==
  /\ pc \in [Calls -> Pcs]
  /\ answer \in [Calls -> Answers]
  /\ staging \in [Releases \X Pids -> Calls \cup {Absent}]
  /\ published \in [Releases -> Calls \cup {Absent}]
  /\ files \in [Calls -> [Targets -> Contents \cup {Absent, Partial}]]
  /\ handle \in [Calls -> Calls \cup {Absent}]
  /\ kept \subseteq Calls

\* What the call i verified and meant to publish.
Complete(i) ==
  [t \in Targets |-> IF t = Request[i].target THEN Request[i].content ELSE Absent]

\* "atomically publishing": at every moment, also after crashes, a version
\* directory holds a whole verified artifact of that release and nothing else.
PublishedComplete ==
  \A r \in Releases : published[r] # Absent =>
    \E i \in Calls : /\ Request[i].release = r /\ Request[i].verdict = "ok"
                     /\ files[published[r]] = Complete(i)

\* "never-overwritten version directory": no step of any call changes what
\* was published.
NeverOverwritten ==
  [][\A r \in Releases : published[r] # Absent =>
       /\ published'[r] = published[r]
       /\ files'[published[r]] = files[published[r]]]_vars

\* What callers are told is true for good: Ok is given to one call of a
\* release, whose artifact stays published, and AlreadyInstalled only where
\* the artifact is.
AnswersTrue ==
  \A i \in Calls :
    /\ answer[i] = "Ok" =>
         published[Request[i].release] = i /\ files[i] = Complete(i)
    /\ answer[i] = "AlreadyInstalled" => Installed(i)

\* StagingExists, which asks for a manual inspection, is returned only when
\* an earlier process with this id crashed, or could not remove its staging
\* directory.
StagingExplained ==
  \A i \in Calls : answer[i] = "StagingExists" =>
    \E j \in Calls \ {i} :
      /\ StagingName(j) = StagingName(i)
      /\ pc[j] = "crashed" \/ j \in kept

-----------------------------------------------------------------------------
(* The inductive invariant: while processes do not share an id, a call     *)
(* alone writes into the directory it made, up to its publication.         *)

OneLivePerPid ==
  \A i, j \in Calls : Live(i) /\ Live(j) /\ Pid[i] = Pid[j] => i = j
OwnStaging ==
  \A i \in Calls :
    /\ pc[i] = "create" => staging[StagingName(i)] = Absent
    /\ pc[i] \in {"copy", "write", "publish"} => staging[StagingName(i)] = i
AfterCreate == {"copy", "write", "publish", "cleanup", "returned", "crashed"}
StagedBy ==
  \A k \in Releases \X Pids : staging[k] # Absent =>
    /\ StagingName(staging[k]) = k
    /\ pc[staging[k]] \in AfterCreate
    /\ answer[staging[k]] # "Ok"
FilesOf ==
  \A i \in Calls :
    /\ pc[i] \in {"idle", "exists", "staging", "create", "copy"} =>
         files[i] = EmptyDirectory
    /\ pc[i] = "write" =>
         /\ handle[i] = i
         /\ files[i] = [EmptyDirectory EXCEPT ![Request[i].target] = Partial]
    /\ pc[i] = "publish" => files[i] = Complete(i)
Verified ==
  \A i \in Calls : /\ Live(i) => Request[i].verdict = "ok"
                   /\ pc[i] # "returned" => answer[i] = "Pending"
PublishedBy ==
  \A r \in Releases : published[r] # Absent =>
    LET i == published[r]
    IN  /\ Request[i].release = r /\ Request[i].verdict = "ok"
        /\ answer[i] = "Ok" /\ files[i] = Complete(i)
OkPublished ==
  \A i \in Calls : answer[i] = "Ok" =>
    pc[i] = "returned" /\ published[Request[i].release] = i

\* A call that returned left its staging directory only if it could not
\* remove it.
LeftBehind ==
  \A k \in Releases \X Pids :
    staging[k] # Absent /\ pc[staging[k]] = "returned" => staging[k] \in kept

\* What install_file maintains about staging and version directories.
InstallInv ==
  /\ TypeOK /\ OneLivePerPid /\ OwnStaging /\ StagedBy /\ FilesOf
  /\ Verified /\ PublishedBy /\ OkPublished
=============================================================================
