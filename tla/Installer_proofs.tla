--------------------------- MODULE Installer_proofs ---------------------------
(***************************************************************************)
(* Proofs about Installer, for any calls, releases, targets and processes, *)
(* with calls of one process following each other (Threads = FALSE).       *)
(***************************************************************************)
EXTENDS Installer, TLAPS

USE RequestAssumption, PidAssumption, NamesAssumption

\* The staging name of a call is a name of the staging area.
LEMMA StagingNameType ==
  ASSUME NEW i \in Calls
  PROVE  StagingName(i) \in Releases \X Pids
BY DEF StagingName

\* A finished directory is not an empty one, so that rename refuses it.
LEMMA CompleteNotEmpty ==
  ASSUME NEW i \in Calls
  PROVE  /\ Complete(i) # EmptyDirectory
         /\ Complete(i)[Request[i].target] # Absent
<1>1. Request[i].target \in Targets /\ Request[i].content # Absent
  OBVIOUS
<1>2. Complete(i)[Request[i].target] = Request[i].content
  BY <1>1 DEF Complete
<1>3. EmptyDirectory[Request[i].target] = Absent
  BY <1>1 DEF EmptyDirectory
<1> QED
  BY <1>1, <1>2, <1>3

\* The invariant holds before the first call.
LEMMA InitInv == Init => InstallInv
<1> SUFFICES ASSUME Init PROVE InstallInv
  OBVIOUS
<1>1. TypeOK
  BY DEF Init, TypeOK, EmptyDirectory, Pcs, Answers, Verdicts
<1>2. /\ OneLivePerPid /\ OwnStaging /\ Verified
      /\ FilesOf /\ OkPublished
  BY DEF Init, OneLivePerPid, OwnStaging, Verified, FilesOf, OkPublished, Live
<1>3. StagedBy /\ PublishedBy
  BY DEF Init, StagedBy, PublishedBy
<1> QED
  BY <1>1, <1>2, <1>3 DEF InstallInv

-----------------------------------------------------------------------------
\* Types are kept by every step.
LEMMA TypeStep == InstallInv /\ [Next]_vars => TypeOK'
<1> SUFFICES ASSUME InstallInv, [Next]_vars PROVE TypeOK'
  OBVIOUS
<1> USE StagingNameType DEF InstallInv, Goto, Return
<1>1. ASSUME NEW i \in Calls, Call(i) PROVE TypeOK'
  BY <1>1 DEF Call, TypeOK, Pcs, Answers, Verdicts
<1>2. ASSUME NEW i \in Calls, CheckDestination(i) PROVE TypeOK'
  BY <1>2 DEF CheckDestination, TypeOK, Pcs, Answers
<1>3. ASSUME NEW i \in Calls, CheckStaging(i) PROVE TypeOK'
  BY <1>3 DEF CheckStaging, TypeOK, Pcs, Answers
<1>4. ASSUME NEW i \in Calls, CreateStaging(i) PROVE TypeOK'
  BY <1>4 DEF CreateStaging, TypeOK, Pcs
<1>5. ASSUME NEW i \in Calls, OpenCopy(i) PROVE TypeOK'
  <2>1. staging[StagingName(i)] = i
    BY <1>5 DEF OpenCopy, OwnStaging
  <2>2. /\ pc' = [pc EXCEPT ![i] = "write"]
        /\ files' = [files EXCEPT ![i][Request[i].target] = Partial]
        /\ handle' = [handle EXCEPT ![i] = i]
        /\ UNCHANGED <<answer, staging, published, kept>>
    BY <1>5, <2>1 DEF OpenCopy
  <2> QED
    BY <2>2 DEF TypeOK, Pcs
<1>6. ASSUME NEW i \in Calls, WriteCopy(i) PROVE TypeOK'
  BY <1>6 DEF WriteCopy, TypeOK, Pcs, FilesOf
<1>7. ASSUME NEW i \in Calls, Publish(i) PROVE TypeOK'
  BY <1>7 DEF Publish, TypeOK, Pcs, Answers
<1>8. ASSUME NEW i \in Calls, Cleanup(i) PROVE TypeOK'
  BY <1>8 DEF Cleanup, TypeOK, Pcs, Answers, Verdicts, StagingRemoved
<1>9. ASSUME NEW i \in Calls, CleanupFails(i) PROVE TypeOK'
  BY <1>9 DEF CleanupFails, TypeOK, Pcs, Answers, Verdicts
<1>10. ASSUME NEW i \in Calls, FailIo(i) PROVE TypeOK'
  BY <1>10 DEF FailIo, TypeOK, Pcs, Answers, Verdicts
<1>11. ASSUME NEW p \in Pids, Crash(p) PROVE TypeOK'
  BY <1>11 DEF Crash, TypeOK, Pcs, Live
<1>12. CASE UNCHANGED vars
  BY <1>12 DEF vars, TypeOK
<1> QED
  BY <1>1, <1>2, <1>3, <1>4, <1>5, <1>6, <1>7, <1>8, <1>9, <1>10, <1>11, <1>12
     DEF Next, Finished

\* Who made a staging directory stays known while no directory moves.
LEMMA StagedStep ==
  ASSUME TypeOK, StagedBy, UNCHANGED staging,
         \A j \in Calls : pc[j] \in AfterCreate /\ answer[j] # "Ok" =>
                           pc'[j] \in AfterCreate /\ answer'[j] # "Ok"
  PROVE  StagedBy'
<1> SUFFICES ASSUME NEW k \in Releases \X Pids, staging[k] # Absent
             PROVE  /\ StagingName(staging[k]) = k
                    /\ pc'[staging[k]] \in AfterCreate
                    /\ answer'[staging[k]] # "Ok"
  BY DEF StagedBy, StagingName
<1>1. staging[k] \in Calls
  BY DEF TypeOK
<1>2. StagingName(staging[k]) = k /\ pc[staging[k]] \in AfterCreate /\ answer[staging[k]] # "Ok"
  BY DEF StagedBy
<1> QED
  BY <1>1, <1>2

-----------------------------------------------------------------------------
\* The whole invariant is kept by every step.
LEMMA InvStep ==
  ASSUME Threads = FALSE, InstallInv, [Next]_vars
  PROVE  InstallInv'
<1> USE StagingNameType DEF Goto, Return
<1>0. TypeOK /\ TypeOK'
  BY TypeStep DEF InstallInv
<1> DEFINE Rest == /\ OneLivePerPid /\ OwnStaging /\ StagedBy /\ FilesOf
                   /\ Verified /\ PublishedBy /\ OkPublished
<1>a. Rest
  BY DEF InstallInv
<1>1. ASSUME NEW i \in Calls, Call(i) PROVE Rest'
  <2>1. /\ \A j \in Calls : j # i => pc'[j] = pc[j] /\ answer'[j] = answer[j]
        /\ \/ pc[i] = "idle" /\ pc'[i] = "exists" /\ answer'[i] = "Pending" /\ Request[i].verdict = "ok"
           \/ pc[i] = "idle" /\ pc'[i] = "returned" /\ answer'[i] # "Ok"
        /\ answer[i] = "Pending"
        /\ UNCHANGED <<staging, published, files>>
        /\ \A j \in Calls : j # i => handle'[j] = handle[j]
    BY <1>1, <1>0, <1>a DEF Call, TypeOK, Verified, Verdicts
  <2>2. OneLivePerPid' /\ Verified'
    BY <2>1, <1>1, <1>a DEF OneLivePerPid, Verified, Live, Call
  <2>3. OwnStaging' /\ FilesOf'
    BY <2>1, <1>a DEF OwnStaging, FilesOf
  <2>4. StagedBy'
    <3>1. \A j \in Calls : pc[j] \in AfterCreate /\ answer[j] # "Ok" =>
                            pc'[j] \in AfterCreate /\ answer'[j] # "Ok"
      BY <2>1 DEF AfterCreate
    <3> QED
      BY <3>1, <2>1, <1>0, <1>a, StagedStep
  <2>5. PublishedBy'
    BY <2>1, <1>0, <1>a DEF PublishedBy, TypeOK
  <2>6. OkPublished'
    BY <2>1, <1>0, <1>a DEF OkPublished, TypeOK
  <2> QED
    BY <2>2, <2>3, <2>4, <2>5, <2>6
<1>2. ASSUME NEW i \in Calls, CheckDestination(i) PROVE Rest'
  <2>1. /\ \A j \in Calls : j # i => pc'[j] = pc[j] /\ answer'[j] = answer[j]
        /\ \/ pc[i] = "exists" /\ pc'[i] = "staging" /\ answer'[i] = "Pending"
           \/ pc[i] = "exists" /\ pc'[i] = "returned" /\ answer'[i] # "Ok"
        /\ answer[i] = "Pending"
        /\ UNCHANGED <<staging, published, files>>
        /\ \A j \in Calls : j # i => handle'[j] = handle[j]
    BY <1>2, <1>0, <1>a DEF CheckDestination, TypeOK, Verified
  <2>2. OneLivePerPid' /\ Verified'
    BY <2>1, <1>2, <1>a DEF OneLivePerPid, Verified, Live
  <2>3. OwnStaging' /\ FilesOf'
    BY <2>1, <1>a DEF OwnStaging, FilesOf
  <2>4. StagedBy'
    <3>1. \A j \in Calls : pc[j] \in AfterCreate /\ answer[j] # "Ok" =>
                            pc'[j] \in AfterCreate /\ answer'[j] # "Ok"
      BY <2>1 DEF AfterCreate
    <3> QED
      BY <3>1, <2>1, <1>0, <1>a, StagedStep
  <2>5. PublishedBy'
    BY <2>1, <1>0, <1>a DEF PublishedBy, TypeOK
  <2>6. OkPublished'
    BY <2>1, <1>0, <1>a DEF OkPublished, TypeOK
  <2> QED
    BY <2>2, <2>3, <2>4, <2>5, <2>6
<1>3. ASSUME NEW i \in Calls, CheckStaging(i) PROVE Rest'
  <2>1. /\ \A j \in Calls : j # i => pc'[j] = pc[j] /\ answer'[j] = answer[j]
        /\ \/ /\ pc[i] = "staging" /\ pc'[i] = "create" /\ answer'[i] = "Pending"
              /\ staging[StagingName(i)] = Absent
           \/ pc[i] = "staging" /\ pc'[i] = "returned" /\ answer'[i] # "Ok"
        /\ answer[i] = "Pending"
        /\ UNCHANGED <<staging, published, files>>
        /\ \A j \in Calls : j # i => handle'[j] = handle[j]
    BY <1>3, <1>0, <1>a DEF CheckStaging, TypeOK, Verified
  <2>2. OneLivePerPid' /\ Verified'
    BY <2>1, <1>3, <1>a DEF OneLivePerPid, Verified, Live
  <2>3. OwnStaging' /\ FilesOf'
    BY <2>1, <1>a DEF OwnStaging, FilesOf, StagingName
  <2>4. StagedBy'
    <3>1. \A j \in Calls : pc[j] \in AfterCreate /\ answer[j] # "Ok" =>
                            pc'[j] \in AfterCreate /\ answer'[j] # "Ok"
      BY <2>1 DEF AfterCreate
    <3> QED
      BY <3>1, <2>1, <1>0, <1>a, StagedStep
  <2>5. PublishedBy'
    BY <2>1, <1>0, <1>a DEF PublishedBy, TypeOK
  <2>6. OkPublished'
    BY <2>1, <1>0, <1>a DEF OkPublished, TypeOK
  <2> QED
    BY <2>2, <2>3, <2>4, <2>5, <2>6
<1>4. ASSUME NEW i \in Calls, CreateStaging(i) PROVE Rest'
  <2>1. /\ pc[i] = "create" /\ pc' = [pc EXCEPT ![i] = "copy"]
        /\ staging[StagingName(i)] = Absent
        /\ staging' = [staging EXCEPT ![StagingName(i)] = i]
        /\ UNCHANGED <<answer, published, files, handle>>
    BY <1>4, <1>0, <1>a DEF CreateStaging, TypeOK, OwnStaging
  <2>2. OneLivePerPid' /\ Verified'
    BY <2>1, <1>0, <1>a DEF OneLivePerPid, Verified, Live, TypeOK
  <2>3. \A j \in Calls : Live(j) /\ j # i => StagingName(j) # StagingName(i)
    BY <2>1, <1>a DEF OneLivePerPid, Live, StagingName
  <2>4. OwnStaging'
    BY <2>1, <2>3, <1>0, <1>a DEF OwnStaging, TypeOK, Live, StagingName
  <2>5. StagedBy'
    BY <2>1, <1>0, <1>a DEF StagedBy, AfterCreate, TypeOK, Verified, StagingName
  <2>6. FilesOf' /\ PublishedBy' /\ OkPublished'
    BY <2>1, <1>0, <1>a DEF FilesOf, PublishedBy, OkPublished, TypeOK
  <2> QED
    BY <2>2, <2>4, <2>5, <2>6
<1>5. ASSUME NEW i \in Calls, OpenCopy(i) PROVE Rest'
  <2>1. staging[StagingName(i)] = i
    BY <1>5, <1>a DEF OpenCopy, OwnStaging
  <2>2. /\ pc[i] = "copy" /\ pc' = [pc EXCEPT ![i] = "write"]
        /\ files' = [files EXCEPT ![i][Request[i].target] = Partial]
        /\ handle' = [handle EXCEPT ![i] = i]
        /\ UNCHANGED <<answer, staging, published>>
    BY <1>5, <2>1 DEF OpenCopy
  <2>3. OneLivePerPid' /\ Verified'
    BY <2>2, <1>0, <1>a DEF OneLivePerPid, Verified, Live, TypeOK
  <2>4. OwnStaging'
    BY <2>2, <1>0, <1>a DEF OwnStaging, TypeOK
  <2>5. StagedBy'
    BY <2>2, <1>0, <1>a DEF StagedBy, AfterCreate, TypeOK
  <2>6. files'[i] = [EmptyDirectory EXCEPT ![Request[i].target] = Partial]
    BY <2>2, <1>0, <1>a DEF FilesOf, TypeOK
  <2>7. FilesOf'
    BY <2>2, <2>6, <1>0, <1>a DEF FilesOf, TypeOK
  <2>8. \A r \in Releases : published[r] # i
    BY <2>2, <1>a DEF PublishedBy, Verified
  <2>9. PublishedBy' /\ OkPublished'
    BY <2>2, <2>8, <1>0, <1>a DEF PublishedBy, OkPublished, TypeOK
  <2> QED
    BY <2>3, <2>4, <2>5, <2>7, <2>9
<1>6. ASSUME NEW i \in Calls, WriteCopy(i) PROVE Rest'
  <2>1. /\ pc[i] = "write" /\ pc' = [pc EXCEPT ![i] = "publish"]
        /\ files' = [files EXCEPT ![i][Request[i].target] = Request[i].content]
        /\ handle' = [handle EXCEPT ![i] = Absent]
        /\ UNCHANGED <<answer, staging, published>>
    BY <1>6, <1>a DEF WriteCopy, FilesOf
  <2>2. OneLivePerPid' /\ Verified'
    BY <2>1, <1>0, <1>a DEF OneLivePerPid, Verified, Live, TypeOK
  <2>3. OwnStaging'
    BY <2>1, <1>0, <1>a DEF OwnStaging, TypeOK
  <2>4. StagedBy'
    BY <2>1, <1>0, <1>a DEF StagedBy, AfterCreate, TypeOK
  <2>5. files[i] = [EmptyDirectory EXCEPT ![Request[i].target] = Partial]
    BY <2>1, <1>a DEF FilesOf
  <2>6. files'[i] = Complete(i)
    BY <2>1, <2>5, <1>0 DEF TypeOK, Complete, EmptyDirectory
  <2>7. FilesOf'
    BY <2>1, <2>6, <1>0, <1>a DEF FilesOf, TypeOK
  <2>8. \A r \in Releases : published[r] # i
    BY <2>1, <1>a DEF PublishedBy, Verified
  <2>9. PublishedBy' /\ OkPublished'
    BY <2>1, <2>8, <1>0, <1>a DEF PublishedBy, OkPublished, TypeOK
  <2> QED
    BY <2>2, <2>3, <2>4, <2>7, <2>9
<1>7. ASSUME NEW i \in Calls, Publish(i) PROVE Rest'
  <2> DEFINE r == Request[i].release
  <2>1. /\ pc[i] = "publish" /\ staging[StagingName(i)] = i
        /\ files[i] = Complete(i) /\ i # Absent /\ r \in Releases
        /\ Request[i].verdict = "ok" /\ answer[i] = "Pending"
        /\ UNCHANGED <<files, handle>>
    BY <1>7, <1>a DEF Publish, OwnStaging, FilesOf, Verified, Live
  <2>2. \A j \in Calls : Live(j) /\ j # i => StagingName(j) # StagingName(i)
    BY <2>1, <1>a DEF OneLivePerPid, Live, StagingName
  <2>3. CASE published[r] = Absent
    <3>1. /\ pc' = [pc EXCEPT ![i] = "returned"]
          /\ answer' = [answer EXCEPT ![i] = "Ok"]
          /\ published' = [published EXCEPT ![r] = i]
          /\ staging' = [staging EXCEPT ![StagingName(i)] = Absent]
      BY <1>7, <2>1, <2>3 DEF Publish, RenameAllowed
    <3>2. OneLivePerPid' /\ Verified'
      BY <3>1, <1>0, <1>a DEF OneLivePerPid, Verified, Live, TypeOK
    <3>3. OwnStaging'
      BY <3>1, <2>2, <1>0, <1>a DEF OwnStaging, TypeOK, Live, StagingName
    <3>4. StagedBy'
      BY <3>1, <1>0, <1>a DEF StagedBy, AfterCreate, TypeOK
    <3>5. FilesOf'
      BY <3>1, <2>1, <1>0, <1>a DEF FilesOf, TypeOK
    <3>6. PublishedBy' /\ OkPublished'
      BY <3>1, <2>1, <2>3, <1>0, <1>a DEF PublishedBy, OkPublished, TypeOK
    <3> QED
      BY <3>2, <3>3, <3>4, <3>5, <3>6
  <2>4. CASE published[r] # Absent
    <3>1. files[published[r]] # EmptyDirectory
      BY <2>1, <2>4, <1>0, <1>a, CompleteNotEmpty DEF PublishedBy, TypeOK
    <3>2. /\ pc' = [pc EXCEPT ![i] = "cleanup"]
          /\ UNCHANGED <<answer, published, staging>>
      BY <1>7, <2>1, <2>4, <3>1 DEF Publish, RenameAllowed
    <3>3. OneLivePerPid' /\ Verified'
      BY <3>2, <2>1, <1>0, <1>a DEF OneLivePerPid, Verified, Live, TypeOK
    <3>4. OwnStaging' /\ FilesOf'
      BY <3>2, <2>1, <1>0, <1>a DEF OwnStaging, FilesOf, TypeOK
    <3>5. StagedBy' /\ PublishedBy' /\ OkPublished'
      BY <3>2, <2>1, <1>0, <1>a DEF StagedBy, AfterCreate, PublishedBy, OkPublished, TypeOK
    <3> QED
      BY <3>3, <3>4, <3>5
  <2> QED
    BY <2>3, <2>4
<1>8. ASSUME NEW i \in Calls, Cleanup(i) PROVE Rest'
  <2>1. /\ pc[i] = "cleanup" /\ pc' = [pc EXCEPT ![i] = "returned"]
        /\ answer' = [answer EXCEPT ![i] = "Io"] /\ answer[i] = "Pending"
        /\ staging' = [staging EXCEPT ![StagingName(i)] = Absent]
        /\ UNCHANGED <<published, files, handle>>
    BY <1>8, <1>a DEF Cleanup, StagingRemoved, Verified
  <2>2. \A j \in Calls : Live(j) /\ j # i => StagingName(j) # StagingName(i)
    BY <2>1, <1>a DEF OneLivePerPid, Live, StagingName
  <2>3. OneLivePerPid' /\ Verified'
    BY <2>1, <1>0, <1>a DEF OneLivePerPid, Verified, Live, TypeOK
  <2>4. OwnStaging'
    BY <2>1, <2>2, <1>0, <1>a DEF OwnStaging, TypeOK, Live, StagingName
  <2>5. StagedBy'
    BY <2>1, <1>0, <1>a DEF StagedBy, AfterCreate, TypeOK
  <2>6. FilesOf' /\ PublishedBy' /\ OkPublished'
    BY <2>1, <1>0, <1>a DEF FilesOf, PublishedBy, OkPublished, TypeOK
  <2> QED
    BY <2>3, <2>4, <2>5, <2>6
<1>9. ASSUME NEW i \in Calls, CleanupFails(i) PROVE Rest'
  <2>1. /\ \A j \in Calls : j # i => pc'[j] = pc[j] /\ answer'[j] = answer[j]
        /\ pc[i] = "cleanup" /\ pc'[i] = "returned" /\ answer'[i] # "Ok"
        /\ answer[i] = "Pending"
        /\ UNCHANGED <<staging, published, files>>
        /\ \A j \in Calls : j # i => handle'[j] = handle[j]
    BY <1>9, <1>0, <1>a DEF CleanupFails, TypeOK, Verified
  <2>2. OneLivePerPid' /\ Verified'
    BY <2>1, <1>9, <1>a DEF OneLivePerPid, Verified, Live
  <2>3. OwnStaging' /\ FilesOf'
    BY <2>1, <1>a DEF OwnStaging, FilesOf
  <2>4. StagedBy'
    <3>1. \A j \in Calls : pc[j] \in AfterCreate /\ answer[j] # "Ok" =>
                            pc'[j] \in AfterCreate /\ answer'[j] # "Ok"
      BY <2>1 DEF AfterCreate
    <3> QED
      BY <3>1, <2>1, <1>0, <1>a, StagedStep
  <2>5. PublishedBy'
    BY <2>1, <1>0, <1>a DEF PublishedBy, TypeOK
  <2>6. OkPublished'
    BY <2>1, <1>0, <1>a DEF OkPublished, TypeOK
  <2> QED
    BY <2>2, <2>3, <2>4, <2>5, <2>6
<1>10. ASSUME NEW i \in Calls, FailIo(i) PROVE Rest'
  <2>1. /\ \A j \in Calls : j # i => pc'[j] = pc[j] /\ answer'[j] = answer[j]
        /\ \/ pc[i] = "create" /\ pc'[i] = "returned" /\ answer'[i] # "Ok"
           \/ /\ pc[i] \in {"copy", "write", "publish"} /\ pc'[i] = "cleanup"
              /\ answer'[i] = "Pending"
        /\ answer[i] = "Pending"
        /\ UNCHANGED <<staging, published, files>>
        /\ \A j \in Calls : j # i => handle'[j] = handle[j]
    BY <1>10, <1>0, <1>a DEF FailIo, TypeOK, Verified
  <2>2. OneLivePerPid' /\ Verified'
    BY <2>1, <1>10, <1>a DEF OneLivePerPid, Verified, Live
  <2>3. OwnStaging' /\ FilesOf'
    BY <2>1, <1>a DEF OwnStaging, FilesOf
  <2>4. StagedBy'
    <3>1. \A j \in Calls : pc[j] \in AfterCreate /\ answer[j] # "Ok" =>
                            pc'[j] \in AfterCreate /\ answer'[j] # "Ok"
      BY <2>1 DEF AfterCreate
    <3> QED
      BY <3>1, <2>1, <1>0, <1>a, StagedStep
  <2>5. PublishedBy'
    BY <2>1, <1>0, <1>a DEF PublishedBy, TypeOK
  <2>6. OkPublished'
    BY <2>1, <1>0, <1>a DEF OkPublished, TypeOK
  <2> QED
    BY <2>2, <2>3, <2>4, <2>5, <2>6
<1>11. ASSUME NEW p \in Pids, Crash(p) PROVE Rest'
  <2>1. /\ \A j \in Calls : \/ pc'[j] = pc[j] /\ handle'[j] = handle[j]
                            \/ pc[j] # "returned" /\ pc'[j] = "crashed"
        /\ UNCHANGED <<answer, staging, published, files>>
    <3>1. ASSUME NEW j \in Calls
          PROVE  \/ pc'[j] = pc[j] /\ handle'[j] = handle[j]
                 \/ pc[j] # "returned" /\ pc'[j] = "crashed"
      <4>1. CASE Live(j) /\ Pid[j] = p
        BY <1>11, <4>1 DEF Crash, Live
      <4>2. CASE ~(Live(j) /\ Pid[j] = p)
        BY <1>11, <4>2 DEF Crash
      <4> QED
        BY <4>1, <4>2
    <3>2. UNCHANGED <<answer, staging, published, files>>
      BY <1>11 DEF Crash
    <3> QED
      BY <3>1, <3>2
  <2>2. OneLivePerPid' /\ Verified'
    BY <2>1, <1>a DEF OneLivePerPid, Verified, Live
  <2>3. OwnStaging' /\ FilesOf'
    BY <2>1, <1>a DEF OwnStaging, FilesOf
  <2>4. StagedBy' /\ PublishedBy'
    BY <2>1, <1>0, <1>a DEF StagedBy, AfterCreate, PublishedBy, TypeOK
  <2>5. OkPublished'
    BY <2>1, <1>0, <1>a DEF OkPublished, Live
  <2> QED
    BY <2>2, <2>3, <2>4, <2>5
<1>12. ASSUME UNCHANGED vars PROVE Rest'
  <2>1. OneLivePerPid' /\ Verified'
    BY <1>12, <1>a DEF vars, OneLivePerPid, Verified, Live
  <2>2. OwnStaging' /\ FilesOf'
    BY <1>12, <1>a DEF vars, OwnStaging, FilesOf
  <2>3. StagedBy' /\ PublishedBy' /\ OkPublished'
    BY <1>12, <1>a DEF vars, StagedBy, PublishedBy, OkPublished
  <2> QED
    BY <2>1, <2>2, <2>3
<1> HIDE DEF Rest
<1>13. Rest'
  BY <1>1, <1>2, <1>3, <1>4, <1>5, <1>6, <1>7, <1>8, <1>9, <1>10, <1>11, <1>12
     DEF Next, Finished
<1> QED
  BY <1>0, <1>13 DEF InstallInv, Rest

-----------------------------------------------------------------------------
\* install_file maintains its invariant about staging and version
\* directories, for any number of calls, processes and crashes.
THEOREM InstallCorrect ==
  ASSUME Threads = FALSE PROVE Spec => []InstallInv
<1>1. InstallInv /\ [Next]_vars => InstallInv'
  BY InvStep
<1> QED
  BY InitInv, <1>1, PTL DEF Spec

\* "atomically publishing": at every moment of every execution, crashes
\* included, what is published is a whole verified artifact.
THEOREM PublishedWhole ==
  ASSUME Threads = FALSE PROVE Spec => []PublishedComplete
<1>1. InstallInv => PublishedComplete
  BY DEF InstallInv, PublishedBy, PublishedComplete, TypeOK
<1> QED
  BY <1>1, InstallCorrect, PTL

\* No step touches what is published.
LEMMA KeptStep ==
  ASSUME Threads = FALSE, InstallInv, [Next]_vars,
         NEW r \in Releases, published[r] # Absent
  PROVE  /\ published'[r] = published[r]
         /\ files'[published[r]] = files[published[r]]
<1> DEFINE d == published[r]
<1>1. /\ d \in Calls /\ pc[d] = "returned" /\ files[d] # EmptyDirectory
      /\ Request[d].release = r
  BY CompleteNotEmpty DEF InstallInv, PublishedBy, OkPublished, TypeOK
<1>2. ASSUME NEW i \in Calls, OpenCopy(i) PROVE UNCHANGED <<published, files[d]>>
  <2>1. staging[StagingName(i)] = i /\ i # d /\ UNCHANGED published
    BY <1>1, <1>2 DEF OpenCopy, InstallInv, OwnStaging
  <2>2. files' = [files EXCEPT ![i][Request[i].target] = Partial] \/ UNCHANGED files
    BY <1>2, <2>1 DEF OpenCopy
  <2> QED
    BY <1>1, <2>1, <2>2 DEF InstallInv, TypeOK
<1>3. ASSUME NEW i \in Calls, WriteCopy(i) PROVE UNCHANGED <<published, files[d]>>
  <2>1. /\ handle[i] = i /\ i # d /\ UNCHANGED published
        /\ files' = [files EXCEPT ![i][Request[i].target] = Request[i].content]
    BY <1>1, <1>3 DEF WriteCopy, InstallInv, FilesOf
  <2> QED
    BY <1>1, <2>1 DEF InstallInv, TypeOK
<1>4. ASSUME NEW i \in Calls, Publish(i)
      PROVE  UNCHANGED files /\ published'[r] = published[r]
  <2>1. CASE Request[i].release = r
    BY <1>1, <1>4, <2>1 DEF Publish, RenameAllowed
  <2>2. CASE Request[i].release # r
    BY <1>4, <2>2 DEF Publish, InstallInv, TypeOK
  <2> QED
    BY <2>1, <2>2
<1>5. ASSUME NEW i \in Calls,
             \/ Call(i) \/ CheckDestination(i) \/ CheckStaging(i)
             \/ CreateStaging(i) \/ Cleanup(i) \/ CleanupFails(i) \/ FailIo(i)
      PROVE  UNCHANGED <<published, files>>
  BY <1>5 DEF Call, CheckDestination, CheckStaging, CreateStaging, Cleanup,
     CleanupFails, FailIo
<1>6. ASSUME NEW p \in Pids, Crash(p) PROVE UNCHANGED <<published, files>>
  BY <1>6 DEF Crash
<1>7. CASE UNCHANGED vars
  BY <1>7 DEF vars
<1> QED
  BY <1>2, <1>3, <1>4, <1>5, <1>6, <1>7 DEF Next, Finished

\* "never-overwritten": no step of install_file changes a version directory
\* or the files in it.
THEOREM PublishedForever ==
  ASSUME Threads = FALSE PROVE Spec => NeverOverwritten
<1> DEFINE Kept == \A r \in Releases : published[r] # Absent =>
                     /\ published'[r] = published[r]
                     /\ files'[published[r]] = files[published[r]]
<1>1. InstallInv /\ [Next]_vars => [Kept]_vars
  BY KeptStep
<1> HIDE DEF Kept
<1>2. Spec => [][Kept]_vars
  BY <1>1, InstallCorrect, PTL DEF Spec
<1> QED
  BY <1>2 DEF NeverOverwritten, Kept

\* Only a look at the destination answers AlreadyInstalled.
LEMMA AlreadyInstalledTrue ==
  ASSUME InstallInv, [Next]_vars, NEW i \in Calls,
         answer[i] # "AlreadyInstalled", answer'[i] = "AlreadyInstalled"
  PROVE  Installed(i)
<1> USE DEF Goto, Return
<1>0. answer \in [Calls -> Answers]
  BY DEF InstallInv, TypeOK
<1>1. ASSUME NEW j \in Calls, Call(j) PROVE FALSE
  BY <1>0, <1>1 DEF Call, Verdicts
<1>2. ASSUME NEW j \in Calls, CheckDestination(j) PROVE Installed(i)
  <2>1. CASE j = i
    BY <1>0, <1>2, <2>1 DEF CheckDestination
  <2>2. CASE j # i
    BY <1>0, <1>2, <2>2 DEF CheckDestination
  <2> QED
    BY <2>1, <2>2
<1>3. ASSUME NEW j \in Calls,
             \/ CheckStaging(j) \/ CreateStaging(j) \/ OpenCopy(j) \/ WriteCopy(j)
             \/ Publish(j) \/ Cleanup(j) \/ CleanupFails(j) \/ FailIo(j)
      PROVE  FALSE
  BY <1>0, <1>3 DEF CheckStaging, CreateStaging, OpenCopy, WriteCopy, Publish,
     Cleanup, CleanupFails, FailIo
<1>4. ASSUME NEW p \in Pids, Crash(p) PROVE FALSE
  BY <1>4 DEF Crash
<1>5. ~UNCHANGED vars
  BY DEF vars
<1> QED
  BY <1>1, <1>2, <1>3, <1>4, <1>5 DEF Next, Finished

\* What callers of install_file were told stays true in every execution.
THEOREM AnswersStayTrue ==
  ASSUME Threads = FALSE PROVE Spec => []AnswersTrue
<1>1. Init => AnswersTrue
  BY DEF Init, AnswersTrue
<1>2. ASSUME InstallInv, InstallInv', AnswersTrue, [Next]_vars PROVE AnswersTrue'
  <2> SUFFICES ASSUME NEW i \in Calls
               PROVE  /\ answer'[i] = "Ok" =>
                           /\ published'[Request[i].release] = i
                           /\ files'[i] = Complete(i)
                      /\ answer'[i] = "AlreadyInstalled" => Installed(i)'
    BY DEF AnswersTrue, Complete
  <2>1. ASSUME answer'[i] = "Ok"
        PROVE  published'[Request[i].release] = i /\ files'[i] = Complete(i)
    <3>1. published'[Request[i].release] = i
      BY <1>2, <2>1 DEF InstallInv, OkPublished
    <3> QED
      BY <1>2, <3>1 DEF InstallInv, PublishedBy, Complete
  <2>2. ASSUME answer'[i] = "AlreadyInstalled" PROVE Installed(i)'
    <3>1. Installed(i)
      <4>1. CASE answer[i] = "AlreadyInstalled"
        BY <1>2, <4>1 DEF AnswersTrue
      <4>2. CASE answer[i] # "AlreadyInstalled"
        BY <1>2, <2>2, <4>2, AlreadyInstalledTrue
      <4> QED
        BY <4>1, <4>2
    <3>2. /\ published'[Request[i].release] = published[Request[i].release]
          /\ files'[published[Request[i].release]] = files[published[Request[i].release]]
      BY <1>2, <3>1, KeptStep DEF Installed
    <3> QED
      BY <3>1, <3>2 DEF Installed
  <2> QED
    BY <2>1, <2>2
<1> QED
  BY <1>1, <1>2, InstallCorrect, PTL DEF Spec

-----------------------------------------------------------------------------
(* Why a staging directory is found.                                       *)

\* Returning without the directory, removing it or failing to are the ways
\* out of install_file.
LEMMA LeftBehindStep ==
  ASSUME InstallInv, LeftBehind, [Next]_vars
  PROVE  LeftBehind'
<1> USE StagingNameType DEF Goto, Return
<1>0. TypeOK
  BY DEF InstallInv
<1>1. ASSUME NEW k \in Releases \X Pids, staging[k] # Absent
      PROVE  /\ staging[k] \in Calls /\ StagingName(staging[k]) = k
             /\ pc[staging[k]] \in AfterCreate
  BY <1>1, <1>0 DEF InstallInv, StagedBy, TypeOK
<1>2. ASSUME UNCHANGED staging, kept \subseteq kept',
             \A j \in Calls : pc[j] \in AfterCreate /\ pc'[j] = "returned" =>
                                pc[j] = "returned" \/ j \in kept'
      PROVE  LeftBehind'
  <2> SUFFICES ASSUME NEW k \in Releases \X Pids, staging[k] # Absent,
                      pc'[staging[k]] = "returned"
               PROVE  staging[k] \in kept'
    BY <1>2 DEF LeftBehind
  <2>1. staging[k] \in Calls /\ pc[staging[k]] \in AfterCreate
    BY <1>1
  <2> QED
    BY <1>2, <2>1 DEF LeftBehind
<1>3. ASSUME NEW i \in Calls, Call(i) \/ CheckDestination(i) \/ CheckStaging(i)
      PROVE  LeftBehind'
  <2>1. /\ UNCHANGED <<staging, kept>> /\ pc[i] \notin AfterCreate
        /\ \A j \in Calls : j # i => pc'[j] = pc[j]
    BY <1>0, <1>3 DEF Call, CheckDestination, CheckStaging, AfterCreate, TypeOK
  <2> QED
    BY <1>2, <2>1
<1>4. ASSUME NEW i \in Calls, CreateStaging(i) PROVE LeftBehind'
  <2>1. /\ pc[i] = "create" /\ pc' = [pc EXCEPT ![i] = "copy"] /\ kept' = kept
        /\ staging' = [staging EXCEPT ![StagingName(i)] = i]
    BY <1>4 DEF CreateStaging, InstallInv, OwnStaging
  <2> SUFFICES ASSUME NEW k \in Releases \X Pids, staging'[k] # Absent,
                      pc'[staging'[k]] = "returned"
               PROVE  staging'[k] \in kept
    BY <2>1 DEF LeftBehind
  <2>2. CASE k = StagingName(i)
    BY <1>0, <2>1, <2>2 DEF TypeOK
  <2>3. CASE k # StagingName(i)
    <3>1. staging'[k] = staging[k]
      BY <1>0, <2>1, <2>3 DEF TypeOK
    <3>2. staging[k] \in Calls /\ pc[staging[k]] = "returned"
      BY <1>0, <1>1, <2>1, <3>1 DEF TypeOK
    <3> QED
      BY <3>1, <3>2 DEF LeftBehind
  <2> QED
    BY <2>2, <2>3
<1>5. ASSUME NEW i \in Calls, OpenCopy(i) \/ WriteCopy(i) PROVE LeftBehind'
  <2>1. /\ UNCHANGED <<staging, kept>>
        /\ \A j \in Calls : pc'[j] = "returned" => pc[j] = "returned"
    BY <1>0, <1>5 DEF OpenCopy, WriteCopy, TypeOK
  <2> QED
    BY <1>2, <2>1
<1>6. ASSUME NEW i \in Calls, staging' = [staging EXCEPT ![StagingName(i)] = Absent],
             pc' = [pc EXCEPT ![i] = "returned"], kept' = kept
      PROVE  LeftBehind'
  <2> SUFFICES ASSUME NEW k \in Releases \X Pids, staging'[k] # Absent,
                      pc'[staging'[k]] = "returned"
               PROVE  staging'[k] \in kept
    BY <1>6 DEF LeftBehind
  <2>1. k # StagingName(i) /\ staging'[k] = staging[k]
    BY <1>0, <1>6 DEF TypeOK
  <2>2. staging[k] \in Calls /\ staging[k] # i
    BY <1>1, <2>1
  <2>3. pc[staging[k]] = "returned"
    BY <1>0, <1>6, <2>1, <2>2 DEF TypeOK
  <2> QED
    BY <2>1, <2>3 DEF LeftBehind
<1>7. ASSUME NEW i \in Calls, Publish(i) PROVE LeftBehind'
  <2>1. CASE pc' = [pc EXCEPT ![i] = "cleanup"] /\ UNCHANGED <<staging, kept>>
    <3>1. \A j \in Calls : pc'[j] = "returned" => pc[j] = "returned"
      BY <1>0, <2>1 DEF TypeOK
    <3> QED
      BY <1>2, <2>1, <3>1
  <2>2. CASE /\ staging' = [staging EXCEPT ![StagingName(i)] = Absent]
             /\ pc' = [pc EXCEPT ![i] = "returned"] /\ kept' = kept
    BY <1>6, <2>2
  <2> QED
    BY <1>7, <2>1, <2>2 DEF Publish
<1>8. ASSUME NEW i \in Calls, Cleanup(i) PROVE LeftBehind'
  BY <1>6, <1>8 DEF Cleanup, StagingRemoved
<1>9. ASSUME NEW i \in Calls, CleanupFails(i) PROVE LeftBehind'
  <2>1. /\ UNCHANGED staging /\ kept' = kept \cup {i}
        /\ \A j \in Calls : j # i => pc'[j] = pc[j]
    BY <1>0, <1>9 DEF CleanupFails, TypeOK
  <2> QED
    BY <1>2, <2>1
<1>10. ASSUME NEW i \in Calls, FailIo(i) PROVE LeftBehind'
  <2>1. /\ UNCHANGED <<staging, kept>>
        /\ pc[i] \in AfterCreate => pc'[i] = "cleanup"
        /\ \A j \in Calls : j # i => pc'[j] = pc[j]
    BY <1>0, <1>10 DEF FailIo, AfterCreate, TypeOK
  <2> QED
    BY <1>2, <2>1
<1>11. ASSUME NEW p \in Pids, Crash(p) PROVE LeftBehind'
  <2>1. /\ UNCHANGED <<staging, kept>>
        /\ \A j \in Calls : pc'[j] = "returned" => pc[j] = "returned"
    BY <1>11 DEF Crash
  <2> QED
    BY <1>2, <2>1
<1>12. CASE UNCHANGED vars
  BY <1>12 DEF vars, LeftBehind
<1> QED
  BY <1>3, <1>4, <1>5, <1>7, <1>8, <1>9, <1>10, <1>11, <1>12 DEF Next, Finished

\* A call finds a staging directory of its name only if the call that made it
\* crashed or could not remove it: it is not live, since both have one
\* process id, and it did not publish.
LEMMA StagingFound ==
  ASSUME InstallInv, LeftBehind, NEW i \in Calls, pc[i] = "staging",
         staging[StagingName(i)] # Absent
  PROVE  \E j \in Calls \ {i} : /\ StagingName(j) = StagingName(i)
                                /\ pc[j] = "crashed" \/ j \in kept
<1> DEFINE j == staging[StagingName(i)]
<1>1. j \in Calls /\ StagingName(j) = StagingName(i) /\ pc[j] \in AfterCreate
  BY StagingNameType DEF InstallInv, StagedBy, TypeOK
<1>2. j # i
  BY <1>1 DEF AfterCreate
<1>3. Pid[j] = Pid[i]
  BY <1>1 DEF StagingName
<1>4. ~Live(j)
  BY <1>1, <1>2, <1>3 DEF InstallInv, OneLivePerPid, Live
<1>5. pc[j] \in {"returned", "crashed"}
  BY <1>1, <1>4 DEF AfterCreate, Live
<1>6. pc[j] = "returned" => j \in kept
  BY StagingNameType DEF LeftBehind
<1> QED
  BY <1>1, <1>2, <1>5, <1>6

\* A crashed call stays crashed, and a directory once kept is on record.
LEMMA CausesLast ==
  ASSUME InstallInv, [Next]_vars, NEW j \in Calls, pc[j] = "crashed" \/ j \in kept
  PROVE  pc'[j] = "crashed" \/ j \in kept'
<1> USE DEF Goto, Return
<1>0. pc \in [Calls -> Pcs]
  BY DEF InstallInv, TypeOK
<1>1. ASSUME NEW i \in Calls,
             \/ Call(i) \/ CheckDestination(i) \/ CheckStaging(i) \/ CreateStaging(i)
             \/ OpenCopy(i) \/ WriteCopy(i) \/ Publish(i) \/ Cleanup(i)
             \/ CleanupFails(i) \/ FailIo(i)
      PROVE  pc'[j] = "crashed" \/ j \in kept'
  <2>1. pc[i] # "crashed" /\ kept \subseteq kept'
    BY <1>1 DEF Call, CheckDestination, CheckStaging, CreateStaging, OpenCopy,
       WriteCopy, Publish, Cleanup, CleanupFails, FailIo
  <2>2. i # j => pc'[j] = pc[j]
    BY <1>0, <1>1 DEF Call, CheckDestination, CheckStaging, CreateStaging, OpenCopy,
       WriteCopy, Publish, Cleanup, CleanupFails, FailIo
  <2> QED
    BY <2>1, <2>2
<1>2. ASSUME NEW p \in Pids, Crash(p) PROVE pc'[j] = "crashed" \/ j \in kept'
  BY <1>2 DEF Crash
<1>3. CASE UNCHANGED vars
  BY <1>3 DEF vars
<1> QED
  BY <1>1, <1>2, <1>3 DEF Next, Finished

\* Only a look at the staging directory answers StagingExists.
LEMMA StagingExistsTrue ==
  ASSUME InstallInv, [Next]_vars, NEW i \in Calls,
         answer[i] # "StagingExists", answer'[i] = "StagingExists"
  PROVE  pc[i] = "staging" /\ staging[StagingName(i)] # Absent
<1> USE DEF Goto, Return
<1>0. answer \in [Calls -> Answers]
  BY DEF InstallInv, TypeOK
<1>1. ASSUME NEW j \in Calls, Call(j) PROVE FALSE
  BY <1>0, <1>1 DEF Call, Verdicts
<1>2. ASSUME NEW j \in Calls, CheckStaging(j)
      PROVE  pc[i] = "staging" /\ staging[StagingName(i)] # Absent
  <2>1. j = i
    BY <1>0, <1>2 DEF CheckStaging
  <2> QED
    BY <1>2, <2>1 DEF CheckStaging
<1>3. ASSUME NEW j \in Calls,
             \/ CheckDestination(j) \/ CreateStaging(j) \/ OpenCopy(j) \/ WriteCopy(j)
             \/ Publish(j) \/ Cleanup(j) \/ CleanupFails(j) \/ FailIo(j)
      PROVE  FALSE
  BY <1>0, <1>3 DEF CheckDestination, CreateStaging, OpenCopy, WriteCopy, Publish,
     Cleanup, CleanupFails, FailIo
<1>4. ASSUME NEW p \in Pids, Crash(p) PROVE FALSE
  BY <1>4 DEF Crash
<1>5. ~UNCHANGED vars
  BY DEF vars
<1> QED
  BY <1>1, <1>2, <1>3, <1>4, <1>5 DEF Next, Finished

\* StagingExists is answered only after a crash of a process with this id, or
\* after a failed removal, in every execution.
THEOREM StagingIsExplained ==
  ASSUME Threads = FALSE PROVE Spec => []StagingExplained
<1>1. Init => LeftBehind /\ StagingExplained
  BY DEF Init, LeftBehind, StagingExplained
<1>2. ASSUME InstallInv, LeftBehind, StagingExplained, [Next]_vars
      PROVE  LeftBehind' /\ StagingExplained'
  <2>1. LeftBehind'
    BY <1>2, LeftBehindStep
  <2>2. ASSUME NEW i \in Calls, answer'[i] = "StagingExists"
        PROVE  \E j \in Calls \ {i} : /\ StagingName(j) = StagingName(i)
                                      /\ pc'[j] = "crashed" \/ j \in kept'
    <3>1. PICK j \in Calls \ {i} : /\ StagingName(j) = StagingName(i)
                                   /\ pc[j] = "crashed" \/ j \in kept
      <4>1. CASE answer[i] = "StagingExists"
        BY <1>2, <4>1 DEF StagingExplained
      <4>2. CASE answer[i] # "StagingExists"
        BY <1>2, <2>2, <4>2, StagingExistsTrue, StagingFound
      <4> QED
        BY <4>1, <4>2
    <3> QED
      BY <1>2, <3>1, CausesLast
  <2> QED
    BY <2>1, <2>2 DEF StagingExplained, StagingName
<1> QED
  BY <1>1, <1>2, InstallCorrect, PTL DEF Spec
=============================================================================
