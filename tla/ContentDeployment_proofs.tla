---------------------- MODULE ContentDeployment_proofs ----------------------
(***************************************************************************)
(* Type correctness of a deployment, that it is completed only after a     *)
(* download, and that nobody waits for a settled download, for any sites,  *)
(* slots, runs and bounds.                                                 *)
(***************************************************************************)
EXTENDS ContentDeployment, TLAPS

USE DEF vars, rowVars, startVars, runVars, jobVars, boundVars

\* What SendOrQueue, and with it every command sent, keeps of the types.
LEMMA SendOrQueueType ==
    ASSUME TypeOK, NEW s \in Site, NEW named \in BOOLEAN, SendOrQueue(s, named)
    PROVE  /\ connected' \subseteq Site
           /\ job' \in [Site \X Slot -> Phase]
           /\ unnamed' \subseteq Site \X Slot
           /\ waitsFor' \in [Site \X Slot -> Slot \cup {NoSlot}]
           /\ active' \in [Site -> Slot \cup {NoSlot}]
           /\ messages' \in [Site -> SUBSET Message]
  <1>1. PICK j \in Slot :
            /\ \/ job' = [job EXCEPT ![<<s, j>>] = "sent"] /\ UNCHANGED <<connected, messages>>
               \/ job' = [Lose(s, job) EXCEPT ![<<s, j>>] = "queued"] /\ DropConnection(s)
            /\ KeepUnnamed(IF named THEN unnamed ELSE unnamed \cup {<<s, j>>})
            /\ UNCHANGED <<waitsFor, active>>
    BY DEF SendOrQueue
  <1>2. job' \in [Site \X Slot -> Phase]
    BY <1>1 DEF TypeOK, Lose, Phase
  <1>3. unnamed' \subseteq Site \X Slot
    BY <1>1 DEF TypeOK, KeepUnnamed
  <1>4. /\ connected' \subseteq Site
        /\ messages' \in [Site -> SUBSET Message]
    BY <1>1 DEF TypeOK, DropConnection
  <1>5. QED
    BY <1>1, <1>2, <1>3, <1>4 DEF TypeOK

\* Emitting messages keeps the type of the messages on their way.
LEMMA EmitType ==
    ASSUME TypeOK, NEW s \in Site, NEW M \in SUBSET Message, Emit(s, M)
    PROVE  messages' \in [Site -> SUBSET Message]
  BY DEF TypeOK, Emit

\* A report is a message.
LEMMA ReportType ==
    ASSUME NEW s, NEW j, NEW kind \in {"partial", "full", "error"}
    PROVE  Report(s, j, kind) \in Message
  BY DEF Report, Message

\* An update caused by a message is an update of the row.
LEMMA UpdateType ==
    ASSUME NEW m \in Message
    PROVE  Update(m) \in Write
  BY DEF Update, Message, Write

\* Each step of the commands and their downloads keeps the types.
LEMMA JobType ==
    ASSUME TypeOK, NEW s \in Site, NEW j \in Slot,
           JobNext(s, j) \/ DropQueued(s, j) \/ ReportPartial(s, j) \/ DownloadBreaks(s, j)
    PROVE  TypeOK'
  <1>1. CASE SendQueued(s, j)
    BY <1>1 DEF TypeOK, SendQueued, Phase
  <1>2. CASE DropQueued(s, j)
    BY <1>2 DEF TypeOK, DropQueued, Phase, KeepUnnamed
  <1>9. CASE RefuseUnchecked(s, j)
    BY <1>9 DEF TypeOK, RefuseUnchecked, Phase, KeepUnnamed
  <1>3. CASE ReceiveCommand(s, j)
    <2>1. job' \in [Site \X Slot -> Phase]
      BY <1>3 DEF TypeOK, ReceiveCommand, Phase, Running
    <2>2. /\ active' \in [Site -> Slot \cup {NoSlot}]
          /\ waitsFor' \in [Site \X Slot -> Slot \cup {NoSlot}]
      BY <1>3 DEF TypeOK, ReceiveCommand
    <2>3. QED
      BY <1>3, <2>1, <2>2 DEF TypeOK, ReceiveCommand
  <1>4. CASE ReportPartial(s, j)
    <2>1. messages' \in [Site -> SUBSET Message]
      BY <1>4, EmitType, ReportType DEF ReportPartial
    <2>2. QED
      BY <1>4, <2>1 DEF TypeOK, ReportPartial
  <1>5. CASE DownloadNearlyEnds(s, j)
    <2>1. messages' \in [Site -> SUBSET Message]
      <3>1. {Report(s, j, "full")} \in SUBSET Message
        BY ReportType
      <3>2. CASE Emit(s, {Report(s, j, "full")})
        BY <3>1, <3>2, EmitType
      <3>3. CASE UNCHANGED messages
        BY <3>3 DEF TypeOK
      <3>4. QED
        BY <1>5, <3>2, <3>3 DEF DownloadNearlyEnds
    <2>2. QED
      BY <1>5, <2>1 DEF TypeOK, DownloadNearlyEnds, Phase, Running
  <1>6. CASE DownloadBreaks(s, j)
    BY <1>6 DEF TypeOK, DownloadBreaks, Phase, Running
  <1>7. CASE DeploySucceeds(s, j)
    <2> DEFINE ended == {j} \cup WaitersFor(s, j)
    <2>1. messages' \in [Site -> SUBSET Message]
      <3>1. {Report(s, k, "full") : k \in ended} \in SUBSET Message
        BY ReportType
      <3>2. QED
        BY <1>7, <3>1, EmitType DEF DeploySucceeds
    <2>2. job' \in [Site \X Slot -> Phase]
      BY <1>7 DEF TypeOK, DeploySucceeds, Phase
    <2>3. /\ waitsFor' \in [Site \X Slot -> Slot \cup {NoSlot}]
          /\ active' \in [Site -> Slot \cup {NoSlot}]
          /\ unnamed' \subseteq Site \X Slot
      BY <1>7 DEF TypeOK, DeploySucceeds, KeepUnnamed
    <2>4. QED
      BY <1>7, <2>1, <2>2, <2>3 DEF TypeOK, DeploySucceeds
  <1>8. CASE DeployFails(s, j)
    <2>1. messages' \in [Site -> SUBSET Message]
      <3> DEFINE M == IF <<s, j>> \in unnamed THEN {} ELSE {Report(s, j, "error")}
      <3>1. M \in SUBSET Message
        BY ReportType
      <3>2. Emit(s, M)
        BY <1>8 DEF DeployFails
      <3>3. QED
        BY <3>1, <3>2, EmitType
    <2>2. job' \in [Site \X Slot -> Phase]
      BY <1>8 DEF TypeOK, DeployFails, Phase, Running
    <2>3. active' \in [Site -> Slot \cup {NoSlot}]
      BY <1>8 DEF TypeOK, DeployFails, WaitersFor
    <2>4. /\ waitsFor' \in [Site \X Slot -> Slot \cup {NoSlot}]
          /\ unnamed' \subseteq Site \X Slot
      BY <1>8 DEF TypeOK, DeployFails, KeepUnnamed
    <2>5. QED
      BY <1>8, <2>1, <2>2, <2>3, <2>4 DEF TypeOK, DeployFails
  <1>10. QED
    BY <1>1, <1>2, <1>3, <1>4, <1>5, <1>6, <1>7, <1>8, <1>9 DEF JobNext

\* Each step of startDeployment keeps the types.
LEMMA StartType ==
    ASSUME TypeOK, StartNext
    PROVE  TypeOK'
  <1>1. CASE StartSelect
    BY <1>1 DEF TypeOK, StartSelect
  <1>2. CASE StartEnds
    BY <1>2 DEF TypeOK, StartEnds
  <1>3. CASE StartQueryFails
    <2>1. failures' \in 0..MaxFailures
      BY <1>3, DeploymentAssumption DEF TypeOK, StartQueryFails
    <2>2. delivered' \in BOOLEAN
      BY <1>3 DEF StartQueryFails
    <2>3. QED
      BY <1>3, <2>1, <2>2 DEF TypeOK, StartQueryFails
  <1>4. CASE FailDeployment
    BY <1>4 DEF TypeOK, FailDeployment
  <1>5. CASE FailDeploymentFails
    BY <1>5, DeploymentAssumption DEF TypeOK, FailDeploymentFails
  <1>6. ASSUME NEW s \in Site, StartSend(s)
        PROVE  TypeOK'
    <2>1. SendOrQueue(s, TRUE)
      BY <1>6 DEF StartSend
    <2>2. QED
      BY <1>6, <2>1, SendOrQueueType DEF TypeOK, StartSend
  <1>7. ASSUME NEW s \in Site, StartSendFails(s)
        PROVE  TypeOK'
    BY <1>7, DeploymentAssumption DEF TypeOK, StartSendFails
  <1>8. QED
    BY <1>1, <1>2, <1>3, <1>4, <1>5, <1>6, <1>7 DEF StartNext

\* Each step of a run of processPendingDeploymentsForSite keeps the types.
LEMMA RunType ==
    ASSUME TypeOK, NEW r \in Run, RunNext(r)
    PROVE  TypeOK'
  <1>1. CASE RunSelect(r)
    BY <1>1 DEF TypeOK, RunSelect
  <1>2. CASE RunSend(r)
    <2>1. runSite[r] \in Site
      BY DEF TypeOK
    <2>2. QED
      BY <1>2, <2>1, SendOrQueueType DEF TypeOK, RunSend
  <1>3. CASE RunUpdate(r)
    BY <1>3 DEF TypeOK, RunUpdate
  <1>4. CASE RunFails(r)
    BY <1>4, DeploymentAssumption DEF TypeOK, RunFails
  <1>5. QED
    BY <1>1, <1>2, <1>3, <1>4 DEF RunNext

\* Every step keeps the types.
LEMMA TypeStep ==
    ASSUME TypeOK, [Next]_vars
    PROVE  TypeOK'
  <1>1. CASE StartNext
    BY <1>1, StartType
  <1>2. ASSUME NEW r \in Run, RunNext(r)
        PROVE  TypeOK'
    BY <1>2, RunType
  <1>3. ASSUME NEW s \in Site, NEW r \in Run, Reconnect(s, r)
        PROVE  TypeOK'
    BY <1>3 DEF TypeOK, Reconnect
  <1>4. ASSUME NEW s \in Site, Disconnect(s)
        PROVE  TypeOK'
    <2>1. job' \in [Site \X Slot -> Phase]
      BY <1>4 DEF TypeOK, Disconnect, Lose, Phase
    <2>2. QED
      BY <1>4, <2>1 DEF TypeOK, Disconnect, DropConnection, KeepUnnamed
  <1>5. ASSUME NEW s \in Site, AgentRestart(s)
        PROVE  TypeOK'
    <2>1. job' \in [Site \X Slot -> Phase]
      BY <1>5 DEF TypeOK, AgentRestart, Phase
    <2>2. /\ waitsFor' \in [Site \X Slot -> Slot \cup {NoSlot}]
          /\ active' \in [Site -> Slot \cup {NoSlot}]
      BY <1>5 DEF TypeOK, AgentRestart
    <2>3. QED
      BY <1>5, <2>1, <2>2 DEF TypeOK, AgentRestart, DropConnection, KeepUnnamed
  <1>6. ASSUME NEW s \in Site, VariantUpdate(s)
        PROVE  TypeOK'
    <2>1. SendOrQueue(s, FALSE)
      BY <1>6 DEF VariantUpdate
    <2>2. variants' \in 0..MaxVariants
      BY <1>6, DeploymentAssumption DEF TypeOK, VariantUpdate
    <2>3. QED
      BY <1>6, <2>1, <2>2, SendOrQueueType DEF TypeOK, VariantUpdate
  <1>7. ASSUME NEW s \in Site, NEW j \in Slot,
               JobNext(s, j) \/ DropQueued(s, j) \/ ReportPartial(s, j) \/ DownloadBreaks(s, j)
        PROVE  TypeOK'
    BY <1>7, JobType
  <1>8. ASSUME NEW s \in Site, NEW m \in messages[s], HandleDeployProgress(s, m)
        PROVE  TypeOK'
    <2>1. m \in Message
      BY DEF TypeOK
    <2>2. Update(m) \in Write
      BY <2>1, UpdateType
    <2>3. QED
      BY <1>8, <2>2 DEF TypeOK, HandleDeployProgress
  <1>9. ASSUME NEW w \in writes, CommitWrite(w)
        PROVE  TypeOK'
    BY <1>9 DEF TypeOK, CommitWrite
  <1>10. ASSUME NEW w \in writes, LoseWrite(w)
         PROVE  TypeOK'
    BY <1>10, DeploymentAssumption DEF TypeOK, LoseWrite
  <1>11. CASE AutoComplete
    BY <1>11 DEF TypeOK, AutoComplete
  <1>12. CASE ServerRestart
    <2>1. job' \in [Site \X Slot -> Phase]
      BY <1>12 DEF TypeOK, ServerRestart, Phase
    <2>2. QED
      BY <1>12, <2>1 DEF TypeOK, ServerRestart, KeepUnnamed
  <1>13. CASE UNCHANGED vars
    BY <1>13 DEF TypeOK
  <1>14. QED
    BY <1>1, <1>2, <1>3, <1>4, <1>5, <1>6, <1>7, <1>8, <1>9, <1>10, <1>11, <1>12, <1>13 DEF Next

\* The types hold in every reachable state, for any sites, slots and runs.
THEOREM TypeCorrect == Spec => []TypeOK
  <1>1. Init => TypeOK
    <2>1. 0 \in 0..MaxVariants /\ 0 \in 0..MaxFailures
      BY DeploymentAssumption
    <2>2. SUFFICES ASSUME Init
                   PROVE  TypeOK
      OBVIOUS
    <2>3. full \in BOOLEAN /\ delivered \in BOOLEAN
      BY <2>2 DEF Init
    <2>4. job \in [Site \X Slot -> Phase]
      BY <2>2 DEF Init, Phase
    <2>5. QED
      BY <2>1, <2>2, <2>3, <2>4 DEF Init, TypeOK
  <1>2. TypeOK /\ [Next]_vars => TypeOK'
    BY TypeStep
  <1>3. QED
    BY <1>1, <1>2, PTL DEF Spec

-----------------------------------------------------------------------------
(* A completed deployment was fetched *)

\* A message whose update does not set the progress to 100.
Early(m) == m.kind = "partial" \/ (m.kind = "error" /\ m.named)

\* Before any download is nearly done, nothing on the way to the row, or in it,
\* says that one is: the strengthening of CompletedMeansFetched.
NothingFetched ==
    /\ status # "completed"
    /\ ~full
    /\ writes \subseteq {"partial", "failed"}
    /\ \A s \in Site : \A m \in messages[s] : Early(m)
    /\ \A x \in Site \X Slot : job[x] # "ending"

FetchedFirst == fetched = {} => NothingFetched

\* Sending or queueing a command keeps the part on messages and commands.
LEMMA SendOrQueueEarly ==
    ASSUME TypeOK, NothingFetched, NEW s \in Site, NEW named \in BOOLEAN, SendOrQueue(s, named)
    PROVE  /\ \A t \in Site : \A m \in messages'[t] : Early(m)
           /\ \A x \in Site \X Slot : job'[x] # "ending"
  <1>1. PICK j \in Slot :
            \/ job' = [job EXCEPT ![<<s, j>>] = "sent"] /\ UNCHANGED <<connected, messages>>
            \/ job' = [Lose(s, job) EXCEPT ![<<s, j>>] = "queued"] /\ DropConnection(s)
    BY DEF SendOrQueue
  <1>2. \A x \in Site \X Slot : job'[x] # "ending"
    BY <1>1 DEF TypeOK, NothingFetched, Lose
  <1>3. \A t \in Site : \A m \in messages'[t] : Early(m)
    BY <1>1 DEF TypeOK, NothingFetched, DropConnection
  <1>4. QED
    BY <1>2, <1>3

\* Emitting early messages leaves only early messages on the way.
LEMMA EmitEarly ==
    ASSUME TypeOK, NothingFetched, NEW s \in Site, NEW M, \A m \in M : Early(m), Emit(s, M)
    PROVE  \A t \in Site : \A m \in messages'[t] : Early(m)
  BY DEF TypeOK, NothingFetched, Emit

\* The update of an early message does not say that the video was fetched.
LEMMA UpdateEarly ==
    ASSUME NEW m \in Message, Early(m)
    PROVE  Update(m) \in {"partial", "failed"}
  BY DEF Update, Message, Early

\* A step of a command before anything was fetched.
LEMMA JobEarly ==
    ASSUME TypeOK, NothingFetched, fetched' = {}, NEW s \in Site, NEW j \in Slot,
           JobNext(s, j) \/ DropQueued(s, j) \/ ReportPartial(s, j) \/ DownloadBreaks(s, j)
    PROVE  NothingFetched'
  <1>1. CASE SendQueued(s, j)
    BY <1>1 DEF TypeOK, NothingFetched, SendQueued
  <1>2. CASE DropQueued(s, j)
    BY <1>2 DEF TypeOK, NothingFetched, DropQueued
  <1>9. CASE RefuseUnchecked(s, j)
    BY <1>9 DEF TypeOK, NothingFetched, RefuseUnchecked
  <1>3. CASE ReceiveCommand(s, j)
    BY <1>3 DEF TypeOK, NothingFetched, ReceiveCommand
  <1>4. CASE ReportPartial(s, j)
    <2>1. \A m \in {Report(s, j, "partial")} : Early(m)
      BY DEF Report, Early
    <2>2. \A t \in Site : \A m \in messages'[t] : Early(m)
      BY <1>4, <2>1, EmitEarly DEF ReportPartial
    <2>3. QED
      BY <1>4, <2>2 DEF NothingFetched, ReportPartial
  <1>5. CASE DownloadNearlyEnds(s, j)
    BY <1>5 DEF DownloadNearlyEnds
  <1>6. CASE DownloadBreaks(s, j)
    BY <1>6 DEF TypeOK, NothingFetched, DownloadBreaks
  <1>7. CASE DeploySucceeds(s, j)
    BY <1>7 DEF NothingFetched, DeploySucceeds
  <1>8. CASE DeployFails(s, j)
    <2> DEFINE M == IF <<s, j>> \in unnamed THEN {} ELSE {Report(s, j, "error")}
    <2>1. \A m \in M : Early(m)
      <3>1. CASE <<s, j>> \in unnamed
        BY <3>1
      <3>2. CASE <<s, j>> \notin unnamed
        <4>1. Report(s, j, "error").kind = "error" /\ Report(s, j, "error").named
          BY <3>2 DEF Report
        <4>2. QED
          BY <3>2, <4>1 DEF Early
      <3>3. QED
        BY <3>1, <3>2
    <2>2. Emit(s, M)
      BY <1>8 DEF DeployFails
    <2>3. \A t \in Site : \A m \in messages'[t] : Early(m)
      <3> HIDE DEF M
      <3> QED
        BY <2>1, <2>2, EmitEarly
    <2>4. \A x \in Site \X Slot : job'[x] # "ending"
      BY <1>8 DEF NothingFetched, DeployFails
    <2>5. QED
      BY <1>8, <2>3, <2>4 DEF NothingFetched, DeployFails
  <1>10. QED
    BY <1>1, <1>2, <1>3, <1>4, <1>5, <1>6, <1>7, <1>8, <1>9 DEF JobNext

\* A step of startDeployment before anything was fetched.
LEMMA StartEarly ==
    ASSUME TypeOK, NothingFetched, StartNext
    PROVE  NothingFetched'
  <1>1. CASE StartSelect
    BY <1>1 DEF NothingFetched, StartSelect
  <1>2. CASE StartEnds
    BY <1>2 DEF NothingFetched, StartEnds
  <1>3. CASE StartQueryFails
    BY <1>3 DEF NothingFetched, StartQueryFails
  <1>4. CASE FailDeployment
    BY <1>4 DEF NothingFetched, FailDeployment
  <1>5. CASE FailDeploymentFails
    BY <1>5 DEF NothingFetched, FailDeploymentFails
  <1>6. ASSUME NEW s \in Site, StartSend(s)
        PROVE  NothingFetched'
    <2>1. SendOrQueue(s, TRUE)
      BY <1>6 DEF StartSend
    <2>2. /\ \A t \in Site : \A m \in messages'[t] : Early(m)
          /\ \A x \in Site \X Slot : job'[x] # "ending"
      BY <2>1, SendOrQueueEarly
    <2>3. QED
      BY <1>6, <2>2 DEF NothingFetched, StartSend
  <1>7. ASSUME NEW s \in Site, StartSendFails(s)
        PROVE  NothingFetched'
    BY <1>7 DEF NothingFetched, StartSendFails
  <1>8. QED
    BY <1>1, <1>2, <1>3, <1>4, <1>5, <1>6, <1>7 DEF StartNext

\* A step of a run of processPendingDeploymentsForSite before that.
LEMMA RunEarly ==
    ASSUME TypeOK, NothingFetched, NEW r \in Run, RunNext(r)
    PROVE  NothingFetched'
  <1>1. CASE RunSelect(r)
    BY <1>1 DEF NothingFetched, RunSelect
  <1>2. CASE RunSend(r)
    <2>1. SendOrQueue(runSite[r], TRUE) /\ runSite[r] \in Site
      BY <1>2 DEF RunSend, TypeOK
    <2>2. /\ \A t \in Site : \A m \in messages'[t] : Early(m)
          /\ \A x \in Site \X Slot : job'[x] # "ending"
      BY <2>1, SendOrQueueEarly
    <2>3. QED
      BY <1>2, <2>2 DEF NothingFetched, RunSend
  <1>3. CASE RunUpdate(r)
    BY <1>3 DEF NothingFetched, RunUpdate
  <1>4. CASE RunFails(r)
    BY <1>4 DEF NothingFetched, RunFails
  <1>5. QED
    BY <1>1, <1>2, <1>3, <1>4 DEF RunNext

\* Every step that leaves nothing fetched keeps the strengthening.
LEMMA EarlyStep ==
    ASSUME TypeOK, NothingFetched, fetched' = {}, [Next]_vars
    PROVE  NothingFetched'
  <1>1. CASE StartNext
    BY <1>1, StartEarly
  <1>2. ASSUME NEW r \in Run, RunNext(r)
        PROVE  NothingFetched'
    BY <1>2, RunEarly
  <1>3. ASSUME NEW s \in Site, NEW r \in Run, Reconnect(s, r)
        PROVE  NothingFetched'
    BY <1>3 DEF NothingFetched, Reconnect
  <1>4. ASSUME NEW s \in Site, Disconnect(s)
        PROVE  NothingFetched'
    BY <1>4 DEF TypeOK, NothingFetched, Disconnect, Lose, DropConnection
  <1>5. ASSUME NEW s \in Site, AgentRestart(s)
        PROVE  NothingFetched'
    BY <1>5 DEF TypeOK, NothingFetched, AgentRestart, DropConnection
  <1>6. ASSUME NEW s \in Site, VariantUpdate(s)
        PROVE  NothingFetched'
    <2>1. SendOrQueue(s, FALSE)
      BY <1>6 DEF VariantUpdate
    <2>2. /\ \A t \in Site : \A m \in messages'[t] : Early(m)
          /\ \A x \in Site \X Slot : job'[x] # "ending"
      BY <2>1, SendOrQueueEarly
    <2>3. QED
      BY <1>6, <2>2 DEF NothingFetched, VariantUpdate
  <1>7. ASSUME NEW s \in Site, NEW j \in Slot,
               JobNext(s, j) \/ DropQueued(s, j) \/ ReportPartial(s, j) \/ DownloadBreaks(s, j)
        PROVE  NothingFetched'
    BY <1>7, JobEarly
  <1>8. ASSUME NEW s \in Site, NEW m \in messages[s], HandleDeployProgress(s, m)
        PROVE  NothingFetched'
    <2>1. m \in Message /\ Early(m)
      BY DEF TypeOK, NothingFetched
    <2>2. Update(m) \in {"partial", "failed"}
      BY <2>1, UpdateEarly
    <2>3. writes' \subseteq {"partial", "failed"}
      BY <1>8, <2>2 DEF NothingFetched, HandleDeployProgress
    <2>4. \A t \in Site : \A n \in messages'[t] : Early(n)
      BY <1>8 DEF TypeOK, NothingFetched, HandleDeployProgress
    <2>5. QED
      BY <1>8, <2>3, <2>4 DEF NothingFetched, HandleDeployProgress
  <1>9. ASSUME NEW w \in writes, CommitWrite(w)
        PROVE  NothingFetched'
    <2>1. w \in {"partial", "failed"}
      BY DEF NothingFetched
    <2>2. status' # "completed" /\ ~full'
      BY <1>9, <2>1 DEF NothingFetched, CommitWrite
    <2>3. QED
      BY <1>9, <2>2 DEF NothingFetched, CommitWrite
  <1>10. ASSUME NEW w \in writes, LoseWrite(w)
         PROVE  NothingFetched'
    BY <1>10 DEF NothingFetched, LoseWrite
  <1>11. CASE AutoComplete
    BY <1>11 DEF NothingFetched, AutoComplete, StuckAtFull
  <1>12. CASE ServerRestart
    BY <1>12 DEF NothingFetched, ServerRestart
  <1>13. CASE UNCHANGED vars
    BY <1>13 DEF NothingFetched
  <1>14. QED
    BY <1>1, <1>2, <1>3, <1>4, <1>5, <1>6, <1>7, <1>8, <1>9, <1>10, <1>11, <1>12, <1>13 DEF Next

\* What was fetched stays fetched.
LEMMA FetchedGrows ==
    ASSUME [Next]_vars
    PROVE  fetched \subseteq fetched'
  <1>1. CASE StartNext
    BY <1>1 DEF StartNext, StartSelect, StartEnds, StartQueryFails, FailDeployment,
                FailDeploymentFails, StartSend, StartSendFails
  <1>2. ASSUME NEW r \in Run, RunNext(r)
        PROVE  fetched \subseteq fetched'
    BY <1>2 DEF RunNext, RunSelect, RunSend, RunUpdate, RunFails
  <1>3. ASSUME NEW s \in Site,
               \/ \E r \in Run : Reconnect(s, r)
               \/ Disconnect(s) \/ AgentRestart(s) \/ VariantUpdate(s)
        PROVE  fetched \subseteq fetched'
    BY <1>3 DEF Reconnect, Disconnect, AgentRestart, VariantUpdate
  <1>4. ASSUME NEW s \in Site, NEW j \in Slot,
               JobNext(s, j) \/ DropQueued(s, j) \/ ReportPartial(s, j) \/ DownloadBreaks(s, j)
        PROVE  fetched \subseteq fetched'
    BY <1>4 DEF JobNext, SendQueued, ReceiveCommand, RefuseUnchecked, DownloadNearlyEnds, DeploySucceeds,
                DeployFails, DropQueued, ReportPartial, DownloadBreaks
  <1>5. ASSUME \/ \E s \in Site : \E m \in messages[s] : HandleDeployProgress(s, m)
               \/ \E w \in writes : CommitWrite(w) \/ LoseWrite(w)
               \/ AutoComplete \/ ServerRestart \/ UNCHANGED vars
        PROVE  fetched \subseteq fetched'
    BY <1>5 DEF HandleDeployProgress, CommitWrite, LoseWrite, AutoComplete, ServerRestart
  <1>6. QED
    BY <1>1, <1>2, <1>3, <1>4, <1>5 DEF Next

\* A deployment is completed only after a site of its target had the video, or
\* all but its last bytes: for any number of sites, commands, runs and failures.
THEOREM CompletedWasFetched == Spec => []CompletedMeansFetched
  <1>1. Init => FetchedFirst
    <2>1. SUFFICES ASSUME Init
                   PROVE  NothingFetched
      BY DEF FetchedFirst
    <2>2. ~full
      BY <2>1 DEF Init
    <2>3. \A s \in Site : \A m \in messages[s] : Early(m)
      BY <2>1 DEF Init
    <2>4. QED
      BY <2>1, <2>2, <2>3 DEF Init, NothingFetched
  <1>2. TypeOK /\ FetchedFirst /\ [Next]_vars => FetchedFirst'
    <2>1. SUFFICES ASSUME TypeOK, FetchedFirst, [Next]_vars, fetched' = {}
                   PROVE  NothingFetched'
      BY DEF FetchedFirst
    <2>2. fetched = {}
      BY <2>1, FetchedGrows
    <2>3. QED
      BY <2>1, <2>2, EarlyStep DEF FetchedFirst
  <1>3. FetchedFirst => CompletedMeansFetched
    BY DEF FetchedFirst, NothingFetched, CompletedMeansFetched
  <1>4. QED
    BY <1>1, <1>2, <1>3, TypeCorrect, PTL DEF Spec

-----------------------------------------------------------------------------
(* Nobody waits for a settled download *)

\* The entry of the map is a download that runs: the strengthening of
\* WaitersAttended, for the commands that will find the entry.
ActiveRuns == \A s \in Site : active[s] # NoSlot => job[s, active[s]] \in Running

Attended == WaitersAttended /\ ActiveRuns

\* A step keeps the invariant when running downloads run on, nobody starts to
\* wait, and the map and the promises waited for are the same.
LEMMA AttendedFrame ==
    ASSUME TypeOK, Attended, UNCHANGED <<waitsFor, active>>,
           \A x \in Site \X Slot : /\ job[x] \in Running => job'[x] \in Running
                                   /\ job'[x] = "waiting" => job[x] = "waiting"
    PROVE  Attended'
  BY DEF TypeOK, Attended, WaitersAttended, ActiveRuns

\* Sending or queueing a command is such a step.
LEMMA SendOrQueueAttended ==
    ASSUME TypeOK, Attended, NEW s \in Site, NEW named \in BOOLEAN, SendOrQueue(s, named)
    PROVE  Attended'
  <1>1. PICK j \in Slot :
            /\ job[s, j] = "free"
            /\ \/ job' = [job EXCEPT ![<<s, j>>] = "sent"]
               \/ job' = [Lose(s, job) EXCEPT ![<<s, j>>] = "queued"]
            /\ UNCHANGED <<waitsFor, active>>
    BY DEF SendOrQueue
  <1>2. \A x \in Site \X Slot : /\ job[x] \in Running => job'[x] \in Running
                                /\ job'[x] = "waiting" => job[x] = "waiting"
    BY <1>1 DEF TypeOK, Lose, Running
  <1>3. QED
    BY <1>1, <1>2, AttendedFrame

\* A received command waits for the running download of the map, or becomes it.
LEMMA ReceiveAttended ==
    ASSUME TypeOK, Attended, NEW s \in Site, NEW j \in Slot, ReceiveCommand(s, j)
    PROVE  Attended'
  <1>1. CASE active[s] = NoSlot
    <2>1. /\ job' = [job EXCEPT ![<<s, j>>] = "started"]
          /\ active' = [active EXCEPT ![s] = j]
          /\ waitsFor' = waitsFor
          /\ job[s, j] = "sent"
      BY <1>1 DEF ReceiveCommand
    <2>2. WaitersAttended'
      BY <2>1 DEF TypeOK, Attended, WaitersAttended, Running
    <2>3. ActiveRuns'
      BY <2>1 DEF TypeOK, Attended, ActiveRuns, Running
    <2>4. QED
      BY <2>2, <2>3 DEF Attended
  <1>2. CASE active[s] # NoSlot
    <2>1. /\ job' = [job EXCEPT ![<<s, j>>] = "waiting"]
          /\ waitsFor' = [waitsFor EXCEPT ![<<s, j>>] = active[s]]
          /\ active' = active
          /\ job[s, j] = "sent"
      BY <1>2 DEF ReceiveCommand
    <2>2. active[s] \in Slot /\ job[s, active[s]] \in Running
      BY <1>2 DEF TypeOK, Attended, ActiveRuns
    <2>3. WaitersAttended'
      BY <2>1, <2>2 DEF TypeOK, Attended, WaitersAttended, Running
    <2>4. ActiveRuns'
      BY <2>1 DEF TypeOK, Attended, ActiveRuns, Running
    <2>5. QED
      BY <2>3, <2>4 DEF Attended
  <1>3. QED
    BY <1>1, <1>2

\* A download that succeeds ends all who wait for it, and nobody else.
LEMMA SuccessAttended ==
    ASSUME TypeOK, Attended, NEW s \in Site, NEW j \in Slot, DeploySucceeds(s, j)
    PROVE  Attended'
  <1> DEFINE ended == {j} \cup WaitersFor(s, j)
  <1>1. /\ job[s, j] = "ending"
        /\ job' = [x \in Site \X Slot |-> IF x[1] = s /\ x[2] \in ended THEN "free" ELSE job[x]]
        /\ waitsFor' = [x \in Site \X Slot |-> IF x[1] = s /\ x[2] \in ended THEN NoSlot ELSE waitsFor[x]]
        /\ active' = [active EXCEPT ![s] = NoSlot]
    BY DEF DeploySucceeds
  <1>2. \A k \in Slot : k \in ended <=> k = j \/ (job[s, k] = "waiting" /\ waitsFor[s, k] = j)
    BY DEF WaitersFor
  <1>3. \A t \in Site, k \in Slot :
            /\ ~(t = s /\ k \in ended) => job'[t, k] = job[t, k] /\ waitsFor'[t, k] = waitsFor[t, k]
            /\ t = s /\ k \in ended => job'[t, k] = "free"
    <2> HIDE DEF ended
    <2> QED
      BY <1>1
  <1>4. WaitersAttended'
    <2>1. SUFFICES ASSUME NEW t \in Site, NEW k \in Slot, job'[t, k] = "waiting"
                   PROVE  waitsFor'[t, k] \in Slot /\ job'[t, waitsFor'[t, k]] \in Running
      BY DEF WaitersAttended
    <2>2. /\ ~(t = s /\ k \in ended)
          /\ job[t, k] = "waiting"
          /\ waitsFor'[t, k] = waitsFor[t, k]
      BY <1>3, <2>1
    <2>3. waitsFor[t, k] \in Slot /\ job[t, waitsFor[t, k]] \in Running
      BY <2>2 DEF Attended, WaitersAttended
    <2>4. ~(t = s /\ waitsFor[t, k] \in ended)
      BY <1>2, <2>2, <2>3 DEF Running
    <2>5. QED
      BY <1>3, <2>2, <2>3, <2>4
  <1>5. ActiveRuns'
    <2>1. SUFFICES ASSUME NEW t \in Site, active'[t] # NoSlot
                   PROVE  job'[t, active'[t]] \in Running
      BY DEF ActiveRuns
    <2>2. t # s /\ active'[t] = active[t] /\ active[t] \in Slot
      BY <1>1, <2>1 DEF TypeOK
    <2>3. QED
      BY <1>3, <2>1, <2>2 DEF Attended, ActiveRuns
  <1>6. QED
    BY <1>4, <1>5 DEF Attended

\* A download that fails sets going all who wait for it, and the entry of the
\* map, if there is one afterwards, is one of them.
LEMMA FailureAttended ==
    ASSUME TypeOK, Attended, NEW s \in Site, NEW j \in Slot, DeployFails(s, j)
    PROVE  Attended'
  <1> DEFINE waiters == WaitersFor(s, j)
  <1>1. PICK last \in IF waiters = {} THEN {NoSlot} ELSE waiters :
            active' = [active EXCEPT ![s] = last]
    BY DEF DeployFails
  <1>2. /\ job[s, j] \in {"started", "ending"}
        /\ job' = [x \in Site \X Slot |->
                     IF x = <<s, j>> THEN "free"
                     ELSE IF x[1] = s /\ x[2] \in waiters THEN "started" ELSE job[x]]
        /\ waitsFor' = [x \in Site \X Slot |-> IF x[1] = s /\ x[2] \in waiters THEN NoSlot ELSE waitsFor[x]]
    BY DEF DeployFails
  <1>3. \A k \in Slot : k \in waiters <=> job[s, k] = "waiting" /\ waitsFor[s, k] = j
    BY DEF WaitersFor
  <1>4. j \notin waiters /\ waiters \subseteq Slot
    BY <1>2 DEF WaitersFor
  <1>5. \A t \in Site, k \in Slot :
            /\ t = s /\ k = j => job'[t, k] = "free"
            /\ t = s /\ k \in waiters => job'[t, k] = "started"
            /\ ~(t = s /\ k \in waiters) => waitsFor'[t, k] = waitsFor[t, k]
            /\ ~(t = s /\ k \in waiters) /\ ~(t = s /\ k = j) => job'[t, k] = job[t, k]
    <2> HIDE DEF waiters
    <2> QED
      BY <1>2, <1>4
  <1>6. WaitersAttended'
    <2>1. SUFFICES ASSUME NEW t \in Site, NEW k \in Slot, job'[t, k] = "waiting"
                   PROVE  waitsFor'[t, k] \in Slot /\ job'[t, waitsFor'[t, k]] \in Running
      BY DEF WaitersAttended
    <2>2. /\ ~(t = s /\ k \in waiters)
          /\ ~(t = s /\ k = j)
          /\ job[t, k] = "waiting"
          /\ waitsFor'[t, k] = waitsFor[t, k]
      BY <1>5, <2>1
    <2>3. waitsFor[t, k] \in Slot /\ job[t, waitsFor[t, k]] \in Running
      BY <2>2 DEF Attended, WaitersAttended
    <2>4. /\ ~(t = s /\ waitsFor[t, k] = j)
          /\ ~(t = s /\ waitsFor[t, k] \in waiters)
      BY <1>3, <2>2, <2>3 DEF Running
    <2>5. QED
      BY <1>5, <2>2, <2>3, <2>4
  <1>7. ActiveRuns'
    <2>1. SUFFICES ASSUME NEW t \in Site, active'[t] # NoSlot
                   PROVE  job'[t, active'[t]] \in Running
      BY DEF ActiveRuns
    <2>2. CASE t = s
      <3>1. active'[t] = last
        BY <1>1, <2>2 DEF TypeOK
      <3>2. last \in waiters /\ last \in Slot
        BY <1>1, <1>4, <2>1, <3>1
      <3>3. QED
        BY <1>5, <2>2, <3>1, <3>2 DEF Running
    <2>3. CASE t # s
      <3>1. active'[t] = active[t] /\ active[t] \in Slot
        BY <1>1, <2>1, <2>3 DEF TypeOK
      <3>2. job[t, active[t]] \in Running
        BY <2>1, <3>1 DEF Attended, ActiveRuns
      <3>3. job'[t, active[t]] = job[t, active[t]]
        <4> HIDE DEF waiters
        <4> QED
          BY <1>5, <2>3, <3>1
      <3>4. QED
        BY <3>1, <3>2, <3>3
    <2>4. QED
      BY <2>2, <2>3
  <1>8. QED
    BY <1>6, <1>7 DEF Attended

\* Every step keeps the invariant.
LEMMA AttendedStep ==
    ASSUME TypeOK, Attended, [Next]_vars
    PROVE  Attended'
  <1>1. ASSUME UNCHANGED <<job, waitsFor, active>>
        PROVE  Attended'
    BY <1>1, AttendedFrame
  <1>2. CASE StartNext
    <2>1. CASE \E s \in Site : StartSend(s)
      BY <2>1, SendOrQueueAttended DEF StartSend
    <2>2. CASE ~ \E s \in Site : StartSend(s)
      BY <1>1, <1>2, <2>2 DEF StartNext, StartSelect, StartEnds, StartQueryFails, FailDeployment,
                              FailDeploymentFails, StartSendFails
    <2>3. QED
      BY <2>1, <2>2
  <1>3. ASSUME NEW r \in Run, RunNext(r)
        PROVE  Attended'
    <2>1. CASE RunSend(r)
      <3>1. SendOrQueue(runSite[r], TRUE) /\ runSite[r] \in Site
        BY <2>1 DEF RunSend, TypeOK
      <3>2. QED
        BY <3>1, SendOrQueueAttended
    <2>2. CASE ~RunSend(r)
      BY <1>1, <1>3, <2>2 DEF RunNext, RunSelect, RunUpdate, RunFails
    <2>3. QED
      BY <2>1, <2>2
  <1>4. ASSUME NEW s \in Site, NEW r \in Run, Reconnect(s, r)
        PROVE  Attended'
    BY <1>1, <1>4 DEF Reconnect
  <1>5. ASSUME NEW s \in Site, Disconnect(s)
        PROVE  Attended'
    <2>1. \A x \in Site \X Slot : /\ job[x] \in Running => job'[x] \in Running
                                  /\ job'[x] = "waiting" => job[x] = "waiting"
      BY <1>5 DEF TypeOK, Disconnect, Lose, Running
    <2>2. QED
      BY <1>5, <2>1, AttendedFrame DEF Disconnect
  <1>6. ASSUME NEW s \in Site, AgentRestart(s)
        PROVE  Attended'
    <2>1. \A t \in Site, k \in Slot :
              /\ t = s => job'[t, k] # "waiting"
              /\ t # s => job'[t, k] = job[t, k] /\ waitsFor'[t, k] = waitsFor[t, k]
      BY <1>6 DEF TypeOK, AgentRestart
    <2>2. WaitersAttended'
      <3>1. SUFFICES ASSUME NEW t \in Site, NEW k \in Slot, job'[t, k] = "waiting"
                     PROVE  waitsFor'[t, k] \in Slot /\ job'[t, waitsFor'[t, k]] \in Running
        BY DEF WaitersAttended
      <3>2. t # s /\ job[t, k] = "waiting" /\ waitsFor'[t, k] = waitsFor[t, k]
        BY <2>1, <3>1
      <3>3. waitsFor[t, k] \in Slot /\ job[t, waitsFor[t, k]] \in Running
        BY <3>2 DEF Attended, WaitersAttended
      <3>4. job'[t, waitsFor[t, k]] = job[t, waitsFor[t, k]]
        BY <2>1, <3>2, <3>3
      <3>5. QED
        BY <3>2, <3>3, <3>4
    <2>3. ActiveRuns'
      <3>1. SUFFICES ASSUME NEW t \in Site, active'[t] # NoSlot
                     PROVE  job'[t, active'[t]] \in Running
        BY DEF ActiveRuns
      <3>2. t # s /\ active'[t] = active[t] /\ active[t] \in Slot
        BY <1>6, <3>1 DEF TypeOK, AgentRestart
      <3>3. job'[t, active[t]] = job[t, active[t]]
        BY <2>1, <3>2
      <3>4. QED
        BY <3>1, <3>2, <3>3 DEF Attended, ActiveRuns
    <2>4. QED
      BY <2>2, <2>3 DEF Attended
  <1>7. ASSUME NEW s \in Site, VariantUpdate(s)
        PROVE  Attended'
    <2>1. SendOrQueue(s, FALSE)
      BY <1>7 DEF VariantUpdate
    <2>2. QED
      BY <2>1, SendOrQueueAttended
  <1>8. ASSUME NEW s \in Site, NEW j \in Slot,
               \/ SendQueued(s, j) \/ DropQueued(s, j) \/ ReportPartial(s, j)
               \/ DownloadNearlyEnds(s, j) \/ DownloadBreaks(s, j) \/ RefuseUnchecked(s, j)
        PROVE  Attended'
    <2>1. \A x \in Site \X Slot : /\ job[x] \in Running => job'[x] \in Running
                                  /\ job'[x] = "waiting" => job[x] = "waiting"
      BY <1>8 DEF TypeOK, SendQueued, DropQueued, ReportPartial, DownloadNearlyEnds,
                  DownloadBreaks, RefuseUnchecked, Running
    <2>2. UNCHANGED <<waitsFor, active>>
      BY <1>8 DEF SendQueued, DropQueued, ReportPartial, DownloadNearlyEnds, DownloadBreaks,
                  RefuseUnchecked
    <2>3. QED
      BY <2>1, <2>2, AttendedFrame
  <1>9. ASSUME NEW s \in Site, NEW j \in Slot,
               ReceiveCommand(s, j) \/ DeploySucceeds(s, j) \/ DeployFails(s, j)
        PROVE  Attended'
    BY <1>9, ReceiveAttended, SuccessAttended, FailureAttended
  <1>10. ASSUME NEW s \in Site, NEW m \in messages[s], HandleDeployProgress(s, m)
         PROVE  Attended'
    BY <1>1, <1>10 DEF HandleDeployProgress
  <1>11. ASSUME NEW w \in writes, CommitWrite(w) \/ LoseWrite(w)
         PROVE  Attended'
    BY <1>1, <1>11 DEF CommitWrite, LoseWrite
  <1>12. CASE ServerRestart
    <2>1. \A x \in Site \X Slot : /\ job[x] \in Running => job'[x] \in Running
                                  /\ job'[x] = "waiting" => job[x] = "waiting"
      BY <1>12 DEF TypeOK, ServerRestart, Running
    <2>2. QED
      BY <1>12, <2>1, AttendedFrame DEF ServerRestart
  <1>13. CASE AutoComplete \/ UNCHANGED vars
    BY <1>1, <1>13 DEF AutoComplete
  <1>14. QED
    BY <1>2, <1>3, <1>4, <1>5, <1>6, <1>7, <1>8, <1>9, <1>10, <1>11, <1>12, <1>13 DEF Next, JobNext

\* Whoever waits waits for a download that runs, for any number of sites and
\* commands, and whatever is lost, restarted or rejected.
THEOREM WaitersAreAttended == Spec => []WaitersAttended
  <1>1. Init => Attended
    BY DEF Init, Attended, WaitersAttended, ActiveRuns
  <1>2. TypeOK /\ Attended /\ [Next]_vars => Attended'
    BY AttendedStep
  <1>3. Attended => WaitersAttended
    BY DEF Attended
  <1>4. QED
    BY <1>1, <1>2, <1>3, TypeCorrect, PTL DEF Spec
=============================================================================
