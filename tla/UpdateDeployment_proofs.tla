----------------------- MODULE UpdateDeployment_proofs -----------------------
(***************************************************************************)
(* Proofs about UpdateDeployment: its types, that no deployment is         *)
(* completed that the Pi never began, and that it uses the Pi as PiUpdate  *)
(* allows, for any number of commands on their way, retries, failed        *)
(* queries and restarts.                                                   *)
(***************************************************************************)
EXTENDS UpdateDeployment, TLAPS

\* Everything that can make a deployment completed comes after a beginning.
BegunFirst ==
    /\ \A r \in Slot : running[r] # NoVersion => begun
    /\ lock => begun
    /\ release = Target => begun
    /\ heartbeat = Target => begun
    /\ siteVersion = Target => begun
    /\ pender = "reconcile" => begun
    /\ "completed" \in reports => begun
    /\ CompletedMeansBegun

\* The parts of TypeOK on the server's side.
RowType == status \in {"pending", "in_progress", "completed", "failed"} /\ fresh \in BOOLEAN

RunnerType ==
    /\ starter \in {"idle", "send", "update"}
    /\ pender \in {"idle", "drain", "select", "reconcile", "send", "update"}

CommandType == queued \in 0..MaxCommands /\ wire \in 0..MaxCommands

LinkType ==
    /\ reports \subseteq Kind
    /\ heartbeat \in Version \cup {NoVersion}
    /\ siteVersion \in Version

LimitType == retries \in 0..MaxTries /\ failures \in 0..MaxTries

FlagType == connected \in BOOLEAN /\ recent \in BOOLEAN

LEMMA TypeParts == TypeOK <=> PiTypeOK /\ RowType /\ RunnerType /\ CommandType /\ LinkType /\ LimitType /\ FlagType
  BY DEF TypeOK, RowType, RunnerType, CommandType, LinkType, LimitType, FlagType

LEMMA TypePartsNext ==
    PiTypeOK' /\ RowType' /\ RunnerType' /\ CommandType' /\ LinkType' /\ LimitType' /\ FlagType' => TypeOK'
  BY DEF TypeOK, RowType, RunnerType, CommandType, LinkType, LimitType, FlagType

\* The bounds are numbers, and the target is a release other than the first.
LEMMA Numbers == MaxCommands \in Nat /\ MaxTries \in Nat
  BY DeploymentAssumption

LEMMA Targets == Target \in Offered /\ Target \in Version /\ Target # Installed /\ NoVersion \notin Version
  BY DeploymentAssumption, PiAssumption

-----------------------------------------------------------------------------
(* The Pi *)

\* The steps of the Pi in a deployment of Target.
PiStep ==
    \/ \E r \in Slot : Accept(r, Target) \/ Claim(r) \/ Publishes(r) \/ Ends(r)
    \/ Dies \/ LockOld \/ Revive

\* The steps of the Pi keep its types.
LEMMA PiStepType == ASSUME PiTypeOK, PiStep PROVE PiTypeOK'
<1>1. ASSUME NEW r \in Slot, Accept(r, Target) PROVE PiTypeOK'
  BY <1>1, Targets DEF Accept, PiTypeOK
<1>2. ASSUME NEW r \in Slot, Claim(r) \/ Publishes(r) PROVE PiTypeOK'
  BY <1>2, PiAssumption DEF Claim, Publishes, PiTypeOK
<1>3. ASSUME NEW r \in Slot, Ends(r) PROVE PiTypeOK'
  BY <1>3 DEF Ends, PiTypeOK
<1>4. CASE Dies \/ LockOld \/ Revive
  BY <1>4 DEF Dies, LockOld, Revive, NoRuns, PiTypeOK
<1> QED BY <1>1, <1>2, <1>3, <1>4 DEF PiStep

\* What they keep of BegunFirst; nothing undoes a beginning.
LEMMA PiStepKeeps ==
    ASSUME PiTypeOK, BegunFirst, PiStep
    PROVE  /\ begun => begun'
           /\ \A r \in Slot : running'[r] # NoVersion => begun'
           /\ lock' => begun'
           /\ release' = Target => begun'
<1>1. ASSUME NEW r \in Slot, Accept(r, Target) PROVE begun'
  BY <1>1 DEF Accept
<1>2. ASSUME NEW r \in Slot, Claim(r) \/ Publishes(r) PROVE begun'
  BY <1>2 DEF Claim, Publishes, BegunFirst
<1>3. ASSUME NEW r \in Slot, Ends(r) PROVE begun'
  BY <1>3 DEF Ends, BegunFirst
<1>4. CASE Dies
  <2>1. lock' => lock
    BY <1>4, Zenon DEF Dies
  <2>2. running' = NoRuns /\ begun' = begun /\ release' = release
    BY <1>4 DEF Dies
  <2> QED BY <2>1, <2>2 DEF BegunFirst, NoRuns
<1>5. CASE LockOld \/ Revive
  BY <1>5 DEF LockOld, Revive, BegunFirst
<1> QED BY <1>1, <1>2, <1>3, <1>4, <1>5 DEF PiStep

-----------------------------------------------------------------------------
(* Types *)

LEMMA InitType == Init => TypeOK
<1> SUFFICES ASSUME Init PROVE TypeOK
  OBVIOUS
<1>1. PiTypeOK
  BY PiAssumption DEF Init, PiInit, NoRuns, PiTypeOK
<1>2. RowType /\ RunnerType
  BY DEF Init, RowType, RunnerType
<1>3. CommandType /\ LimitType
  BY Numbers DEF Init, CommandType, LimitType
<1>4. LinkType
  BY PiAssumption DEF Init, LinkType
<1>5. FlagType
  BY DEF Init, FlagType
<1> QED BY <1>1, <1>2, <1>3, <1>4, <1>5, TypeParts

\* A command more or less stays within the bound.
LEMMA SendType ==
    ASSUME CommandType, FlagType, SendOrQueue
    PROVE  CommandType' /\ recent' \in BOOLEAN
<1>1. CommandType'
  BY Numbers DEF CommandType, SendOrQueue, OneMore
<1>2. recent' \in BOOLEAN
  BY DEF FlagType, SendOrQueue
<1> QED BY <1>1, <1>2

LEMMA BecameType ==
    ASSUME NEW r \in {"pending", "in_progress", "completed", "failed"}, Became(r)
    PROVE  RowType'
  BY DEF Became, RowType

LEMMA TypeStep == ASSUME TypeOK, Next PROVE TypeOK'
<1>1. PiTypeOK /\ RowType /\ RunnerType /\ CommandType /\ LinkType /\ LimitType /\ FlagType
  BY TypeParts
<1>2. CASE StartSend
  <2>1. PiTypeOK'
    BY <1>1, <1>2 DEF PiTypeOK, StartSend, piVars, rowVars, linkVars, limitVars
  <2>2. RowType'
    BY <1>1, <1>2 DEF RowType, StartSend, piVars, rowVars, linkVars, limitVars
  <2>3. RunnerType'
    BY <1>1, <1>2 DEF RunnerType, StartSend, piVars, rowVars, linkVars, limitVars
  <2>4. CommandType'
    BY <1>1, <1>2, SendType DEF CommandType, StartSend, piVars, rowVars, linkVars, limitVars
  <2>5. LinkType'
    BY <1>1, <1>2 DEF LinkType, StartSend, piVars, rowVars, linkVars, limitVars
  <2>6. LimitType'
    BY <1>1, <1>2 DEF LimitType, StartSend, piVars, rowVars, linkVars, limitVars
  <2>7. FlagType'
    BY <1>1, <1>2, SendType DEF FlagType, StartSend, piVars, rowVars, linkVars, limitVars
  <2> QED BY <2>1, <2>2, <2>3, <2>4, <2>5, <2>6, <2>7, TypePartsNext
<1>3. CASE StartUpdate
  <2>1. PiTypeOK'
    BY <1>1, <1>3 DEF PiTypeOK, StartUpdate, piVars, commandVars, linkVars, limitVars
  <2>2. RowType'
    BY <1>1, <1>3, BecameType DEF RowType, StartUpdate, piVars, commandVars, linkVars, limitVars
  <2>3. RunnerType'
    BY <1>1, <1>3 DEF RunnerType, StartUpdate, piVars, commandVars, linkVars, limitVars
  <2>4. CommandType'
    BY <1>1, <1>3 DEF CommandType, StartUpdate, piVars, commandVars, linkVars, limitVars
  <2>5. LinkType'
    BY <1>1, <1>3 DEF LinkType, StartUpdate, piVars, commandVars, linkVars, limitVars
  <2>6. LimitType'
    BY <1>1, <1>3 DEF LimitType, StartUpdate, piVars, commandVars, linkVars, limitVars
  <2>7. FlagType'
    BY <1>1, <1>3 DEF FlagType, StartUpdate, piVars, commandVars, linkVars, limitVars
  <2> QED BY <2>1, <2>2, <2>3, <2>4, <2>5, <2>6, <2>7, TypePartsNext
<1>4. CASE StartRefused
  <2>1. PiTypeOK'
    BY <1>1, <1>4 DEF PiTypeOK, StartRefused, StartFails, piVars, commandVars, linkVars
  <2>2. RowType'
    BY <1>1, <1>4, BecameType DEF RowType, StartRefused, StartFails, piVars, commandVars, linkVars
  <2>3. RunnerType'
    BY <1>1, <1>4 DEF RunnerType, StartRefused, StartFails, piVars, commandVars, linkVars
  <2>4. CommandType'
    BY <1>1, <1>4 DEF CommandType, StartRefused, StartFails, piVars, commandVars, linkVars
  <2>5. LinkType'
    BY <1>1, <1>4 DEF LinkType, StartRefused, StartFails, piVars, commandVars, linkVars
  <2>6. LimitType'
    BY <1>1, <1>4 DEF LimitType, StartRefused, StartFails, piVars, commandVars, linkVars
  <2>7. FlagType'
    BY <1>1, <1>4 DEF FlagType, StartRefused, StartFails, piVars, commandVars, linkVars
  <2> QED BY <2>1, <2>2, <2>3, <2>4, <2>5, <2>6, <2>7, TypePartsNext
<1>5. CASE StartQueryFails
  <2>1. PiTypeOK'
    BY <1>1, <1>5 DEF PiTypeOK, StartQueryFails, StartFails, piVars, commandVars, linkVars
  <2>2. RowType'
    BY <1>1, <1>5, BecameType DEF RowType, StartQueryFails, StartFails, piVars, commandVars, linkVars
  <2>3. RunnerType'
    BY <1>1, <1>5 DEF RunnerType, StartQueryFails, StartFails, piVars, commandVars, linkVars
  <2>4. CommandType'
    BY <1>1, <1>5 DEF CommandType, StartQueryFails, StartFails, piVars, commandVars, linkVars
  <2>5. LinkType'
    BY <1>1, <1>5 DEF LinkType, StartQueryFails, StartFails, piVars, commandVars, linkVars
  <2>6. LimitType'
    BY <1>1, <1>5, Numbers DEF LimitType, StartQueryFails, StartFails, piVars, commandVars, linkVars
  <2>7. FlagType'
    BY <1>1, <1>5 DEF FlagType, StartQueryFails, StartFails, piVars, commandVars, linkVars
  <2> QED BY <2>1, <2>2, <2>3, <2>4, <2>5, <2>6, <2>7, TypePartsNext
<1>6. CASE Retry
  <2>1. PiTypeOK'
    BY <1>1, <1>6 DEF PiTypeOK, Retry, piVars, commandVars, linkVars
  <2>2. RowType'
    BY <1>1, <1>6 DEF RowType, Retry, piVars, commandVars, linkVars
  <2>3. RunnerType'
    BY <1>1, <1>6 DEF RunnerType, Retry, piVars, commandVars, linkVars
  <2>4. CommandType'
    BY <1>1, <1>6 DEF CommandType, Retry, piVars, commandVars, linkVars
  <2>5. LinkType'
    BY <1>1, <1>6 DEF LinkType, Retry, piVars, commandVars, linkVars
  <2>6. LimitType'
    BY <1>1, <1>6, Numbers DEF LimitType, Retry, piVars, commandVars, linkVars
  <2>7. FlagType'
    BY <1>1, <1>6 DEF FlagType, Retry, piVars, commandVars, linkVars
  <2> QED BY <2>1, <2>2, <2>3, <2>4, <2>5, <2>6, <2>7, TypePartsNext
<1>7. CASE Drain
  <2>1. PiTypeOK'
    BY <1>1, <1>7 DEF PiTypeOK, Drain, piVars, rowVars, commandVars, linkVars, limitVars
  <2>2. RowType'
    BY <1>1, <1>7 DEF RowType, Drain, piVars, rowVars, commandVars, linkVars, limitVars
  <2>3. RunnerType'
    BY <1>1, <1>7 DEF RunnerType, Drain, piVars, rowVars, commandVars, linkVars, limitVars
  <2>4. CommandType'
    BY <1>1, <1>7, Numbers DEF CommandType, Drain, OneMore, piVars, rowVars, commandVars, linkVars, limitVars
  <2>5. LinkType'
    BY <1>1, <1>7 DEF LinkType, Drain, piVars, rowVars, commandVars, linkVars, limitVars
  <2>6. LimitType'
    BY <1>1, <1>7 DEF LimitType, Drain, piVars, rowVars, commandVars, linkVars, limitVars
  <2>7. FlagType'
    BY <1>1, <1>7 DEF FlagType, Drain, piVars, rowVars, commandVars, linkVars, limitVars
  <2> QED BY <2>1, <2>2, <2>3, <2>4, <2>5, <2>6, <2>7, TypePartsNext
<1>8. CASE PendSelect
  <2>1. PiTypeOK'
    BY <1>1, <1>8 DEF PiTypeOK, PendSelect, piVars, rowVars, commandVars, linkVars, limitVars
  <2>2. RowType'
    BY <1>1, <1>8 DEF RowType, PendSelect, piVars, rowVars, commandVars, linkVars, limitVars
  <2>3. RunnerType'
    BY <1>1, <1>8 DEF RunnerType, PendSelect, piVars, rowVars, commandVars, linkVars, limitVars
  <2>4. CommandType'
    BY <1>1, <1>8 DEF CommandType, PendSelect, piVars, rowVars, commandVars, linkVars, limitVars
  <2>5. LinkType'
    BY <1>1, <1>8 DEF LinkType, PendSelect, piVars, rowVars, commandVars, linkVars, limitVars
  <2>6. LimitType'
    BY <1>1, <1>8 DEF LimitType, PendSelect, piVars, rowVars, commandVars, linkVars, limitVars
  <2>7. FlagType'
    BY <1>1, <1>8 DEF FlagType, PendSelect, piVars, rowVars, commandVars, linkVars, limitVars
  <2> QED BY <2>1, <2>2, <2>3, <2>4, <2>5, <2>6, <2>7, TypePartsNext
<1>9. CASE Reconcile
  <2>1. PiTypeOK'
    BY <1>1, <1>9 DEF PiTypeOK, Reconcile, piVars, commandVars, linkVars, limitVars
  <2>2. RowType'
    BY <1>1, <1>9, BecameType DEF RowType, Reconcile, piVars, commandVars, linkVars, limitVars
  <2>3. RunnerType'
    BY <1>1, <1>9 DEF RunnerType, Reconcile, piVars, commandVars, linkVars, limitVars
  <2>4. CommandType'
    BY <1>1, <1>9 DEF CommandType, Reconcile, piVars, commandVars, linkVars, limitVars
  <2>5. LinkType'
    BY <1>1, <1>9 DEF LinkType, Reconcile, piVars, commandVars, linkVars, limitVars
  <2>6. LimitType'
    BY <1>1, <1>9 DEF LimitType, Reconcile, piVars, commandVars, linkVars, limitVars
  <2>7. FlagType'
    BY <1>1, <1>9 DEF FlagType, Reconcile, piVars, commandVars, linkVars, limitVars
  <2> QED BY <2>1, <2>2, <2>3, <2>4, <2>5, <2>6, <2>7, TypePartsNext
<1>10. CASE PendSend
  <2>1. PiTypeOK'
    BY <1>1, <1>10 DEF PiTypeOK, PendSend, piVars, rowVars, linkVars, limitVars
  <2>2. RowType'
    BY <1>1, <1>10 DEF RowType, PendSend, piVars, rowVars, linkVars, limitVars
  <2>3. RunnerType'
    BY <1>1, <1>10 DEF RunnerType, PendSend, piVars, rowVars, linkVars, limitVars
  <2>4. CommandType'
    BY <1>1, <1>10, SendType DEF CommandType, PendSend, piVars, rowVars, linkVars, limitVars
  <2>5. LinkType'
    BY <1>1, <1>10 DEF LinkType, PendSend, piVars, rowVars, linkVars, limitVars
  <2>6. LimitType'
    BY <1>1, <1>10 DEF LimitType, PendSend, piVars, rowVars, linkVars, limitVars
  <2>7. FlagType'
    BY <1>1, <1>10, SendType DEF FlagType, PendSend, piVars, rowVars, linkVars, limitVars
  <2> QED BY <2>1, <2>2, <2>3, <2>4, <2>5, <2>6, <2>7, TypePartsNext
<1>11. CASE PendUpdate
  <2>1. PiTypeOK'
    BY <1>1, <1>11 DEF PiTypeOK, PendUpdate, piVars, commandVars, linkVars, limitVars
  <2>2. RowType'
    BY <1>1, <1>11 DEF RowType, PendUpdate, piVars, commandVars, linkVars, limitVars
  <2>3. RunnerType'
    BY <1>1, <1>11 DEF RunnerType, PendUpdate, piVars, commandVars, linkVars, limitVars
  <2>4. CommandType'
    BY <1>1, <1>11 DEF CommandType, PendUpdate, piVars, commandVars, linkVars, limitVars
  <2>5. LinkType'
    BY <1>1, <1>11 DEF LinkType, PendUpdate, piVars, commandVars, linkVars, limitVars
  <2>6. LimitType'
    BY <1>1, <1>11 DEF LimitType, PendUpdate, piVars, commandVars, linkVars, limitVars
  <2>7. FlagType'
    BY <1>1, <1>11 DEF FlagType, PendUpdate, piVars, commandVars, linkVars, limitVars
  <2> QED BY <2>1, <2>2, <2>3, <2>4, <2>5, <2>6, <2>7, TypePartsNext
<1>12. CASE PendFails
  <2>1. PiTypeOK'
    BY <1>1, <1>12 DEF PiTypeOK, PendFails, piVars, rowVars, commandVars, linkVars
  <2>2. RowType'
    BY <1>1, <1>12 DEF RowType, PendFails, piVars, rowVars, commandVars, linkVars
  <2>3. RunnerType'
    BY <1>1, <1>12 DEF RunnerType, PendFails, piVars, rowVars, commandVars, linkVars
  <2>4. CommandType'
    BY <1>1, <1>12 DEF CommandType, PendFails, piVars, rowVars, commandVars, linkVars
  <2>5. LinkType'
    BY <1>1, <1>12 DEF LinkType, PendFails, piVars, rowVars, commandVars, linkVars
  <2>6. LimitType'
    BY <1>1, <1>12, Numbers DEF LimitType, PendFails, piVars, rowVars, commandVars, linkVars
  <2>7. FlagType'
    BY <1>1, <1>12 DEF FlagType, PendFails, piVars, rowVars, commandVars, linkVars
  <2> QED BY <2>1, <2>2, <2>3, <2>4, <2>5, <2>6, <2>7, TypePartsNext
<1>13. CASE RecentExpires
  <2>1. PiTypeOK'
    BY <1>1, <1>13 DEF PiTypeOK, RecentExpires, piVars, rowVars, runnerVars, linkVars, limitVars
  <2>2. RowType'
    BY <1>1, <1>13 DEF RowType, RecentExpires, piVars, rowVars, runnerVars, linkVars, limitVars
  <2>3. RunnerType'
    BY <1>1, <1>13 DEF RunnerType, RecentExpires, piVars, rowVars, runnerVars, linkVars, limitVars
  <2>4. CommandType'
    BY <1>1, <1>13 DEF CommandType, RecentExpires, piVars, rowVars, runnerVars, linkVars, limitVars
  <2>5. LinkType'
    BY <1>1, <1>13 DEF LinkType, RecentExpires, piVars, rowVars, runnerVars, linkVars, limitVars
  <2>6. LimitType'
    BY <1>1, <1>13 DEF LimitType, RecentExpires, piVars, rowVars, runnerVars, linkVars, limitVars
  <2>7. FlagType'
    BY <1>1, <1>13 DEF FlagType, RecentExpires, piVars, rowVars, runnerVars, linkVars, limitVars
  <2> QED BY <2>1, <2>2, <2>3, <2>4, <2>5, <2>6, <2>7, TypePartsNext
<1>14. CASE ServerRestarts
  <2>1. PiTypeOK'
    BY <1>1, <1>14 DEF PiTypeOK, ServerRestarts, piVars, rowVars
  <2>2. RowType'
    BY <1>1, <1>14 DEF RowType, ServerRestarts, piVars, rowVars
  <2>3. RunnerType'
    BY <1>1, <1>14 DEF RunnerType, ServerRestarts, piVars, rowVars
  <2>4. CommandType'
    BY <1>1, <1>14, Numbers DEF CommandType, ServerRestarts, piVars, rowVars
  <2>5. LinkType'
    BY <1>1, <1>14 DEF LinkType, ServerRestarts, piVars, rowVars
  <2>6. LimitType'
    BY <1>1, <1>14, Numbers DEF LimitType, ServerRestarts, piVars, rowVars
  <2>7. FlagType'
    BY <1>1, <1>14 DEF FlagType, ServerRestarts, piVars, rowVars
  <2> QED BY <2>1, <2>2, <2>3, <2>4, <2>5, <2>6, <2>7, TypePartsNext
<1>15. CASE Connect
  <2>1. PiTypeOK'
    BY <1>1, <1>15 DEF PiTypeOK, Connect, piVars, rowVars, commandVars, limitVars
  <2>2. RowType'
    BY <1>1, <1>15 DEF RowType, Connect, piVars, rowVars, commandVars, limitVars
  <2>3. RunnerType'
    BY <1>1, <1>15 DEF RunnerType, Connect, piVars, rowVars, commandVars, limitVars
  <2>4. CommandType'
    BY <1>1, <1>15 DEF CommandType, Connect, piVars, rowVars, commandVars, limitVars
  <2>5. LinkType'
    BY <1>1, <1>15 DEF LinkType, Connect, piVars, rowVars, commandVars, limitVars
  <2>6. LimitType'
    BY <1>1, <1>15 DEF LimitType, Connect, piVars, rowVars, commandVars, limitVars
  <2>7. FlagType'
    BY <1>1, <1>15 DEF FlagType, Connect, piVars, rowVars, commandVars, limitVars
  <2> QED BY <2>1, <2>2, <2>3, <2>4, <2>5, <2>6, <2>7, TypePartsNext
<1>16. CASE Disconnect
  <2>1. PiTypeOK'
    BY <1>1, <1>16 DEF PiTypeOK, Disconnect, DropConnection, piVars, rowVars, runnerVars, limitVars
  <2>2. RowType'
    BY <1>1, <1>16 DEF RowType, Disconnect, DropConnection, piVars, rowVars, runnerVars, limitVars
  <2>3. RunnerType'
    BY <1>1, <1>16 DEF RunnerType, Disconnect, DropConnection, piVars, rowVars, runnerVars, limitVars
  <2>4. CommandType'
    BY <1>1, <1>16, Numbers DEF CommandType, Disconnect, DropConnection, piVars, rowVars, runnerVars, limitVars
  <2>5. LinkType'
    BY <1>1, <1>16 DEF LinkType, Disconnect, DropConnection, piVars, rowVars, runnerVars, limitVars
  <2>6. LimitType'
    BY <1>1, <1>16 DEF LimitType, Disconnect, DropConnection, piVars, rowVars, runnerVars, limitVars
  <2>7. FlagType'
    BY <1>1, <1>16 DEF FlagType, Disconnect, DropConnection, piVars, rowVars, runnerVars, limitVars
  <2> QED BY <2>1, <2>2, <2>3, <2>4, <2>5, <2>6, <2>7, TypePartsNext
<1>17. CASE ReceiveCommand
  <2>1. PiTypeOK'
    BY <1>1, <1>17, PiStepType DEF PiStep, PiTypeOK, ReceiveCommand, piVars, rowVars, runnerVars, limitVars
  <2>2. RowType'
    BY <1>1, <1>17 DEF RowType, ReceiveCommand, piVars, rowVars, runnerVars, limitVars
  <2>3. RunnerType'
    BY <1>1, <1>17 DEF RunnerType, ReceiveCommand, piVars, rowVars, runnerVars, limitVars
  <2>4. CommandType'
    BY <1>1, <1>17, Numbers DEF CommandType, ReceiveCommand, piVars, rowVars, runnerVars, limitVars
  <2>5. LinkType'
    BY <1>1, <1>17 DEF LinkType, ReceiveCommand, Emit, Kind, piVars, rowVars, runnerVars, limitVars
  <2>6. LimitType'
    BY <1>1, <1>17 DEF LimitType, ReceiveCommand, piVars, rowVars, runnerVars, limitVars
  <2>7. FlagType'
    BY <1>1, <1>17 DEF FlagType, ReceiveCommand, piVars, rowVars, runnerVars, limitVars
  <2> QED BY <2>1, <2>2, <2>3, <2>4, <2>5, <2>6, <2>7, TypePartsNext
<1>18. CASE ReportProgress
  <2>1. PiTypeOK'
    BY <1>1, <1>18 DEF PiTypeOK, ReportProgress, Answered, piVars, rowVars, runnerVars, commandVars, limitVars
  <2>2. RowType'
    BY <1>1, <1>18 DEF RowType, ReportProgress, Answered, piVars, rowVars, runnerVars, commandVars, limitVars
  <2>3. RunnerType'
    BY <1>1, <1>18 DEF RunnerType, ReportProgress, Answered, piVars, rowVars, runnerVars, commandVars, limitVars
  <2>4. CommandType'
    BY <1>1, <1>18 DEF CommandType, ReportProgress, Answered, piVars, rowVars, runnerVars, commandVars, limitVars
  <2>5. LinkType'
    BY <1>1, <1>18 DEF LinkType, ReportProgress, Answered, Emit, Kind, piVars, rowVars, runnerVars, commandVars, limitVars
  <2>6. LimitType'
    BY <1>1, <1>18 DEF LimitType, ReportProgress, Answered, piVars, rowVars, runnerVars, commandVars, limitVars
  <2>7. FlagType'
    BY <1>1, <1>18 DEF FlagType, ReportProgress, Answered, piVars, rowVars, runnerVars, commandVars, limitVars
  <2> QED BY <2>1, <2>2, <2>3, <2>4, <2>5, <2>6, <2>7, TypePartsNext
<1>19. CASE \E r \in Slot : Working(r)
  <2>1. PiTypeOK'
    BY <1>1, <1>19, PiStepType DEF PiStep, Working, Unlinked, rowVars, runnerVars, commandVars, linkVars, limitVars
  <2>2. RowType'
    BY <1>1, <1>19 DEF RowType, Working, Unlinked, rowVars, runnerVars, commandVars, linkVars, limitVars
  <2>3. RunnerType'
    BY <1>1, <1>19 DEF RunnerType, Working, Unlinked, rowVars, runnerVars, commandVars, linkVars, limitVars
  <2>4. CommandType'
    BY <1>1, <1>19 DEF CommandType, Working, Unlinked, rowVars, runnerVars, commandVars, linkVars, limitVars
  <2>5. LinkType'
    BY <1>1, <1>19 DEF LinkType, Working, Unlinked, rowVars, runnerVars, commandVars, linkVars, limitVars
  <2>6. LimitType'
    BY <1>1, <1>19 DEF LimitType, Working, Unlinked, rowVars, runnerVars, commandVars, linkVars, limitVars
  <2>7. FlagType'
    BY <1>1, <1>19 DEF FlagType, Working, Unlinked, rowVars, runnerVars, commandVars, linkVars, limitVars
  <2> QED BY <2>1, <2>2, <2>3, <2>4, <2>5, <2>6, <2>7, TypePartsNext
<1>20. CASE \E r \in Slot : UpdateEnds(r)
  <2>1. PiTypeOK'
    BY <1>1, <1>20, PiStepType DEF PiStep, UpdateEnds, Answered, rowVars, runnerVars, commandVars, limitVars
  <2>2. RowType'
    BY <1>1, <1>20 DEF RowType, UpdateEnds, Answered, rowVars, runnerVars, commandVars, limitVars
  <2>3. RunnerType'
    BY <1>1, <1>20 DEF RunnerType, UpdateEnds, Answered, rowVars, runnerVars, commandVars, limitVars
  <2>4. CommandType'
    BY <1>1, <1>20 DEF CommandType, UpdateEnds, Answered, rowVars, runnerVars, commandVars, limitVars
  <2>5. LinkType'
    BY <1>1, <1>20 DEF LinkType, UpdateEnds, Answered, Emit, Kind, rowVars, runnerVars, commandVars, limitVars
  <2>6. LimitType'
    BY <1>1, <1>20 DEF LimitType, UpdateEnds, Answered, rowVars, runnerVars, commandVars, limitVars
  <2>7. FlagType'
    BY <1>1, <1>20 DEF FlagType, UpdateEnds, Answered, rowVars, runnerVars, commandVars, limitVars
  <2> QED BY <2>1, <2>2, <2>3, <2>4, <2>5, <2>6, <2>7, TypePartsNext
<1>21. CASE Death
  <2>1. PiTypeOK'
    BY <1>1, <1>21, PiStepType DEF PiStep, PiTypeOK, Death, DropConnection, rowVars, runnerVars, limitVars
  <2>2. RowType'
    BY <1>1, <1>21 DEF RowType, Death, DropConnection, rowVars, runnerVars, limitVars
  <2>3. RunnerType'
    BY <1>1, <1>21 DEF RunnerType, Death, DropConnection, rowVars, runnerVars, limitVars
  <2>4. CommandType'
    BY <1>1, <1>21, Numbers DEF CommandType, Death, DropConnection, rowVars, runnerVars, limitVars
  <2>5. LinkType'
    BY <1>1, <1>21 DEF LinkType, Death, DropConnection, rowVars, runnerVars, limitVars
  <2>6. LimitType'
    BY <1>1, <1>21 DEF LimitType, Death, DropConnection, rowVars, runnerVars, limitVars
  <2>7. FlagType'
    BY <1>1, <1>21 DEF FlagType, Death, DropConnection, rowVars, runnerVars, limitVars
  <2> QED BY <2>1, <2>2, <2>3, <2>4, <2>5, <2>6, <2>7, TypePartsNext
<1>22. CASE Unattended
  <2>1. PiTypeOK'
    BY <1>1, <1>22, PiStepType DEF PiStep, Unattended, Unlinked, rowVars, runnerVars, commandVars, linkVars, limitVars
  <2>2. RowType'
    BY <1>1, <1>22 DEF RowType, Unattended, Unlinked, rowVars, runnerVars, commandVars, linkVars, limitVars
  <2>3. RunnerType'
    BY <1>1, <1>22 DEF RunnerType, Unattended, Unlinked, rowVars, runnerVars, commandVars, linkVars, limitVars
  <2>4. CommandType'
    BY <1>1, <1>22 DEF CommandType, Unattended, Unlinked, rowVars, runnerVars, commandVars, linkVars, limitVars
  <2>5. LinkType'
    BY <1>1, <1>22 DEF LinkType, Unattended, Unlinked, rowVars, runnerVars, commandVars, linkVars, limitVars
  <2>6. LimitType'
    BY <1>1, <1>22 DEF LimitType, Unattended, Unlinked, rowVars, runnerVars, commandVars, linkVars, limitVars
  <2>7. FlagType'
    BY <1>1, <1>22 DEF FlagType, Unattended, Unlinked, rowVars, runnerVars, commandVars, linkVars, limitVars
  <2> QED BY <2>1, <2>2, <2>3, <2>4, <2>5, <2>6, <2>7, TypePartsNext
<1>23. CASE \E k \in Kind : HandleReport(k)
  <2>1. PiTypeOK'
    BY <1>1, <1>23 DEF PiTypeOK, HandleReport, piVars, runnerVars, limitVars
  <2>2. RowType'
    BY <1>1, <1>23 DEF RowType, HandleReport, Became, StatusOf, Kind, piVars, runnerVars, limitVars
  <2>3. RunnerType'
    BY <1>1, <1>23 DEF RunnerType, HandleReport, piVars, runnerVars, limitVars
  <2>4. CommandType'
    BY <1>1, <1>23 DEF CommandType, HandleReport, piVars, runnerVars, limitVars
  <2>5. LinkType'
    BY <1>1, <1>23 DEF LinkType, HandleReport, piVars, runnerVars, limitVars
  <2>6. LimitType'
    BY <1>1, <1>23 DEF LimitType, HandleReport, piVars, runnerVars, limitVars
  <2>7. FlagType'
    BY <1>1, <1>23 DEF FlagType, HandleReport, piVars, runnerVars, limitVars
  <2> QED BY <2>1, <2>2, <2>3, <2>4, <2>5, <2>6, <2>7, TypePartsNext
<1>24. CASE SendHeartbeat
  <2>1. PiTypeOK'
    BY <1>1, <1>24 DEF PiTypeOK, SendHeartbeat, piVars, rowVars, runnerVars, commandVars, limitVars
  <2>2. RowType'
    BY <1>1, <1>24 DEF RowType, SendHeartbeat, piVars, rowVars, runnerVars, commandVars, limitVars
  <2>3. RunnerType'
    BY <1>1, <1>24 DEF RunnerType, SendHeartbeat, piVars, rowVars, runnerVars, commandVars, limitVars
  <2>4. CommandType'
    BY <1>1, <1>24 DEF CommandType, SendHeartbeat, piVars, rowVars, runnerVars, commandVars, limitVars
  <2>5. LinkType'
    BY <1>1, <1>24 DEF LinkType, SendHeartbeat, PiTypeOK, piVars, rowVars, runnerVars, commandVars, limitVars
  <2>6. LimitType'
    BY <1>1, <1>24 DEF LimitType, SendHeartbeat, piVars, rowVars, runnerVars, commandVars, limitVars
  <2>7. FlagType'
    BY <1>1, <1>24 DEF FlagType, SendHeartbeat, piVars, rowVars, runnerVars, commandVars, limitVars
  <2> QED BY <2>1, <2>2, <2>3, <2>4, <2>5, <2>6, <2>7, TypePartsNext
<1>25. CASE HandleHeartbeat
  <2>1. PiTypeOK'
    BY <1>1, <1>25 DEF PiTypeOK, HandleHeartbeat, piVars, rowVars, runnerVars, commandVars, limitVars
  <2>2. RowType'
    BY <1>1, <1>25, BecameType DEF RowType, HandleHeartbeat, piVars, rowVars, runnerVars, commandVars, limitVars
  <2>3. RunnerType'
    BY <1>1, <1>25 DEF RunnerType, HandleHeartbeat, piVars, rowVars, runnerVars, commandVars, limitVars
  <2>4. CommandType'
    BY <1>1, <1>25 DEF CommandType, HandleHeartbeat, piVars, rowVars, runnerVars, commandVars, limitVars
  <2>5. LinkType'
    BY <1>1, <1>25 DEF LinkType, HandleHeartbeat, piVars, rowVars, runnerVars, commandVars, limitVars
  <2>6. LimitType'
    BY <1>1, <1>25 DEF LimitType, HandleHeartbeat, piVars, rowVars, runnerVars, commandVars, limitVars
  <2>7. FlagType'
    BY <1>1, <1>25 DEF FlagType, HandleHeartbeat, piVars, rowVars, runnerVars, commandVars, limitVars
  <2> QED BY <2>1, <2>2, <2>3, <2>4, <2>5, <2>6, <2>7, TypePartsNext
<1>26. CASE HourPasses
  <2>1. PiTypeOK'
    BY <1>1, <1>26 DEF PiTypeOK, HourPasses, piVars, runnerVars, commandVars, linkVars, limitVars
  <2>2. RowType'
    BY <1>1, <1>26 DEF RowType, HourPasses, piVars, runnerVars, commandVars, linkVars, limitVars
  <2>3. RunnerType'
    BY <1>1, <1>26 DEF RunnerType, HourPasses, piVars, runnerVars, commandVars, linkVars, limitVars
  <2>4. CommandType'
    BY <1>1, <1>26 DEF CommandType, HourPasses, piVars, runnerVars, commandVars, linkVars, limitVars
  <2>5. LinkType'
    BY <1>1, <1>26 DEF LinkType, HourPasses, piVars, runnerVars, commandVars, linkVars, limitVars
  <2>6. LimitType'
    BY <1>1, <1>26 DEF LimitType, HourPasses, piVars, runnerVars, commandVars, linkVars, limitVars
  <2>7. FlagType'
    BY <1>1, <1>26 DEF FlagType, HourPasses, piVars, runnerVars, commandVars, linkVars, limitVars
  <2> QED BY <2>1, <2>2, <2>3, <2>4, <2>5, <2>6, <2>7, TypePartsNext
<1>27. CASE Lost
  <2>1. PiTypeOK'
    BY <1>1, <1>27 DEF PiTypeOK, Lost, piVars, rowVars, runnerVars, commandVars, limitVars
  <2>2. RowType'
    BY <1>1, <1>27 DEF RowType, Lost, piVars, rowVars, runnerVars, commandVars, limitVars
  <2>3. RunnerType'
    BY <1>1, <1>27 DEF RunnerType, Lost, piVars, rowVars, runnerVars, commandVars, limitVars
  <2>4. CommandType'
    BY <1>1, <1>27 DEF CommandType, Lost, piVars, rowVars, runnerVars, commandVars, limitVars
  <2>5. LinkType'
    BY <1>1, <1>27 DEF LinkType, Lost, piVars, rowVars, runnerVars, commandVars, limitVars
  <2>6. LimitType'
    BY <1>1, <1>27 DEF LimitType, Lost, piVars, rowVars, runnerVars, commandVars, limitVars
  <2>7. FlagType'
    BY <1>1, <1>27 DEF FlagType, Lost, piVars, rowVars, runnerVars, commandVars, limitVars
  <2> QED BY <2>1, <2>2, <2>3, <2>4, <2>5, <2>6, <2>7, TypePartsNext
<1> QED BY <1>2, <1>3, <1>4, <1>5, <1>6, <1>7, <1>8, <1>9, <1>10, <1>11, <1>12, <1>13, <1>14, <1>15, <1>16, <1>17, <1>18, <1>19, <1>20, <1>21, <1>22, <1>23, <1>24, <1>25, <1>26,
           <1>27
        DEF Next, StartStep, PendStep

-----------------------------------------------------------------------------
(* Completed means begun *)

LEMMA InitBegun == Init => BegunFirst
  BY Targets DEF Init, PiInit, NoRuns, BegunFirst, CompletedMeansBegun

\* Messages on the Pi's side of the connection.
LEMMA EmitKeeps ==
    ASSUME BegunFirst, NEW k \in Kind, Emit(k), begun => begun', k = "completed" => begun'
    PROVE  "completed" \in reports' => begun'
  BY DEF Emit, BegunFirst

\* Steps of the Pi that send nothing but what they may.
LEMMA LinkKeeps ==
    ASSUME PiTypeOK, BegunFirst, UNCHANGED <<status, pender, siteVersion>>,
           heartbeat' \in {heartbeat, NoVersion},
           "completed" \in reports' => begun',
           PiStep
    PROVE  BegunFirst'
<1>1. /\ begun => begun'
      /\ \A r \in Slot : running'[r] # NoVersion => begun'
      /\ lock' => begun'
      /\ release' = Target => begun'
  BY PiStepKeeps
<1> QED BY <1>1, Targets DEF BegunFirst, CompletedMeansBegun

\* Steps of the server, with no change on the Pi.
LEMMA ServerKeeps ==
    ASSUME BegunFirst, UNCHANGED piVars,
           siteVersion' = Target => begun,
           heartbeat' = Target => begun,
           "completed" \in reports' => begun,
           pender' = "reconcile" => begun,
           status' = "completed" => begun
    PROVE  BegunFirst'
  BY DEF BegunFirst, CompletedMeansBegun, piVars

LEMMA BegunStep == ASSUME TypeOK, BegunFirst, Next PROVE BegunFirst'
<1>1. PiTypeOK
  BY TypeParts
<1>2. CASE StartSend \/ StartUpdate \/ StartRefused \/ StartQueryFails \/ Retry
  BY <1>2, ServerKeeps
  DEF StartSend, StartUpdate, StartRefused, StartQueryFails, StartFails, Retry, Became, BegunFirst,
      CompletedMeansBegun, rowVars, linkVars
<1>3. CASE Drain \/ PendSend \/ PendFails \/ RecentExpires
  BY <1>3, ServerKeeps
  DEF Drain, PendSend, PendFails, RecentExpires, BegunFirst, CompletedMeansBegun, rowVars, runnerVars, linkVars
<1>4. CASE PendSelect
  <2>1. pender' = "reconcile" => begun
    BY <1>4 DEF PendSelect, AlreadyInstalled, BegunFirst
  <2> QED BY <1>4, <2>1, ServerKeeps DEF PendSelect, BegunFirst, CompletedMeansBegun, rowVars, linkVars
<1>5. CASE Reconcile
  BY <1>5, ServerKeeps DEF Reconcile, Became, BegunFirst, CompletedMeansBegun, linkVars
<1>6. CASE PendUpdate
  BY <1>6, ServerKeeps DEF PendUpdate, BegunFirst, CompletedMeansBegun, linkVars
<1>7. CASE ServerRestarts
  BY <1>7, ServerKeeps, Targets DEF ServerRestarts, BegunFirst, CompletedMeansBegun, rowVars
<1>8. CASE Connect
  BY <1>8, ServerKeeps DEF Connect, BegunFirst, CompletedMeansBegun, rowVars
<1>9. CASE Disconnect
  BY <1>9, ServerKeeps, Targets
  DEF Disconnect, DropConnection, BegunFirst, CompletedMeansBegun, rowVars, runnerVars
<1>19. CASE Lost
  BY <1>19, ServerKeeps, Targets DEF Lost, BegunFirst, CompletedMeansBegun, rowVars, runnerVars
<1>10. CASE ReceiveCommand
  <2>1. UNCHANGED <<status, pender, siteVersion, heartbeat>>
    BY <1>10 DEF ReceiveCommand, rowVars, runnerVars
  <2>2. CASE lock /\ Emit("completed") /\ UNCHANGED piVars
    <3>1. "completed" \in reports' => begun
      BY <2>2 DEF Emit, BegunFirst
    <3> QED BY <2>1, <2>2, <3>1, ServerKeeps DEF BegunFirst, CompletedMeansBegun
  <2>3. CASE (\E r \in Slot : Accept(r, Target)) /\ UNCHANGED reports
    <3>1. begun' /\ PiStep
      BY <2>3 DEF Accept, PiStep
    <3> QED BY <1>1, <2>1, <2>3, <3>1, LinkKeeps
  <2> QED BY <1>10, <2>2, <2>3 DEF ReceiveCommand
<1>11. CASE ReportProgress
  BY <1>11, ServerKeeps
  DEF ReportProgress, Answered, Emit, BegunFirst, CompletedMeansBegun, rowVars, runnerVars
<1>12. CASE (\E r \in Slot : Working(r)) \/ Unattended
  <2>1. PiStep /\ UNCHANGED <<status, pender, siteVersion, heartbeat, reports>>
    BY <1>12 DEF Working, Unattended, Unlinked, PiStep, rowVars, runnerVars, linkVars
  <2>2. "completed" \in reports' => begun'
    BY <1>1, <2>1, PiStepKeeps DEF BegunFirst
  <2> QED BY <1>1, <2>1, <2>2, LinkKeeps
<1>13. CASE \E r \in Slot : UpdateEnds(r)
  <2>1. PiStep /\ UNCHANGED <<status, pender, siteVersion, heartbeat>>
    BY <1>13 DEF UpdateEnds, Answered, PiStep, rowVars, runnerVars
  <2>2. begun'
    BY <1>13 DEF UpdateEnds, Ends, BegunFirst
  <2> QED BY <1>1, <2>1, <2>2, LinkKeeps
<1>14. CASE Death
  <2>1. PiStep /\ DropConnection /\ UNCHANGED <<status, pender, siteVersion>>
    BY <1>14 DEF Death, PiStep, rowVars, runnerVars
  <2>2. UNCHANGED <<heartbeat, reports>>
    BY <2>1 DEF DropConnection
  <2>3. "completed" \in reports' => begun'
    BY <1>1, <2>1, <2>2, PiStepKeeps DEF BegunFirst
  <2> QED BY <1>1, <2>1, <2>2, <2>3, LinkKeeps
<1>15. CASE \E k \in Kind : HandleReport(k)
  <2>1. PICK k \in Kind : HandleReport(k)
    BY <1>15
  <2>2. status' = "completed" => k = "completed"
    BY <2>1 DEF HandleReport, Became, StatusOf, Kind
  <2>3. status' = "completed" => begun
    BY <2>1, <2>2 DEF HandleReport, BegunFirst
  <2> QED BY <2>1, <2>3, ServerKeeps DEF HandleReport, BegunFirst, runnerVars
<1>16. CASE SendHeartbeat
  BY <1>16, ServerKeeps DEF SendHeartbeat, BegunFirst, CompletedMeansBegun, rowVars, runnerVars
<1>17. CASE HandleHeartbeat
  BY <1>17, ServerKeeps, Targets
  DEF HandleHeartbeat, Became, BegunFirst, CompletedMeansBegun, rowVars, runnerVars
<1>18. CASE HourPasses
  BY <1>18, ServerKeeps DEF HourPasses, BegunFirst, CompletedMeansBegun, runnerVars, linkVars
<1> QED BY <1>2, <1>3, <1>4, <1>5, <1>6, <1>7, <1>8, <1>9, <1>10, <1>11, <1>12, <1>13, <1>14, <1>15,
           <1>16, <1>17, <1>18, <1>19
        DEF Next, StartStep, PendStep

LEMMA StutterKeeps == ASSUME TypeOK, BegunFirst, UNCHANGED vars PROVE TypeOK' /\ BegunFirst'
<1>1. UNCHANGED <<piVars, rowVars, runnerVars, commandVars, linkVars, siteVersion, limitVars>>
  BY DEF vars, serverVars
<1>2. TypeOK'
  BY <1>1 DEF TypeOK, PiTypeOK, piVars, rowVars, runnerVars, commandVars, linkVars, limitVars
<1>3. BegunFirst'
  BY <1>1, ServerKeeps DEF BegunFirst, CompletedMeansBegun, rowVars, runnerVars, linkVars
<1> QED BY <1>2, <1>3

-----------------------------------------------------------------------------
(* The Pi below the deployment                                               *)

\* Each step is one of the Pi's or leaves the Pi alone: the server acts on it
\* by messages only.
LEMMA PiSteps == [Next]_vars => [PiNext]_piVars
<1> SUFFICES ASSUME [Next]_vars PROVE [PiNext]_piVars
  OBVIOUS
<1>1. CASE UNCHANGED vars
  BY <1>1 DEF vars
<1>2. CASE StartSend \/ StartUpdate \/ StartRefused \/ StartQueryFails \/ Retry
  BY <1>2 DEF StartSend, StartUpdate, StartRefused, StartQueryFails, StartFails, Retry
<1>3. CASE Drain \/ PendSelect \/ Reconcile \/ PendSend \/ PendUpdate \/ PendFails
  BY <1>3 DEF Drain, PendSelect, Reconcile, PendSend, PendUpdate, PendFails
<1>4. CASE RecentExpires \/ ServerRestarts \/ Connect \/ Disconnect \/ Lost
  BY <1>4 DEF RecentExpires, ServerRestarts, Connect, Disconnect, Lost
<1>5. CASE ReceiveCommand
  BY <1>5, Targets DEF ReceiveCommand, PiNext
<1>6. CASE ReportProgress \/ SendHeartbeat \/ HandleHeartbeat \/ HourPasses
  BY <1>6 DEF ReportProgress, SendHeartbeat, HandleHeartbeat, HourPasses
<1>7. CASE (\E r \in Slot : Working(r) \/ UpdateEnds(r)) \/ Death \/ Unattended
  BY <1>7 DEF Working, UpdateEnds, Death, Unattended, PiNext
<1>8. CASE \E k \in Kind : HandleReport(k)
  BY <1>8 DEF HandleReport
<1> QED BY <1>1, <1>2, <1>3, <1>4, <1>5, <1>6, <1>7, <1>8 DEF Next, StartStep, PendStep

\* The deployment uses the Pi as PiUpdate allows, which is what OtaInstall
\* implements: a command is begun only without a recent lock and for a release that
\* is offered, and no handler of the server changes the Pi.
THEOREM UsesPi == Spec => PiSpec
<1>1. Init => PiInit
  BY DEF Init
<1> QED BY <1>1, PiSteps, PTL DEF Spec, PiSpec

\* Every variable keeps its type, whatever order reports, restarts and
\* reconnections come in: update-deployment.service.ts writes no other status.
THEOREM TypeCorrect == Spec => []TypeOK
<1>1. TypeOK /\ BegunFirst /\ [Next]_vars => TypeOK' /\ BegunFirst'
  BY TypeStep, BegunStep, StutterKeeps
<1>2. Init => TypeOK /\ BegunFirst
  BY InitType, InitBegun
<1> QED BY <1>1, <1>2, PTL DEF Spec

\* No deployment is completed without a beginning on the Pi: neither an answer
\* to a skipped command, nor a reconciliation, nor a report that came late.
THEOREM CompletedAfterBegin == Spec => []CompletedMeansBegun
<1>1. TypeOK /\ BegunFirst /\ [Next]_vars => TypeOK' /\ BegunFirst'
  BY TypeStep, BegunStep, StutterKeeps
<1>2. Init => TypeOK /\ BegunFirst
  BY InitType, InitBegun
<1>3. BegunFirst => CompletedMeansBegun
  BY DEF BegunFirst
<1> QED BY <1>1, <1>2, <1>3, PTL DEF Spec
=============================================================================
