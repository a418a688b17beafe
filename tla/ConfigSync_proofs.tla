-------------------------- MODULE ConfigSync_proofs --------------------------
(***************************************************************************)
(* Proofs about ConfigSync: its types, and that a pending version is only  *)
(* cleared once the Pi has applied the version saved last, for any number  *)
(* of versions, overlapping triggers, rows and failures.                   *)
(***************************************************************************)
EXTENDS ConfigSync, TLAPS

Steps == {"idle", "check", "insert", "mark", "refuse"}

\* The parts of TypeOK, by the variables that change together.
VersionType ==
    /\ pending \in 0..last
    /\ last \in 0..MaxVersions

RunType ==
    /\ step \in [Trigger -> Steps]
    /\ want \in [Trigger -> 0..MaxVersions]
    /\ \A t \in Trigger : want[t] = 0 <=> step[t] = "idle"
    /\ row \in [Trigger -> Command \cup {NoCommand}]
    /\ \A t \in Trigger : row[t] = NoCommand <=> step[t] \notin {"mark", "refuse"}

RowType ==
    /\ active \subseteq Command
    /\ tracked \subseteq Command
    /\ clearing \subseteq Command

PiType ==
    /\ fate \in [Command -> {"none", "sent", "ok", "error"}]
    /\ applied \subseteq 1..MaxVersions

RestType ==
    /\ due \in BOOLEAN
    /\ link \in {"up", "lost", "down"}
    /\ failures \in 0..MaxFailures

LEMMA TypeParts == TypeOK <=> VersionType /\ RunType /\ RowType /\ PiType /\ RestType
  BY DEF TypeOK, VersionType, RunType, RowType, PiType, RestType, Steps

LEMMA TypePartsNext == VersionType' /\ RunType' /\ RowType' /\ PiType' /\ RestType' => TypeOK'
  BY DEF TypeOK, VersionType, RunType, RowType, PiType, RestType, Steps

\* A success in any stage of its handling is of a version that was applied, and
\* the pending version is the one saved last.
Delivered ==
    /\ \A c \in Command : fate[c] = "ok" \/ c \in clearing => VersionOf(c) \in applied
    /\ pending # 0 => pending = last
    /\ ClearedMeansApplied

LEMMA Versions == \A c \in Command : VersionOf(c) \in 1..MaxVersions
  BY DEF Command, VersionOf

LEMMA FreeRows ==
    ASSUME NEW v \in 1..MaxVersions, Free(v) # {}
    PROVE  /\ (CHOOSE c \in Free(v) : TRUE) \in Command
           /\ ~InFlight(CHOOSE c \in Free(v) : TRUE)
<1> DEFINE d == CHOOSE c \in Free(v) : TRUE
<1>1. d \in Free(v)
  OBVIOUS
<1>2. d \in {v} \X Copy /\ ~InFlight(d)
  BY <1>1 DEF Free
<1>3. QED
  BY <1>2 DEF Command

-----------------------------------------------------------------------------
(* The runs of the trigger *)

LEMMA ReturnType ==
    ASSUME RunType, NEW t \in Trigger, Return(t)
    PROVE  RunType'
<1>1. step' \in [Trigger -> Steps] /\ want' \in [Trigger -> 0..MaxVersions]
  BY ConfigAssumption DEF Return, RunType, Steps
<1>2. row' \in [Trigger -> Command \cup {NoCommand}]
  BY DEF Return, RunType
<1>3. \A u \in Trigger : want'[u] = 0 <=> step'[u] = "idle"
  BY DEF Return, RunType
<1>4. \A u \in Trigger : row'[u] = NoCommand <=> step'[u] \notin {"mark", "refuse"}
  BY DEF Return, RunType
<1>5. QED
  BY <1>1, <1>2, <1>3, <1>4 DEF RunType

LEMMA ReadType ==
    ASSUME VersionType, RunType, NEW t \in Trigger, ReadPending(t)
    PROVE  RunType'
<1>1. CASE Registered /\ pending # 0
  <2>1. step' = [step EXCEPT ![t] = "check"] /\ want' = [want EXCEPT ![t] = pending] /\ row' = row
    BY <1>1 DEF ReadPending
  <2>2. step[t] = "idle" /\ pending \in 0..MaxVersions
    BY ConfigAssumption DEF ReadPending, VersionType
  <2>3. step' \in [Trigger -> Steps] /\ want' \in [Trigger -> 0..MaxVersions]
    BY <2>1, <2>2 DEF RunType, Steps
  <2>4. \A u \in Trigger : want'[u] = 0 <=> step'[u] = "idle"
    BY <1>1, <2>1 DEF RunType
  <2>5. \A u \in Trigger : row'[u] = NoCommand <=> step'[u] \notin {"mark", "refuse"}
    BY <2>1, <2>2 DEF RunType
  <2>6. QED
    BY <2>1, <2>3, <2>4, <2>5 DEF RunType
<1>2. CASE ~(Registered /\ pending # 0)
  BY <1>2 DEF ReadPending, RunType, runVars
<1>3. QED
  BY <1>1, <1>2

LEMMA CheckType ==
    ASSUME RunType, NEW t \in Trigger, CheckActive(t)
    PROVE  RunType'
<1>1. CASE Return(t)
  BY <1>1, ReturnType
<1>2. CASE GoTo(t, "insert")
  <2>1. step' = [step EXCEPT ![t] = "insert"] /\ want' = want /\ row' = row /\ step[t] = "check"
    BY <1>2 DEF GoTo, CheckActive
  <2>2. QED
    BY <2>1 DEF RunType, Steps
<1>3. QED
  BY <1>1, <1>2 DEF CheckActive

\* Inserting a row keeps the types, and the row is a new one.
LEMMA InsertType ==
    ASSUME VersionType, RunType, RowType, PiType, RestType, NEW t \in Trigger, InsertAndSend(t)
    PROVE  /\ RunType' /\ RowType' /\ PiType' /\ RestType'
           /\ \A c \in Command : fate'[c] = fate[c] \/ fate'[c] = "sent"
<1> DEFINE d == CHOOSE c \in Free(want[t]) : TRUE
<1>1. step[t] = "insert" /\ want[t] \in 1..MaxVersions
  BY ConfigAssumption DEF InsertAndSend, RunType
<1>2. d \in Command
  BY <1>1, FreeRows DEF InsertAndSend
<1>3. row' = [row EXCEPT ![t] = d] /\ want' = want
  BY DEF InsertAndSend
<1>4. (step' = [step EXCEPT ![t] = "mark"] \/ step' = [step EXCEPT ![t] = "refuse"])
      /\ (tracked' = tracked \/ tracked' = tracked \cup {d} \/ tracked' = {})
      /\ (active' = active \cup {d} \/ active' = (active \ tracked) \cup {d})
      /\ (link' = link \/ link' = "down")
      /\ (fate' = fate \/ fate' = [fate EXCEPT ![d] = "sent"])
  <2>1. CASE EmitDirectly(t, d)
    BY <2>1 DEF EmitDirectly, Emit
  <2>2. CASE SendCommand(t, d)
    BY <2>2 DEF SendCommand, Emit
  <2>3. QED
    BY <2>1, <2>2 DEF InsertAndSend
<1>5. due' = due /\ clearing' = clearing /\ applied' = applied /\ failures' = failures
  BY DEF InsertAndSend, Elsewhere
<1>6. RunType'
  <2>1. step' \in [Trigger -> Steps] /\ row' \in [Trigger -> Command \cup {NoCommand}]
    BY <1>2, <1>3, <1>4 DEF RunType, Steps
  <2>2. \A u \in Trigger : want'[u] = 0 <=> step'[u] = "idle"
    BY <1>1, <1>3, <1>4 DEF RunType
  <2>3. \A u \in Trigger : row'[u] = NoCommand <=> step'[u] \notin {"mark", "refuse"}
    BY <1>2, <1>3, <1>4, ConfigAssumption DEF RunType
  <2>4. QED
    BY <1>3, <2>1, <2>2, <2>3 DEF RunType
<1>7. RowType'
  BY <1>2, <1>4, <1>5 DEF RowType
<1>8. PiType' /\ \A c \in Command : fate'[c] = fate[c] \/ fate'[c] = "sent"
  BY <1>2, <1>4, <1>5 DEF PiType
<1>9. RestType'
  BY <1>4, <1>5 DEF RestType
<1>10. QED
  BY <1>6, <1>7, <1>8, <1>9

\* The row of a trigger that marks it is a row.
LEMMA MarkedRow ==
    ASSUME RunType, NEW t \in Trigger, step[t] \in {"mark", "refuse"}
    PROVE  row[t] \in Command
BY DEF RunType

-----------------------------------------------------------------------------
(* Steps that several actions share *)

LEMMA LostType ==
    ASSUME PiType, LoseSome, applied' = applied
    PROVE  PiType' /\ \A c \in Command : fate'[c] = fate[c] \/ fate'[c] = "none"
<1>1. PICK L \in SUBSET {c \in Command : fate[c] # "none"} :
        fate' = [c \in Command |-> IF c \in L THEN "none" ELSE fate[c]]
  BY DEF LoseSome
<1>2. QED
  BY <1>1 DEF PiType

LEMMA FailureCount ==
    ASSUME RestType, NEW kind, Fails(kind)
    PROVE  failures' \in 0..MaxFailures
BY ConfigAssumption DEF RestType, Fails

\* A step that turns no fate into a success, clears no version and takes no
\* result keeps the versions in order.
LEMMA Kept ==
    ASSUME Delivered,
           \A c \in Command : fate'[c] = "ok" => fate[c] = "ok",
           clearing' \subseteq clearing, applied' = applied,
           pending' = pending, last' = last
    PROVE  Delivered'
BY DEF Delivered, ClearedMeansApplied

-----------------------------------------------------------------------------
(* Every step *)

AllTypes == VersionType /\ RunType /\ RowType /\ PiType /\ RestType

LEMMA InitTypes == Init => AllTypes
<1> SUFFICES ASSUME Init PROVE AllTypes
  OBVIOUS
<1>1. VersionType /\ RestType
  <2>1. VersionType /\ failures \in 0..MaxFailures
    BY ConfigAssumption DEF Init, VersionType
  <2>2. due \in BOOLEAN /\ link \in {"up", "lost", "down"}
    BY DEF Init
  <2>3. QED
    BY <2>1, <2>2 DEF RestType
<1>2. RunType
  <2>1. step \in [Trigger -> Steps] /\ want \in [Trigger -> 0..MaxVersions]
    BY ConfigAssumption DEF Init, Steps
  <2>2. row \in [Trigger -> Command \cup {NoCommand}]
    BY DEF Init
  <2>3. \A t \in Trigger : want[t] = 0 /\ step[t] = "idle" /\ row[t] = NoCommand
    BY DEF Init
  <2>4. QED
    BY <2>1, <2>2, <2>3 DEF RunType
<1>3. RowType /\ PiType
  BY DEF Init, RowType, PiType
<1>4. QED
  BY <1>1, <1>2, <1>3 DEF AllTypes

LEMMA InitDelivered == Init => Delivered
  BY DEF Init, Delivered, ClearedMeansApplied

\* Connections, restarts and saves.
LEMMA LinkStep ==
    ASSUME AllTypes, Delivered,
           Save \/ Connect \/ Disconnect \/ HandleDisconnection \/ AgentRestarts \/ ServerRestarts
    PROVE  AllTypes' /\ Delivered'
<1> USE DEF AllTypes
<1>1. CASE Save
  <2>1. VersionType'
    BY <1>1, ConfigAssumption DEF Save, VersionType
  <2>2. RunType' /\ RowType' /\ PiType' /\ RestType'
    BY <1>1 DEF Save, RunType, RowType, PiType, RestType, runVars, piVars
  <2>3. Delivered'
    BY <1>1, ConfigAssumption DEF Save, Delivered, ClearedMeansApplied, VersionType, piVars
  <2>4. QED
    BY <2>1, <2>2, <2>3
<1>2. CASE Connect
  <2>1. VersionType' /\ RunType' /\ RowType' /\ PiType' /\ RestType'
    BY <1>2 DEF Connect, VersionType, RunType, RowType, PiType, RestType, runVars, dbVars, piVars
  <2>2. Delivered'
    BY <1>2 DEF Connect, Delivered, ClearedMeansApplied, dbVars, piVars
  <2>3. QED
    BY <2>1, <2>2
<1>3. CASE Disconnect
  <2>1. VersionType' /\ RunType' /\ RowType'
    BY <1>3 DEF Disconnect, VersionType, RunType, RowType, triggerVars, runVars, dbVars
  <2>2. PiType' /\ \A c \in Command : fate'[c] = fate[c] \/ fate'[c] = "none"
    BY <1>3, LostType DEF Disconnect
  <2>3. RestType'
    BY <1>3, FailureCount DEF Disconnect, RestType, triggerVars
  <2>4. Delivered'
    BY <1>3, <2>2, Kept DEF Disconnect, dbVars
  <2>5. QED
    BY <2>1, <2>2, <2>3, <2>4
<1>4. CASE HandleDisconnection
  <2>1. VersionType' /\ RunType' /\ RowType' /\ PiType' /\ RestType'
    BY <1>4 DEF HandleDisconnection, FailTracked, VersionType, RunType, RowType, PiType, RestType,
                triggerVars, runVars, piVars
  <2>2. Delivered'
    BY <1>4 DEF HandleDisconnection, Delivered, ClearedMeansApplied, piVars
  <2>3. QED
    BY <2>1, <2>2
<1>5. CASE AgentRestarts
  <2>1. VersionType' /\ RunType' /\ RowType'
    BY <1>5 DEF AgentRestarts, VersionType, RunType, RowType, triggerVars, runVars, dbVars
  <2>2. PiType' /\ \A c \in Command : fate'[c] = "none"
    BY <1>5 DEF AgentRestarts, PiType
  <2>3. RestType'
    BY <1>5, FailureCount DEF AgentRestarts, RestType, triggerVars
  <2>4. Delivered'
    BY <1>5, <2>2, Kept DEF AgentRestarts, dbVars
  <2>5. QED
    BY <2>1, <2>2, <2>3, <2>4
<1>6. CASE ServerRestarts
  <2>1. VersionType' /\ RowType'
    BY <1>6 DEF ServerRestarts, VersionType, RowType, dbVars
  <2>2. RunType'
    BY <1>6, ConfigAssumption DEF ServerRestarts, RunType, Steps
  <2>3. PiType' /\ \A c \in Command : fate'[c] = fate[c] \/ fate'[c] = "none"
    BY <1>6, LostType DEF ServerRestarts
  <2>4. RestType'
    BY <1>6, FailureCount DEF ServerRestarts, RestType
  <2>5. Delivered'
    BY <1>6, <2>3, Kept DEF ServerRestarts, dbVars
  <2>6. QED
    BY <2>1, <2>2, <2>3, <2>4, <2>5
<1>7. QED
  BY <1>1, <1>2, <1>3, <1>4, <1>5, <1>6

\* The steps of a trigger apply and clear nothing.
LEMMA TriggerStep ==
    ASSUME AllTypes, Delivered, NEW t \in Trigger,
           RunStep(t) \/ SyncLocalState(t) \/ QueryFails(t)
    PROVE  AllTypes' /\ Delivered'
<1> USE DEF AllTypes
<1>1. CASE Begin(t) \/ SyncLocalState(t)
  <2>1. RunType'
    BY <1>1, ReadType DEF Begin, SyncLocalState
  <2>2. VersionType' /\ RowType' /\ PiType' /\ RestType'
    BY <1>1 DEF Begin, SyncLocalState, VersionType, RowType, PiType, RestType, dbVars, piVars
  <2>3. Delivered'
    BY <1>1 DEF Begin, SyncLocalState, Delivered, ClearedMeansApplied, dbVars, piVars
  <2>4. QED
    BY <2>1, <2>2, <2>3
<1>2. CASE CheckActive(t) \/ VersionGone(t) \/ SiteGone(t)
  <2>1. RunType'
    BY <1>2, CheckType, ReturnType DEF VersionGone, SiteGone
  <2>2. VersionType' /\ RowType' /\ PiType' /\ RestType'
    BY <1>2 DEF CheckActive, VersionGone, SiteGone, OnlyRun, Elsewhere, VersionType, RowType, PiType, RestType
  <2>3. Delivered'
    BY <1>2 DEF CheckActive, VersionGone, SiteGone, OnlyRun, Elsewhere, Delivered, ClearedMeansApplied
  <2>4. QED
    BY <2>1, <2>2, <2>3
<1>3. CASE InsertAndSend(t)
  <2>1. RunType' /\ RowType' /\ PiType' /\ RestType'
        /\ \A c \in Command : fate'[c] = fate[c] \/ fate'[c] = "sent"
    BY <1>3, InsertType
  <2>2. pending' = pending /\ last' = last /\ clearing' = clearing /\ applied' = applied
    BY <1>3 DEF InsertAndSend, Elsewhere
  <2>3. VersionType'
    BY <2>2 DEF VersionType
  <2>4. Delivered'
    BY <2>1, <2>2, Kept
  <2>5. QED
    BY <2>1, <2>3, <2>4
<1>4. CASE MarkExecuting(t) \/ MarkFailed(t)
  <2>1. RunType'
    BY <1>4, ReturnType DEF MarkExecuting, MarkFailed
  <2>2. row[t] \in Command
    BY <1>4, MarkedRow DEF MarkExecuting, MarkFailed
  <2>3. RowType'
    BY <1>4, <2>2 DEF MarkExecuting, MarkFailed, Elsewhere, RowType
  <2>4. VersionType' /\ PiType' /\ RestType'
    BY <1>4 DEF MarkExecuting, MarkFailed, Elsewhere, VersionType, PiType, RestType
  <2>5. Delivered'
    BY <1>4 DEF MarkExecuting, MarkFailed, Elsewhere, Delivered, ClearedMeansApplied
  <2>6. QED
    BY <2>1, <2>3, <2>4, <2>5
<1>5. CASE QueryFails(t)
  <2>1. RunType'
    BY <1>5, ReturnType DEF QueryFails
  <2>2. VersionType' /\ RowType' /\ PiType'
    BY <1>5 DEF QueryFails, VersionType, RowType, PiType, dbVars, piVars
  <2>3. RestType'
    BY <1>5, FailureCount DEF QueryFails, RestType
  <2>4. Delivered'
    BY <1>5 DEF QueryFails, Delivered, ClearedMeansApplied, dbVars, piVars
  <2>5. QED
    BY <2>1, <2>2, <2>3, <2>4
<1>6. QED
  BY <1>1, <1>2, <1>3, <1>4, <1>5 DEF RunStep

\* Only Apply makes a success, of a version that it applies, and only
\* ClearPendingConfig clears a version, after such a success.
LEMMA CommandSteps ==
    ASSUME AllTypes, Delivered, NEW c \in Command,
           CommandStep(c) \/ ApplyFails(c) \/ AnswerLost(c) \/ ResultQueryFails(c) \/ Timeout(c)
    PROVE  AllTypes' /\ Delivered'
<1> USE DEF AllTypes
<1>1. CASE Apply(c)
  <2>1. VersionType' /\ RunType' /\ RowType' /\ RestType'
    BY <1>1 DEF Apply, VersionType, RunType, RowType, RestType, dbVars, triggerVars, runVars
  <2>2. PiType'
    BY <1>1, Versions DEF Apply, PiType
  <2>3. \A d \in Command : fate'[d] = "ok" => d = c \/ fate[d] = "ok"
    BY <1>1 DEF Apply, PiType
  <2>4. Delivered'
    BY <1>1, <2>3 DEF Apply, Delivered, ClearedMeansApplied, dbVars
  <2>5. QED
    BY <2>1, <2>2, <2>4
<1>2. CASE ApplyFails(c) \/ AnswerLost(c)
  <2>1. VersionType' /\ RunType' /\ RowType'
    BY <1>2 DEF ApplyFails, AnswerLost, VersionType, RunType, RowType, dbVars, triggerVars, runVars
  <2>2. PiType' /\ \A d \in Command : fate'[d] = "ok" => fate[d] = "ok"
    BY <1>2 DEF ApplyFails, AnswerLost, PiType
  <2>3. RestType'
    BY <1>2, FailureCount DEF ApplyFails, AnswerLost, RestType, triggerVars
  <2>4. Delivered'
    BY <1>2, <2>2, Kept DEF ApplyFails, AnswerLost, dbVars
  <2>5. QED
    BY <2>1, <2>2, <2>3, <2>4
<1>3. CASE HandleResult(c)
  <2>1. VersionType' /\ RunType' /\ RestType'
    BY <1>3 DEF HandleResult, VersionType, RunType, RestType, triggerVars, runVars
  <2>2. RowType'
    BY <1>3 DEF HandleResult, RowType
  <2>3. PiType' /\ \A d \in Command : fate'[d] = "ok" => fate[d] = "ok"
    BY <1>3 DEF HandleResult, PiType
  <2>4. \A d \in clearing' : d \in clearing \/ (d = c /\ fate[c] = "ok")
    BY <1>3 DEF HandleResult
  <2>5. Delivered'
    BY <1>3, <2>3, <2>4 DEF HandleResult, Delivered, ClearedMeansApplied
  <2>6. QED
    BY <2>1, <2>2, <2>3, <2>5
<1>4. CASE ClearPendingConfig(c)
  <2>1. RunType' /\ RestType' /\ PiType' /\ RowType'
    BY <1>4 DEF ClearPendingConfig, RunType, RestType, PiType, RowType, triggerVars, runVars, piVars
  <2>2. VersionType'
    BY <1>4, ConfigAssumption DEF ClearPendingConfig, VersionType
  <2>3. \A d \in Command : fate'[d] = "ok" \/ d \in clearing' => VersionOf(d) \in applied'
    BY <1>4 DEF ClearPendingConfig, Delivered, piVars
  <2>4. CASE pending = VersionOf(c)
    <3>1. VersionOf(c) \in applied /\ pending # 0
      BY <1>4, <2>4, Versions DEF ClearPendingConfig, Delivered
    <3>2. last' \in applied' /\ pending' = 0
      BY <1>4, <2>4, <3>1 DEF ClearPendingConfig, Delivered, piVars
    <3>3. QED
      BY <2>1, <2>2, <2>3, <3>2 DEF Delivered, ClearedMeansApplied
  <2>5. CASE pending # VersionOf(c)
    <3>1. pending' = pending /\ last' = last /\ applied' = applied
      BY <1>4, <2>5 DEF ClearPendingConfig, piVars
    <3>2. QED
      BY <2>1, <2>2, <2>3, <3>1 DEF Delivered, ClearedMeansApplied
  <2>6. QED
    BY <2>1, <2>2, <2>4, <2>5
<1>5. CASE ResultQueryFails(c)
  <2>1. VersionType' /\ RunType'
    BY <1>5 DEF ResultQueryFails, VersionType, RunType, dbVars, triggerVars, runVars
  <2>2. RowType' /\ clearing' \subseteq clearing
    BY <1>5 DEF ResultQueryFails, RowType, dbVars
  <2>3. PiType' /\ \A d \in Command : fate'[d] = "ok" => fate[d] = "ok"
    BY <1>5 DEF ResultQueryFails, PiType
  <2>4. RestType'
    BY <1>5, FailureCount DEF ResultQueryFails, RestType, triggerVars
  <2>5. Delivered'
    BY <1>5, <2>2, <2>3, Kept DEF ResultQueryFails, dbVars
  <2>6. QED
    BY <2>1, <2>2, <2>3, <2>4, <2>5
<1>6. CASE Timeout(c)
  <2>1. VersionType' /\ RunType' /\ RowType' /\ PiType' /\ RestType'
    BY <1>6 DEF Timeout, VersionType, RunType, RowType, PiType, RestType, triggerVars, runVars, piVars
  <2>2. Delivered'
    BY <1>6 DEF Timeout, Delivered, ClearedMeansApplied, piVars
  <2>3. QED
    BY <2>1, <2>2
<1>7. QED
  BY <1>1, <1>2, <1>3, <1>4, <1>5, <1>6 DEF CommandStep

LEMMA Step ==
    ASSUME AllTypes, Delivered, [Next]_vars
    PROVE  AllTypes' /\ Delivered'
<1>1. CASE UNCHANGED vars
  <2>1. AllTypes'
    BY <1>1 DEF AllTypes, VersionType, RunType, RowType, PiType, RestType, vars, dbVars, triggerVars, runVars, piVars
  <2>2. Delivered'
    BY <1>1 DEF Delivered, ClearedMeansApplied, vars, dbVars, piVars
  <2>3. QED
    BY <2>1, <2>2
<1>2. CASE Save \/ Connect \/ Disconnect \/ HandleDisconnection \/ AgentRestarts \/ ServerRestarts
  BY <1>2, LinkStep
<1>3. ASSUME NEW t \in Trigger, RunStep(t) \/ SyncLocalState(t) \/ QueryFails(t)
      PROVE  AllTypes' /\ Delivered'
  BY <1>3, TriggerStep
<1>4. ASSUME NEW c \in Command,
             CommandStep(c) \/ ApplyFails(c) \/ AnswerLost(c) \/ ResultQueryFails(c) \/ Timeout(c)
      PROVE  AllTypes' /\ Delivered'
  BY <1>4, CommandSteps
<1>5. QED
  BY <1>1, <1>2, <1>3, <1>4 DEF Next

LEMMA Inductive == Spec => [](AllTypes /\ Delivered)
<1>1. Init => AllTypes /\ Delivered
  BY InitTypes, InitDelivered
<1>2. AllTypes /\ Delivered /\ [Next]_vars => (AllTypes /\ Delivered)'
  BY Step
<1>3. QED
  BY <1>1, <1>2, PTL DEF Spec

\* The types of ConfigSync, in every reachable state: among them that a trigger
\* past its first test carries a version, and one that marks a row has a row.
THEOREM TypeCorrect == Spec => []TypeOK
<1>1. AllTypes => TypeOK
  BY TypeParts DEF AllTypes
<1>2. QED
  BY <1>1, Inductive, PTL

\* No version is pending only if the Pi has applied the one saved last, for any
\* number of versions, triggers, rows and failures: clearPendingConfig names
\* the version whose success it handles.
THEOREM ClearedAfterApplied == Spec => []ClearedMeansApplied
<1>1. Delivered => ClearedMeansApplied
  BY DEF Delivered
<1>2. QED
  BY <1>1, Inductive, PTL
=============================================================================
