---------------------- MODULE DbCircuitBreaker_proofs ----------------------
(***************************************************************************)
(* Type correctness of the circuit breaker, and the threshold below which  *)
(* it is closed, for any callers, threshold and retry limit.  The agent's  *)
(* retry counter stays in its type only because a process that reaches the *)
(* limit exits: RetriesBelowLimit is the strengthening that says so.       *)
(***************************************************************************)
EXTENDS DbCircuitBreaker, TLAPS

\* The agent that has used up its retries has exited.
RetriesBelowLimit == authRetries = AuthLimit => agent = "exited"

IInv == TypeOK /\ RetriesBelowLimit /\ ClosedBelowThreshold

\* A failure counted once or twice stays within the threshold.
LEMMA CountedType ==
    ASSUME failures \in 0..Threshold, NEW n \in {1, 2}
    PROVE  /\ Counted(n) \in 0..Threshold
           /\ Counted(n) # Threshold => Counted(n) < Threshold
  BY BreakerAssumption DEF Counted

\* isAvailable() keeps the breaker's part of the invariant.
LEMMA AdmitKeeps ==
    ASSUME IInv, NEW c \in Caller \cup {Nobody}, Admit(c)
    PROVE  /\ circuit' \in {"CLOSED", "OPEN", "HALF_OPEN"}
           /\ failures' \in 0..Threshold
           /\ cooled' \in BOOLEAN
           /\ probe' \in Caller \cup {Nobody}
           /\ ClosedBelowThreshold'
  BY DEF IInv, TypeOK, Admit, Available, ClosedBelowThreshold

\* recordSuccess() keeps the breaker's part of the invariant.
LEMMA SuccessKeeps ==
    ASSUME IInv, RecordSuccess
    PROVE  /\ circuit' \in {"CLOSED", "OPEN", "HALF_OPEN"}
           /\ failures' \in 0..Threshold
           /\ cooled' \in BOOLEAN
           /\ probe' \in Caller \cup {Nobody}
           /\ ClosedBelowThreshold'
  BY BreakerAssumption DEF IInv, TypeOK, RecordSuccess, ClosedBelowThreshold

\* recordFailure() keeps it too, once or twice in a row.
LEMMA FailureKeeps ==
    ASSUME IInv, NEW n \in {1, 2}, RecordFailure(n)
    PROVE  /\ circuit' \in {"CLOSED", "OPEN", "HALF_OPEN"}
           /\ failures' \in 0..Threshold
           /\ cooled' \in BOOLEAN
           /\ probe' \in Caller \cup {Nobody}
           /\ ClosedBelowThreshold'
  <1>1. /\ Counted(n) \in 0..Threshold
        /\ Counted(n) # Threshold => Counted(n) < Threshold
    BY CountedType DEF IInv, TypeOK
  <1>2. QED
    BY <1>1 DEF IInv, TypeOK, RecordFailure, ClosedBelowThreshold

\* A tick that goes on or ends leaves a query state and a set of ticks.
LEMMA ContinueType ==
    ASSUME IInv, NEW c \in Caller, Continue(c)
    PROVE  query' \in [Caller -> {"idle", "clean", "risky"}] /\ more' \subseteq Background
  BY DEF IInv, TypeOK, Continue, Issued

\* A failed query is charged to the outage or to the bounded errors.
LEMMA BlameType ==
    ASSUME IInv, NEW c \in Caller, CanFail(c), Blame(c)
    PROVE  errors' \in 0..MaxErrors
  BY BreakerAssumption DEF IInv, TypeOK, CanFail, Blame

\* The agent and the callers of each kind are callers.
LEMMA CallersType == Agent \in Caller /\ Ungated \subseteq Caller /\ Gated \subseteq Caller
  BY DEF Caller

\* The inductive step, one action at a time.
LEMMA StepKeeps == IInv /\ [Next]_vars => IInv'
  <1> SUFFICES ASSUME IInv, [Next]_vars PROVE IInv'
    OBVIOUS
  <1>0. Agent \in Caller /\ Ungated \subseteq Caller /\ Gated \subseteq Caller
    BY CallersType
  <1>1. ASSUME NEW c \in Ungated, IssueUngated(c) PROVE IInv'
    BY <1>0, <1>1 DEF IInv, TypeOK, RetriesBelowLimit, ClosedBelowThreshold, IssueUngated, Issued,
       breakerVars, agentVars, boundVars
  <1>2. ASSUME NEW c \in Gated, Tick(c) PROVE IInv'
    <2>1. Admit(c) /\ c \in Caller
      BY <1>0, <1>2 DEF Tick
    <2>2. query' \in [Caller -> {"idle", "clean", "risky"}] /\ more' \subseteq Background
      BY <1>2 DEF IInv, TypeOK, Tick, Issued
    <2>3. QED
      BY <1>2, <2>1, <2>2, AdmitKeeps
      DEF IInv, TypeOK, RetriesBelowLimit, Tick, agentVars, boundVars
  <1>3. ASSUME NEW c \in Caller, Succeed(c) PROVE IInv'
    <2>1. RecordSuccess /\ Continue(c)
      BY <1>3 DEF Succeed
    <2>2. QED
      BY <1>3, <2>1, SuccessKeeps, ContinueType
      DEF IInv, TypeOK, RetriesBelowLimit, Succeed, agentVars, boundVars
  <1>4. ASSUME NEW c \in Caller, Fail(c) PROVE IInv'
    <2>1. CanFail(c) /\ Blame(c) /\ Continue(c)
      BY <1>4 DEF Fail
    <2>2. PICK n \in {1, 2} : RecordFailure(n)
      BY <1>4 DEF Fail
    <2>3. QED
      BY <1>4, <2>1, <2>2, FailureKeeps, ContinueType, BlameType
      DEF IInv, TypeOK, RetriesBelowLimit, Fail, agentVars
  <1>5. CASE UnrecordedProbe
    BY <1>5, AdmitKeeps DEF IInv, TypeOK, RetriesBelowLimit, UnrecordedProbe, agentVars, boundVars
  <1>6. CASE AgentConnects
    BY <1>6 DEF IInv, TypeOK, RetriesBelowLimit, ClosedBelowThreshold, AgentConnects,
       breakerVars, boundVars
  <1>7. CASE Authenticate
    <2>1. CASE ~Available
      BY <1>7, <2>1 DEF IInv, TypeOK, RetriesBelowLimit, ClosedBelowThreshold, Authenticate,
         Refused, Admit, breakerVars, boundVars
    <2>2. CASE Available
      <3>1. Admit(Agent)
        BY <1>7, <2>2 DEF Authenticate
      <3>2. query' \in [Caller -> {"idle", "clean", "risky"}]
        BY <1>0, <1>7, <2>2 DEF IInv, TypeOK, Authenticate, Issued
      <3>3. agent' = "selecting" /\ agent = "connected" /\ told' = told
        BY <1>7, <2>2 DEF Authenticate
      <3>4. /\ circuit' \in {"CLOSED", "OPEN", "HALF_OPEN"}
            /\ failures' \in 0..Threshold
            /\ cooled' \in BOOLEAN
            /\ probe' \in Caller \cup {Nobody}
            /\ ClosedBelowThreshold'
        BY <1>0, <3>1, AdmitKeeps
      <3>5. UNCHANGED <<up, more, authRetries, errors, restarts>>
        BY <1>7 DEF Authenticate, boundVars
      <3>6. RetriesBelowLimit'
        BY <3>3, <3>5 DEF IInv, RetriesBelowLimit
      <3>7. told' \in BOOLEAN /\ up' \in BOOLEAN
        BY <3>3, <3>5, Zenon DEF IInv, TypeOK
      <3>8. /\ more' \subseteq Background
            /\ agent' \in {"disconnected", "connected", "selecting", "updating", "on", "exited"}
            /\ authRetries' \in 0..AuthLimit
            /\ errors' \in 0..MaxErrors
            /\ restarts' \in 0..MaxRestarts
        BY <3>3, <3>5 DEF IInv, TypeOK
      <3>9. QED
        BY <3>2, <3>4, <3>6, <3>7, <3>8 DEF IInv, TypeOK
    <2>3. QED
      BY <2>1, <2>2
  <1>8. CASE AgentQuerySucceeds
    <2>1. RecordSuccess
      BY <1>8 DEF AgentQuerySucceeds
    <2>2. query' \in [Caller -> {"idle", "clean", "risky"}]
      BY <1>0, <1>8 DEF IInv, TypeOK, AgentQuerySucceeds, Issued
    <2>3. authRetries' \in 0..AuthLimit /\ authRetries' # AuthLimit
      BY <1>8, BreakerAssumption DEF IInv, TypeOK, RetriesBelowLimit, AgentQuerySucceeds
    <2>4. QED
      BY <1>8, <2>1, <2>2, <2>3, SuccessKeeps
      DEF IInv, TypeOK, RetriesBelowLimit, AgentQuerySucceeds, boundVars
  <1>9. CASE AgentQueryFails
    <2>1. CanFail(Agent) /\ Blame(Agent) /\ RecordFailure(1)
      BY <1>9 DEF AgentQueryFails
    <2>2. query' \in [Caller -> {"idle", "clean", "risky"}]
      BY <1>0, <1>9 DEF IInv, TypeOK, AgentQueryFails
    <2>3. authRetries' \in 0..AuthLimit /\ RetriesBelowLimit'
      BY <1>9, BreakerAssumption DEF IInv, TypeOK, RetriesBelowLimit, AgentQueryFails
    <2>4. /\ circuit' \in {"CLOSED", "OPEN", "HALF_OPEN"}
          /\ failures' \in 0..Threshold
          /\ cooled' \in BOOLEAN
          /\ probe' \in Caller \cup {Nobody}
          /\ ClosedBelowThreshold'
      <3>1. 1 \in {1, 2}
        OBVIOUS
      <3>2. QED
        BY <2>1, <3>1, FailureKeeps
    <2>5. errors' \in 0..MaxErrors
      BY <1>0, <2>1, BlameType
    <2>6. /\ agent' \in {"disconnected", "connected", "selecting", "updating", "on", "exited"}
          /\ UNCHANGED <<up, more, told, restarts>>
      BY <1>9 DEF AgentQueryFails
    <2>7. told' \in BOOLEAN /\ up' \in BOOLEAN
      BY <2>6, Zenon DEF IInv, TypeOK
    <2>8. QED
      BY <2>2, <2>3, <2>4, <2>5, <2>6, <2>7 DEF IInv, TypeOK
  <1>10. CASE AgentRestarts
    <2>1. /\ agent' = "disconnected"
          /\ authRetries' = 0
          /\ told' \in BOOLEAN
          /\ UNCHANGED <<circuit, failures, cooled, probe, up, query, more, errors, restarts>>
      BY <1>10 DEF AgentRestarts, breakerVars, boundVars
    <2>2. /\ authRetries' \in 0..AuthLimit
          /\ RetriesBelowLimit'
      BY <2>1, BreakerAssumption DEF RetriesBelowLimit
    <2>3. cooled' \in BOOLEAN /\ up' \in BOOLEAN /\ ClosedBelowThreshold'
      BY <2>1, Zenon DEF IInv, TypeOK, ClosedBelowThreshold
    <2>4. QED
      BY <2>1, <2>2, <2>3 DEF IInv, TypeOK
  <1>11. CASE AgentLosesConnection
    BY <1>0, <1>11, BreakerAssumption DEF IInv, TypeOK, RetriesBelowLimit, ClosedBelowThreshold,
       AgentLosesConnection, breakerVars
  <1>12. CASE DbGoesDown \/ DbComesBack \/ CooldownElapses \/ DelayElapses
    BY <1>12 DEF IInv, TypeOK, RetriesBelowLimit, ClosedBelowThreshold, DbGoesDown, DbComesBack,
       CooldownElapses, DelayElapses, breakerVars, agentVars, boundVars
  <1>13. CASE ServerRestart
    BY <1>13, BreakerAssumption DEF IInv, TypeOK, RetriesBelowLimit, ClosedBelowThreshold,
       ServerRestart
  <1>14. CASE UNCHANGED vars
    BY <1>14 DEF IInv, TypeOK, RetriesBelowLimit, ClosedBelowThreshold, vars, breakerVars,
       agentVars, boundVars
  <1>15. CASE AgentNext \/ AgentLosesConnection
    BY <1>6, <1>7, <1>8, <1>9, <1>10, <1>11, <1>15 DEF AgentNext
  <1>16. QED
    BY <1>1, <1>2, <1>3, <1>4, <1>5, <1>12, <1>13, <1>14, <1>15 DEF Next, CallerNext

\* The initial state satisfies the invariant.
LEMMA InitHolds == Init => IInv
  <1> SUFFICES ASSUME Init PROVE IInv
    OBVIOUS
  <1>1. TypeOK
    <2>1. /\ failures \in 0..Threshold
          /\ authRetries \in 0..AuthLimit
          /\ errors \in 0..MaxErrors
          /\ restarts \in 0..MaxRestarts
      BY BreakerAssumption DEF Init
    <2>2. cooled \in BOOLEAN /\ up \in BOOLEAN /\ told \in BOOLEAN
      BY DEF Init
    <2>3. query \in [Caller -> {"idle", "clean", "risky"}]
      BY DEF Init
    <2>4. QED
      BY <2>1, <2>2, <2>3 DEF Init, TypeOK
  <1>2. RetriesBelowLimit /\ ClosedBelowThreshold
    BY BreakerAssumption DEF Init, RetriesBelowLimit, ClosedBelowThreshold
  <1>3. QED
    BY <1>1, <1>2 DEF IInv

\* The inductive invariant holds of every behaviour.
LEMMA Inductive == Spec => []IInv
  BY InitHolds, StepKeeps, PTL DEF Spec

\* Type correctness, for any set of callers: the agent's counter stops at its
\* limit and no order of recorded outcomes leads the breaker out of its states.
THEOREM TypeCorrect == Spec => []TypeOK
  <1>1. IInv => TypeOK
    BY DEF IInv
  <1>2. QED
    BY Inductive, <1>1, PTL

\* The breaker is closed only below the threshold, whatever the number of
\* callers and the order in which their outcomes are recorded.
THEOREM ThresholdOpens == Spec => []ClosedBelowThreshold
  <1>1. IInv => ClosedBelowThreshold
    BY DEF IInv
  <1>2. QED
    BY Inductive, <1>1, PTL
=============================================================================
