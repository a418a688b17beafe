-------------------------- MODULE DbCircuitBreaker --------------------------
(***************************************************************************)
(* The circuit breaker of the central server's database                    *)
(* (db-circuit-breaker.service.ts), the callers that ask it before they    *)
(* query, the callers that do not, and an agent that tries to authenticate *)
(* through it (socket.service.ts, agent.js).                               *)
(*                                                                         *)
(* query() of config/database.ts records the outcome of each query, asked  *)
(* for or not; a query may fail because the database is down, because it   *)
(* was down at some time since the query was issued, or because of its own *)
(* SQL.  A tick is a sequence of queries; those of one tick that run in    *)
(* parallel (Promise.all) are queries of other callers here.               *)
(***************************************************************************)
EXTENDS Naturals

CONSTANTS
    Ungated,      \* callers that never ask: user requests, the 60 s DB sync
    Background,   \* ticks of several queries behind one isAvailable()
    Counting,     \* ticks that record the outcome a second time themselves
    Agent,        \* the site whose authentication is followed
    Nobody,
    Threshold,    \* failureThreshold
    AuthLimit,    \* MAX_AUTH_RETRIES
    MaxErrors,    \* bound: SQL errors, connections lost during authentication
    MaxRestarts   \* bound: restarts of the server process

Gated == Background \cup Counting
Caller == Ungated \cup Gated \cup {Agent}

ASSUME BreakerAssumption ==
    /\ Nobody \notin Caller
    /\ Agent \notin Ungated \cup Gated
    /\ Ungated \cap Gated = {}
    /\ Background \cap Counting = {}
    /\ Threshold \in Nat \ {0}
    /\ AuthLimit \in Nat \ {0}
    /\ MaxErrors \in Nat
    /\ MaxRestarts \in Nat

VARIABLES
    circuit,   \* state
    failures,  \* consecutiveFailures, no further than Threshold
    cooled,    \* cooldownMs have elapsed since lastFailureAt
    probe,     \* who moved the circuit to HALF_OPEN, or Nobody
    up,        \* the database answers
    query,     \* of each caller: "idle", "clean" or "risky" (in flight)
    more,      \* background ticks with queries still to issue
    agent,     \* the agent and its authentication
    told,      \* the agent has been told to wait, and the delay is not over
    authRetries,
    errors,
    restarts

breakerVars == <<circuit, failures, cooled, probe>>
agentVars == <<agent, told, authRetries>>
boundVars == <<errors, restarts>>
vars == <<breakerVars, up, query, more, agentVars, boundVars>>

TypeOK ==
    /\ circuit \in {"CLOSED", "OPEN", "HALF_OPEN"}
    /\ failures \in 0..Threshold
    /\ cooled \in BOOLEAN
    /\ probe \in Caller \cup {Nobody}
    /\ up \in BOOLEAN
    /\ query \in [Caller -> {"idle", "clean", "risky"}]
    /\ more \subseteq Background
    /\ agent \in {"disconnected", "connected", "selecting", "updating", "on", "exited"}
    /\ told \in BOOLEAN
    /\ authRetries \in 0..AuthLimit
    /\ errors \in 0..MaxErrors
    /\ restarts \in 0..MaxRestarts

Init ==
    /\ circuit = "CLOSED"
    /\ failures = 0
    /\ cooled = TRUE
    /\ probe = Nobody
    /\ up = TRUE
    /\ query = [c \in Caller |-> "idle"]
    /\ more = {}
    /\ agent = "disconnected"
    /\ told = FALSE
    /\ authRetries = 0
    /\ errors = 0
    /\ restarts = 0

-----------------------------------------------------------------------------
(* The breaker *)

Issued == IF up THEN "clean" ELSE "risky"

Available == circuit = "CLOSED" \/ (circuit = "OPEN" /\ cooled)

\* isAvailable() returns true to c; the first call after the cooldown is the
\* probe, whatever c then does with the answer.
Admit(c) ==
    /\ Available
    /\ circuit' = IF circuit = "OPEN" THEN "HALF_OPEN" ELSE circuit
    /\ probe' = IF circuit = "OPEN" THEN c ELSE probe
    /\ UNCHANGED <<failures, cooled>>

\* Mutant: only the count is reset.
SuccessKeepsState ==
    /\ failures' = 0
    /\ UNCHANGED <<circuit, cooled, probe>>

RecordSuccess ==
    /\ circuit' = IF circuit = "HALF_OPEN" THEN "CLOSED" ELSE circuit
    /\ probe' = Nobody
    /\ failures' = 0
    /\ UNCHANGED cooled

Counted(n) == IF failures + n < Threshold THEN failures + n ELSE Threshold

\* Mutant: the threshold is tested with > instead of >=.
FailureTestedBeforehand(n) ==
    /\ failures' = Counted(n)
    /\ cooled' = FALSE
    /\ circuit' = IF circuit = "HALF_OPEN" \/ failures = Threshold THEN "OPEN" ELSE circuit
    /\ probe' = Nobody

\* recordFailure, n times in a row.
RecordFailure(n) ==
    /\ failures' = Counted(n)
    /\ cooled' = FALSE
    /\ circuit' = IF circuit = "HALF_OPEN" \/ Counted(n) = Threshold THEN "OPEN" ELSE circuit
    /\ probe' = Nobody

-----------------------------------------------------------------------------
(* Queries *)

CanFail(c) == query[c] = "risky" \/ errors < MaxErrors

\* The cause of a failure: the outage, or one of the bounded SQL errors.
Blame(c) == errors' = IF query[c] = "risky" THEN errors ELSE errors + 1

\* A caller that does not ask issues a query, in any state of the circuit.
IssueUngated(c) ==
    /\ query[c] = "idle"
    /\ query' = [query EXCEPT ![c] = Issued]
    /\ UNCHANGED <<breakerVars, up, more, agentVars, boundVars>>

\* The tick of a gated caller begins.
Tick(c) ==
    /\ query[c] = "idle"
    /\ Admit(c)
    /\ query' = [query EXCEPT ![c] = Issued]
    /\ more' = IF c \in Background THEN more \cup {c} ELSE more
    /\ UNCHANGED <<up, agentVars, boundVars>>

\* The next state of the caller's query: a background tick goes on with its
\* next one, without asking again, or ends.
Continue(c) ==
    \/ /\ query' = [query EXCEPT ![c] = "idle"]
       /\ more' = more \ {c}
    \/ /\ c \in more
       /\ query' = [query EXCEPT ![c] = Issued]
       /\ more' = more \ {c}

Succeed(c) ==
    /\ c # Agent
    /\ query[c] # "idle"
    /\ up
    /\ RecordSuccess
    /\ Continue(c)
    /\ UNCHANGED <<up, agentVars, boundVars>>

\* A counting caller catches the error and records it a second time.
Fail(c) ==
    /\ c # Agent
    /\ query[c] # "idle"
    /\ CanFail(c)
    /\ Blame(c)
    /\ RecordFailure(IF c \in Counting THEN 2 ELSE 1)
    /\ Continue(c)
    /\ UNCHANGED <<up, agentVars, restarts>>

\* The database size check and an 'authenticate' without credentials ask, and
\* record nothing.
UnrecordedProbe ==
    /\ Admit(Nobody)
    /\ UNCHANGED <<up, query, more, agentVars, boundVars>>

-----------------------------------------------------------------------------
(* The agent *)

\* The agent connects and emits 'authenticate' at once (handleConnect).  After
\* a disconnect by the server, handleDisconnect reconnects immediately.
AgentConnects ==
    /\ agent = "disconnected"
    /\ agent' = "connected"
    /\ UNCHANGED <<breakerVars, up, query, more, told, authRetries, boundVars>>

\* Mutant: the server leaves a refused agent connected.
RefusedStaysConnected == "updating"

Refused == "disconnected"

\* 'authenticate' arrives: retry_later and disconnect, or the SELECT.
Authenticate ==
    /\ agent = "connected"
    /\ \/ /\ ~Available
          /\ agent' = Refused
          /\ told' = TRUE
          /\ UNCHANGED <<breakerVars, query>>
       \/ /\ Admit(Agent)
          /\ agent' = "selecting"
          /\ query' = [query EXCEPT ![Agent] = Issued]
          /\ UNCHANGED told
    /\ UNCHANGED <<up, more, authRetries, boundVars>>

\* The SELECT is followed by the UPDATE, and that one by 'authenticated'.
AgentQuerySucceeds ==
    /\ agent \in {"selecting", "updating"}
    /\ query[Agent] # "idle"
    /\ up
    /\ RecordSuccess
    /\ IF agent = "selecting"
       THEN /\ agent' = "updating"
            /\ query' = [query EXCEPT ![Agent] = Issued]
            /\ UNCHANGED authRetries
       ELSE /\ agent' = "on"
            /\ query' = [query EXCEPT ![Agent] = "idle"]
            /\ authRetries' = 0
    /\ UNCHANGED <<up, more, told, boundVars>>

\* Mutant: the agent gives up one failure too late.
AgentGivesUpLate ==
    /\ agent \in {"selecting", "updating"}
    /\ query[Agent] # "idle"
    /\ CanFail(Agent)
    /\ Blame(Agent)
    /\ RecordFailure(1)
    /\ query' = [query EXCEPT ![Agent] = "idle"]
    /\ authRetries' = authRetries + 1
    /\ agent' = IF authRetries = AuthLimit THEN "exited" ELSE "disconnected"
    /\ UNCHANGED <<up, more, told, restarts>>

\* auth_error and disconnect; the agent's process exits at the limit.
AgentQueryFails ==
    /\ agent \in {"selecting", "updating"}
    /\ query[Agent] # "idle"
    /\ CanFail(Agent)
    /\ Blame(Agent)
    /\ RecordFailure(1)
    /\ query' = [query EXCEPT ![Agent] = "idle"]
    /\ authRetries' = authRetries + 1
    /\ agent' = IF authRetries + 1 = AuthLimit THEN "exited" ELSE "disconnected"
    /\ UNCHANGED <<up, more, told, restarts>>

\* systemd starts the agent's process again.
AgentRestarts ==
    /\ agent = "exited"
    /\ agent' = "disconnected"
    /\ authRetries' = 0
    /\ told' = FALSE
    /\ UNCHANGED <<breakerVars, up, query, more, boundVars>>

\* A connection is lost.  The query of an authentication cut short ends in the
\* server like one of an ungated caller.
AgentLosesConnection ==
    /\ \/ agent = "on" /\ UNCHANGED errors
       \/ /\ agent \in {"connected", "selecting", "updating"}
          /\ errors < MaxErrors
          /\ errors' = errors + 1
    /\ agent' = "disconnected"
    /\ query' = [query EXCEPT ![Agent] = "idle"]
    /\ UNCHANGED <<breakerVars, up, more, told, authRetries, restarts>>

-----------------------------------------------------------------------------
(* Environment *)

\* The database stops answering: every query in flight may time out.
DbGoesDown ==
    /\ up
    /\ up' = FALSE
    /\ query' = [c \in Caller |-> IF query[c] = "idle" THEN "idle" ELSE "risky"]
    /\ UNCHANGED <<breakerVars, more, agentVars, boundVars>>

DbComesBack ==
    /\ ~up
    /\ up' = TRUE
    /\ UNCHANGED <<breakerVars, query, more, agentVars, boundVars>>

CooldownElapses ==
    /\ ~cooled
    /\ cooled' = TRUE
    /\ UNCHANGED <<circuit, failures, probe, up, query, more, agentVars, boundVars>>

\* The delay the agent was told to wait is over.
DelayElapses ==
    /\ told
    /\ told' = FALSE
    /\ UNCHANGED <<breakerVars, up, query, more, agent, authRetries, boundVars>>

\* A new process: the breaker is closed and every connection is gone.
ServerRestart ==
    /\ restarts < MaxRestarts
    /\ restarts' = restarts + 1
    /\ circuit' = "CLOSED"
    /\ failures' = 0
    /\ cooled' = TRUE
    /\ probe' = Nobody
    /\ query' = [c \in Caller |-> "idle"]
    /\ more' = {}
    /\ agent' = IF agent = "exited" THEN "exited" ELSE "disconnected"
    /\ UNCHANGED <<up, told, authRetries, errors>>

CallerNext(c) == Succeed(c) \/ Fail(c)

AgentNext ==
    \/ AgentConnects \/ Authenticate \/ AgentQuerySucceeds \/ AgentQueryFails
    \/ AgentRestarts

Next ==
    \/ \E c \in Ungated : IssueUngated(c)
    \/ \E c \in Gated : Tick(c)
    \/ \E c \in Caller : CallerNext(c)
    \/ UnrecordedProbe
    \/ AgentNext \/ AgentLosesConnection
    \/ DbGoesDown \/ DbComesBack \/ CooldownElapses \/ DelayElapses
    \/ ServerRestart

Spec == Init /\ [][Next]_vars

\* Timers fire, clocks advance, every query is answered or times out, systemd restarts the
\* agent, which keeps trying, and the callers that do not ask keep querying:
\* syncDbWithWebSocketState does every 60 s.
Fairness ==
    /\ \A c \in Ungated : WF_vars(IssueUngated(c))
    /\ \A c \in Gated : WF_vars(Tick(c))
    /\ \A c \in Caller : WF_vars(CallerNext(c))
    /\ WF_vars(AgentNext)
    /\ WF_vars(CooldownElapses)

FairSpec == Spec /\ Fairness

-----------------------------------------------------------------------------
(* Properties *)

\* The circuit is closed only below the threshold: no order of late results,
\* double records and resets leaves a failing database unnoticed.
ClosedBelowThreshold == circuit = "CLOSED" => failures < Threshold

\* After an outage the circuit closes for good, whoever took the probe, even a
\* caller that records nothing.
RecoversAfterOutage == <>[]up => <>[](circuit = "CLOSED")

\* Once the database answers, the agent gets in again and again, although it
\* may have been refused, told to wait, or have given up and been restarted.
AgentAuthenticates == <>[]up => []<>(agent = "on")
=============================================================================
