------------------------ MODULE CommandChannel_proofs ------------------------
(***************************************************************************)
(* CommandChannel for any number of commands, sockets, failures and        *)
(* overlapping runs of processPendingCommands: the bound on the attempts   *)
(* of a row, the registry of connections below it, the types, what is sent *)
(* and by whom, and what comes back.                                       *)
(***************************************************************************)
EXTENDS CommandChannel, FiniteSetTheorems, SequenceTheorems, TLAPS

\* The runs that are still going to increment the attempts of c.
Pending(c) ==
    {d \in Drain : c \in todo[d] \/ (drain[d] = "attempt" /\ current[d][1] = c)}

\* The part of the types that the attempts depend on.
QueueTypeOK ==
    /\ queued \subseteq Command
    /\ attempts \in [Command -> Nat]
    /\ drain \in [Drain -> {"idle", "row", "attempt", "insert", "marking", "delete"}]
    /\ todo \in [Drain -> SUBSET Command]
    /\ current \in [Drain -> (Command \X Nat) \cup {NoId}]
    /\ \A d \in Drain : drain[d] = "attempt" =>
          /\ current[d] \in Command \X Nat
          /\ current[d][1] \notin todo[d]
    /\ \A d \in Drain : drain[d] \in {"insert", "marking", "delete"} =>
          current[d] \in Command \X Nat

\* Every run reserves the increment it is going to make: this is what makes
\* the bound inductive.
Reserved == \A c \in Command : attempts[c] + Cardinality(Pending(c)) <= AttemptLimit

IInv == QueueTypeOK /\ Reserved

\* At most every run at once holds a reservation on a command.
LEMMA PendingFinite ==
    \A c \in Command :
        /\ IsFiniteSet(Pending(c))
        /\ Cardinality(Pending(c)) \in Nat
        /\ Cardinality(Pending(c)) <= Cardinality(Drain)
        /\ Cardinality(Drain) \in Nat
BY ChannelAssumption, FS_Subset, FS_CardinalityType DEF ChannelAssumption, Pending

\* The bound of AttemptsBounded is max_attempts - 1 plus one attempt per run.
LEMMA LimitType == AttemptLimit \in Nat /\ MaxAttempts - 1 + Cardinality(Drain) = AttemptLimit
BY ChannelAssumption, FS_CardinalityType DEF ChannelAssumption, AttemptLimit

\* A step that adds no reservation and makes no increment keeps the bound.
LEMMA FewerReservations ==
    ASSUME IInv, UNCHANGED attempts,
           \A c \in Command : Pending(c)' \subseteq Pending(c)
    PROVE  Reserved'
<1>1. ASSUME NEW c \in Command PROVE Cardinality(Pending(c)') <= Cardinality(Pending(c))
    BY PendingFinite, FS_Subset
<1>2. ASSUME NEW c \in Command PROVE attempts[c] \in Nat /\ Cardinality(Pending(c)') \in Nat
    BY PendingFinite, FS_Subset, FS_CardinalityType DEF IInv, QueueTypeOK
<1> QED BY <1>1, <1>2, PendingFinite, LimitType DEF IInv, Reserved, AttemptLimit

\* The steps of the requests, the connections, the agent and the results leave
\* the runs and the attempts alone.
LEMMA OtherSteps ==
    ASSUME QueueTypeOK, UNCHANGED <<attempts, drainVars>>, queued' \subseteq Command
    PROVE  QueueTypeOK' /\ \A c \in Command : Pending(c)' = Pending(c)
<1>1. QueueTypeOK'
    BY DEF QueueTypeOK, drainVars
<1> QED BY <1>1 DEF Pending, drainVars

\* sendOrQueue adds rows to the queue and leaves the runs and the attempts alone.
LEMMA RequestSteps ==
    ASSUME QueueTypeOK, NEW c \in Command, RequestNext(c)
    PROVE  UNCHANGED <<attempts, drainVars>> /\ queued' \subseteq Command
BY DEF RequestNext, SendOrQueue, InsertAndSend, MarkExecuting, MarkZombieFailed,
   QueueCommand, RequestFails, QueueTypeOK, queueVars, drainVars

\* DrainSelect reserves an increment for the rows below the limit only.
LEMMA SelectStep ==
    ASSUME IInv, NEW d \in Drain, DrainSelect(d)
    PROVE  IInv'
<1>1. QueueTypeOK'
    BY DEF IInv, QueueTypeOK, DrainSelect, Eligible, queueVars
<1>2. ASSUME NEW c \in Command
      PROVE  attempts'[c] + Cardinality(Pending(c)') <= AttemptLimit
    <2>1. attempts' = attempts /\ attempts[c] \in Nat
        BY DEF IInv, QueueTypeOK, DrainSelect, queueVars
    <2>2. Pending(c)' \subseteq Drain
        BY DEF Pending
    <2>3. Cardinality(Pending(c)') \in Nat /\ Cardinality(Pending(c)') <= Cardinality(Drain)
        BY <2>2, ChannelAssumption, FS_Subset, FS_CardinalityType DEF ChannelAssumption
    <2>4. CASE c \in Eligible
        BY <2>1, <2>3, <2>4, LimitType, PendingFinite, ChannelAssumption
           DEF Eligible, ChannelAssumption
    <2>5. CASE c \notin Eligible
        <3>1. Pending(c)' \subseteq Pending(c)
            BY <2>5 DEF Pending, DrainSelect, IInv, QueueTypeOK
        <3>2. Cardinality(Pending(c)') <= Cardinality(Pending(c))
            BY <3>1, PendingFinite, FS_Subset
        <3> QED BY <2>1, <2>3, <3>2, PendingFinite, LimitType DEF IInv, Reserved
    <2> QED BY <2>4, <2>5
<1> QED BY <1>1, <1>2 DEF IInv, Reserved

\* DrainNextRow turns the reservation of a snapshot into that of a row.
LEMMA NextRowStep ==
    ASSUME IInv, NEW d \in Drain, DrainNextRow(d)
    PROVE  IInv'
<1>1. PICK e \in todo[d] : /\ todo' = [todo EXCEPT ![d] = @ \ {e}]
                           /\ current' = [current EXCEPT ![d] = <<e, 0>>]
    BY DEF DrainNextRow
<1>2. QueueTypeOK'
    BY <1>1 DEF IInv, QueueTypeOK, DrainNextRow, queueVars
<1>3. \A c \in Command : Pending(c)' \subseteq Pending(c)
    BY <1>1 DEF Pending, DrainNextRow, IInv, QueueTypeOK
<1> QED BY <1>2, <1>3, FewerReservations DEF DrainNextRow, queueVars, IInv

\* DrainAttempt makes one increment and gives up the reservation for it.
LEMMA AttemptStep ==
    ASSUME IInv, NEW d \in Drain, DrainAttempt(d)
    PROVE  IInv'
<1> DEFINE e == current[d][1]
           n == attempts[e] + (IF e \in queued THEN 1 ELSE 0)
<1>1. e \in Command /\ e \notin todo[d] /\ drain[d] = "attempt" /\ current[d] \in Command \X Nat
    BY DEF DrainAttempt, IInv, QueueTypeOK
<1>2. n \in Nat /\ n <= attempts[e] + 1
    BY <1>1 DEF IInv, QueueTypeOK
<1>3. /\ attempts' = [attempts EXCEPT ![e] = n]
      /\ drain' = [drain EXCEPT ![d] = "insert"]
      /\ current' = [current EXCEPT ![d] = <<e, n>>]
      /\ todo' = todo /\ queued' = queued
    BY DEF DrainAttempt
<1> HIDE DEF e, n
<1>4. QueueTypeOK'
    BY <1>1, <1>2, <1>3 DEF IInv, QueueTypeOK
<1>5. ASSUME NEW c \in Command
      PROVE  attempts'[c] + Cardinality(Pending(c)') <= AttemptLimit
    <2>1. CASE c = e
        <3>1. Pending(c)' = Pending(c) \ {d}
            BY <1>1, <1>3, <2>1 DEF Pending, IInv, QueueTypeOK
        <3>2. d \in Pending(c)
            BY <1>1, <2>1 DEF Pending, e
        <3>3. Cardinality(Pending(c)') = Cardinality(Pending(c)) - 1
            BY <3>1, <3>2, PendingFinite, FS_RemoveElement
        <3> QED BY <1>2, <1>3, <2>1, <3>3, PendingFinite, LimitType DEF IInv, Reserved, QueueTypeOK
    <2>2. CASE c # e
        <3>1. Pending(c)' \subseteq Pending(c)
            BY <1>1, <1>3, <2>2 DEF Pending, IInv, QueueTypeOK, e
        <3>2. Cardinality(Pending(c)') <= Cardinality(Pending(c)) /\ Cardinality(Pending(c)') \in Nat
            BY <3>1, PendingFinite, FS_Subset, FS_CardinalityType
        <3>3. attempts'[c] = attempts[c] /\ attempts[c] \in Nat
            BY <1>3, <2>2 DEF IInv, QueueTypeOK
        <3> QED BY <3>2, <3>3, PendingFinite, LimitType DEF IInv, Reserved
    <2> QED BY <2>1, <2>2
<1> QED BY <1>4, <1>5 DEF IInv, Reserved

\* The other steps of a run only drop reservations.
LEMMA OtherDrainSteps ==
    ASSUME IInv, NEW d \in Drain,
           DrainEnds(d) \/ DrainInsertAndSend(d) \/ DrainMark(d) \/ DrainDelete(d) \/ DrainQueryFails(d)
    PROVE  IInv'
<1>1. UNCHANGED attempts /\ queued' \subseteq Command
    BY DEF IInv, QueueTypeOK, DrainEnds, DrainInsertAndSend, DrainMark, DrainDelete,
           DrainQueryFails, queueVars
<1>2. QueueTypeOK'
    BY <1>1 DEF IInv, QueueTypeOK, DrainEnds, DrainInsertAndSend, DrainMark, DrainDelete,
                DrainQueryFails, NextRow
<1>3. \A c \in Command : Pending(c)' \subseteq Pending(c)
    BY DEF Pending, IInv, QueueTypeOK, DrainEnds, DrainInsertAndSend, DrainMark, DrainDelete,
           DrainQueryFails, NextRow
<1> QED BY <1>1, <1>2, <1>3, FewerReservations DEF IInv

\* A restart of the server ends every run.
LEMMA RestartStep ==
    ASSUME IInv, ServerRestart
    PROVE  IInv'
<1>1. QueueTypeOK'
    BY DEF IInv, QueueTypeOK, ServerRestart, queueVars
<1>2. \A c \in Command : Pending(c)' \subseteq Pending(c)
    BY DEF Pending, ServerRestart
<1> QED BY <1>1, <1>2, FewerReservations DEF IInv, ServerRestart, queueVars

\* No run has a reservation at the start.
LEMMA AttemptsInit == Init => IInv
<1> SUFFICES ASSUME Init PROVE IInv
    OBVIOUS
<1>1. QueueTypeOK
    BY DEF Init, QueueTypeOK
<1>2. \A c \in Command : Pending(c) = {}
    BY DEF Init, Pending
<1>3. \A c \in Command : attempts[c] = 0 /\ Cardinality(Pending(c)) = 0
    BY <1>2, FS_EmptySet DEF Init
<1> QED BY <1>1, <1>3, LimitType DEF IInv, Reserved

\* Every step keeps the reservations within the limit.
LEMMA AttemptsNext == IInv /\ [Next]_vars => IInv'
<1> SUFFICES ASSUME IInv, [Next]_vars PROVE IInv'
    OBVIOUS
<1>1. ASSUME UNCHANGED <<attempts, drainVars>>, queued' \subseteq Command PROVE IInv'
    BY <1>1, OtherSteps, FewerReservations DEF IInv
<1>2. ASSUME NEW c \in Command, RequestNext(c) PROVE IInv'
    BY <1>1, <1>2, RequestSteps DEF IInv
<1>3. ASSUME NEW d \in Drain, DrainNext(d) PROVE IInv'
    BY <1>3, SelectStep, NextRowStep, AttemptStep, OtherDrainSteps DEF DrainNext
<1>4. ASSUME NEW s \in Socket, Connect(s) \/ Disconnect(s) PROVE IInv'
    BY <1>1, <1>4 DEF Connect, Disconnect, cmdVars, queueVars, IInv, QueueTypeOK
<1>5. CASE EvictZombie
    BY <1>1, <1>5 DEF EvictZombie, cmdVars, queueVars, IInv, QueueTypeOK
<1>6. ASSUME NEW C \in SUBSET queued, Withdraw(C) PROVE IInv'
    BY <1>1, <1>6 DEF Withdraw, IInv, QueueTypeOK
<1>7. ASSUME NEW s \in Socket, ReceiveCommand(s) \/ HandleCommandResult(s) \/ IgnoreResult(s)
      PROVE  IInv'
    BY <1>1, <1>7 DEF ReceiveCommand, HandleCommandResult, IgnoreResult, queueVars, IInv, QueueTypeOK
<1>8. ASSUME NEW r \in Id, NEW ok \in BOOLEAN, FinishCommand(r, ok) PROVE IInv'
    BY <1>1, <1>8 DEF FinishCommand, queueVars, IInv, QueueTypeOK
<1>9. ASSUME NEW r \in ToSet(tracked), Timeout(r) PROVE IInv'
    BY <1>1, <1>9 DEF Timeout, queueVars, IInv, QueueTypeOK
<1>10. ASSUME NEW w \in writes, CommitWrite(w) \/ LoseWrite(w) PROVE IInv'
    BY <1>1, <1>10 DEF CommitWrite, LoseWrite, queueVars, IInv, QueueTypeOK
<1>11. CASE EvictOldest \/ AgentRestart
    BY <1>1, <1>11 DEF EvictOldest, AgentRestart, queueVars, IInv, QueueTypeOK
<1>12. CASE ServerRestart
    BY <1>12, RestartStep
<1>13. CASE UNCHANGED vars
    BY <1>1, <1>13 DEF vars, cmdVars, queueVars, IInv, QueueTypeOK
<1> QED
    BY <1>2, <1>3, <1>4, <1>5, <1>6, <1>7, <1>8, <1>9, <1>10, <1>11, <1>12, <1>13 DEF Next

\* No run is at work on a row whose attempts exceed the limit.
LEMMA WithinLimit == IInv => AttemptsBounded
<1> SUFFICES ASSUME IInv, NEW c \in Command PROVE attempts[c] <= AttemptLimit
    BY DEF AttemptsBounded
<1>1. attempts[c] \in Nat
    BY DEF IInv, QueueTypeOK
<1> QED BY <1>1, PendingFinite, LimitType DEF IInv, Reserved

\* No command is attempted more than MaxAttempts - 1 + Cardinality(Drain) times.
THEOREM AttemptsBound == Spec => []AttemptsBounded
BY AttemptsInit, AttemptsNext, WithinLimit, PTL DEF Spec

-----------------------------------------------------------------------------
(* The registry under the channel *)

\* The registry keeps its own types.
LEMMA RegistryTypes == RegistryTypeOK /\ [RegistryNext]_regVars => RegistryTypeOK'
BY DEF RegistryTypeOK, RegistryNext, regVars, Open, Register, Attach, Close, Evict, Restart

\* A send is a step of the registry or none: it may close a socket or evict.
LEMMA SendSteps ==
    ASSUME RegistryTypeOK, SendRefused \/ \E r \in Id : SendAccepted(r)
    PROVE  RegistryNext \/ UNCHANGED regVars
<1>1. CASE registered # NoSocket /\ CloseSocket(registered)
    BY <1>1 DEF CloseSocket, RegistryNext, RegistryTypeOK
<1> QED BY <1>1 DEF SendRefused, SendAccepted, RegistryNext

\* Whatever a request, a run, the agent or a sweep does, it changes the
\* registry by one of the registry's own steps or not at all.
LEMMA RegistrySteps == RegistryTypeOK /\ [Next]_vars => [RegistryNext]_regVars
<1> SUFFICES ASSUME RegistryTypeOK, [Next]_vars PROVE RegistryNext \/ UNCHANGED regVars
    BY DEF regVars
<1>1. ASSUME NEW s \in Socket, Connect(s) \/ Disconnect(s) PROVE RegistryNext
    BY <1>1 DEF Connect, Disconnect, CloseSocket, RegistryNext
<1>2. CASE EvictZombie \/ ServerRestart
    BY <1>2 DEF EvictZombie, ServerRestart, RegistryNext
<1>3. ASSUME NEW c \in Command, RequestNext(c) PROVE RegistryNext \/ UNCHANGED regVars
    <2>1. CASE InsertAndSend(c)
        <3>1. <<c, 0>> \in Id
            BY LimitType DEF Id
        <3> QED BY <2>1, <3>1, SendSteps DEF InsertAndSend
    <2> QED BY <1>3, <2>1 DEF RequestNext, SendOrQueue, MarkExecuting, MarkZombieFailed,
                 QueueCommand, RequestFails
<1>4. ASSUME NEW d \in Drain, DrainNext(d) PROVE RegistryNext \/ UNCHANGED regVars
    <2>1. CASE DrainInsertAndSend(d)
        BY <2>1, SendSteps DEF DrainInsertAndSend, SendAccepted
    <2> QED BY <1>4, <2>1 DEF DrainNext, DrainSelect, DrainNextRow, DrainEnds, DrainAttempt,
                 DrainMark, DrainDelete, DrainQueryFails
<1>5. ASSUME NEW C \in SUBSET queued, Withdraw(C) PROVE UNCHANGED regVars
    BY <1>5 DEF Withdraw
<1>6. ASSUME NEW s \in Socket, ReceiveCommand(s) \/ HandleCommandResult(s) \/ IgnoreResult(s)
      PROVE  UNCHANGED regVars
    BY <1>6 DEF ReceiveCommand, HandleCommandResult, IgnoreResult
<1>7. ASSUME NEW r \in Id, NEW ok \in BOOLEAN, FinishCommand(r, ok) PROVE UNCHANGED regVars
    BY <1>7 DEF FinishCommand
<1>8. ASSUME NEW r \in ToSet(tracked), Timeout(r) PROVE UNCHANGED regVars
    BY <1>8 DEF Timeout
<1>9. ASSUME NEW w \in writes, CommitWrite(w) \/ LoseWrite(w) PROVE UNCHANGED regVars
    BY <1>9 DEF CommitWrite, LoseWrite
<1>10. CASE EvictOldest \/ AgentRestart \/ UNCHANGED vars
    BY <1>10 DEF EvictOldest, AgentRestart, vars
<1> QED BY <1>1, <1>2, <1>3, <1>4, <1>5, <1>6, <1>7, <1>8, <1>9, <1>10 DEF Next

\* The channel never makes the registry do what SessionRegistry does not allow.
THEOREM ChannelRefinesRegistry == Spec => RegistrySpec
<1>1. Init => RegistryInit /\ RegistryTypeOK
    BY DEF Init, RegistryInit, RegistryTypeOK
<1>2. RegistryTypeOK /\ [Next]_vars => RegistryTypeOK'
    BY RegistrySteps, RegistryTypes
<1> QED BY <1>1, <1>2, RegistrySteps, PTL DEF Spec, RegistrySpec

-----------------------------------------------------------------------------
(* Type correctness *)

\* What removing one element of a sequence leaves.
LEMMA RemoveAtProperties ==
    ASSUME NEW S, NEW s \in Seq(S), NEW i \in 1..Len(s)
    PROVE  /\ RemoveAt(s, i) \in Seq(S)
           /\ Len(RemoveAt(s, i)) = Len(s) - 1
           /\ \A j \in 1..Len(s) - 1 : RemoveAt(s, i)[j] = IF j < i THEN s[j] ELSE s[j + 1]
<1> DEFINE a == SubSeq(s, 1, i - 1)
           b == SubSeq(s, i + 1, Len(s))
<1>1. Len(s) \in Nat /\ \A j \in 1..Len(s) : s[j] \in S
    OBVIOUS
<1>2. a \in Seq(S) /\ Len(a) = i - 1 /\ \A j \in 1..i - 1 : a[j] = s[j]
    BY <1>1
<1>3. b \in Seq(S) /\ Len(b) = Len(s) - i /\ \A j \in 1..Len(s) - i : b[j] = s[i + j]
    BY <1>1
<1>4. RemoveAt(s, i) = a \o b
    BY DEF RemoveAt
<1> HIDE DEF a, b
<1>5. a \o b \in Seq(S) /\ Len(a \o b) = Len(s) - 1
    <2>1. Len(a) + Len(b) = Len(s) - 1
        BY <1>1, <1>2, <1>3
    <2> QED BY <1>2, <1>3, <2>1, ConcatProperties
<1>6. ASSUME NEW j \in 1..Len(s) - 1 PROVE (a \o b)[j] = IF j < i THEN s[j] ELSE s[j + 1]
    <2>1. (a \o b)[j] = IF j <= Len(a) THEN a[j] ELSE b[j - Len(a)]
        BY <1>1, <1>2, <1>3, <1>5
    <2>2. CASE j < i
        BY <1>1, <1>2, <2>1, <2>2
    <2>3. CASE ~(j < i)
        <3>1. j - Len(a) \in 1..Len(s) - i /\ i + (j - Len(a)) = j + 1 /\ ~(j <= Len(a))
            BY <1>1, <1>2, <2>3
        <3> QED BY <1>1, <1>2, <1>3, <2>1, <2>3, <3>1
    <2> QED BY <2>2, <2>3
<1> QED BY <1>4, <1>5, <1>6

\* The head of a queue is its first element.
LEMMA HeadIsFirst ==
    ASSUME NEW S, NEW s \in Seq(S), s # <<>>
    PROVE  Head(s) \in S /\ Head(s) = s[1] /\ 1 \in 1..Len(s)
<1>1. 1 \in 1..Len(s)
    BY EmptySeq
<1> QED BY <1>1, HeadTailProperties

\* ToSet is the image of the indices.
LEMMA ToSetOfSeq ==
    ASSUME NEW S, NEW s \in Seq(S)
    PROVE  ToSet(s) = {s[i] : i \in 1..Len(s)}
BY DEF ToSet

\* The map in insertion order has one entry for each id.
TrackedOnce == \A i, j \in 1..Len(tracked) : tracked[i] = tracked[j] => i = j

\* Deleting an id leaves the other entries of the map, once each, and not it.
LEMMA UntrackProperties ==
    ASSUME tracked \in Seq(Id), NEW r
    PROVE  /\ Untrack(r) \in Seq(Id)
           /\ ToSet(Untrack(r)) \subseteq ToSet(tracked)
           /\ TrackedOnce => /\ ToSet(Untrack(r)) = ToSet(tracked) \ {r}
                             /\ \A i, j \in 1..Len(Untrack(r)) :
                                   Untrack(r)[i] = Untrack(r)[j] => i = j
<1>1. /\ ToSet(tracked) = {tracked[i] : i \in 1..Len(tracked)}
      /\ DOMAIN tracked = 1..Len(tracked) /\ Len(tracked) \in Nat
    BY DEF ToSet
<1>2. CASE ~IsTracked(r)
    BY <1>1, <1>2 DEF Untrack, TrackedOnce, IsTracked
<1>3. CASE IsTracked(r)
    <2> DEFINE k == CHOOSE i \in DOMAIN tracked : tracked[i] = r
               u == RemoveAt(tracked, k)
    <2>1. k \in 1..Len(tracked) /\ tracked[k] = r
        BY <1>1, <1>3 DEF IsTracked
    <2>2. Untrack(r) = u
        BY <1>3 DEF Untrack
    <2> HIDE DEF k
    <2>3. /\ u \in Seq(Id) /\ Len(u) = Len(tracked) - 1
          /\ \A j \in 1..Len(tracked) - 1 : u[j] = IF j < k THEN tracked[j] ELSE tracked[j + 1]
        BY <2>1, RemoveAtProperties
    <2> HIDE DEF u
    <2>4. ToSet(u) = {u[i] : i \in 1..Len(tracked) - 1}
        BY <2>3 DEF ToSet
    <2>5. ToSet(u) \subseteq ToSet(tracked)
        BY <1>1, <2>1, <2>3, <2>4
    <2>6. ASSUME TrackedOnce
          PROVE  \A i, j \in 1..Len(u) : u[i] = u[j] => i = j
        BY <1>1, <2>1, <2>3, <2>6 DEF TrackedOnce
    <2>7. ASSUME TrackedOnce PROVE r \notin ToSet(u)
        BY <1>1, <2>1, <2>3, <2>4, <2>7 DEF TrackedOnce
    <2>8. ASSUME NEW t \in ToSet(tracked), t # r PROVE t \in ToSet(u)
        <3>1. PICK i \in 1..Len(tracked) : t = tracked[i]
            BY <1>1, <2>8
        <3>2. CASE i < k
            BY <1>1, <2>1, <2>3, <2>4, <3>1, <3>2
        <3>3. CASE ~(i < k)
            <4>1. i - 1 \in 1..Len(tracked) - 1 /\ ~(i - 1 < k) /\ (i - 1) + 1 = i
                BY <1>1, <2>1, <2>8, <3>1, <3>3
            <4> QED BY <2>3, <2>4, <3>1, <4>1
        <3> QED BY <3>2, <3>3
    <2> QED BY <2>2, <2>3, <2>5, <2>6, <2>7, <2>8
<1> QED BY <1>2, <1>3

Running == {"attempt", "insert", "marking", "delete"}

\* The rows of remote_commands are attempts within the limit.
LEMMA Rows ==
    /\ \A c \in Command : <<c, 0>> \in Id
    /\ \A r \in Id : r[1] \in Command /\ r[2] \in Nat /\ r = <<r[1], r[2]>>
    /\ NoId \notin Id /\ NoId \notin Command \X Nat
BY LimitType DEF Id, NoId

\* A run at work is at work on a row within the limit.
LEMMA RunRows ==
    ASSUME TypeOK, IInv, NEW d \in Drain, drain[d] \in Running
    PROVE  current[d] \in Id /\ current[d][1] \in Command
<1>1. current[d] \in Command \X Nat
    BY DEF IInv, QueueTypeOK, Running
<1>2. current[d] # NoId
    BY <1>1, Rows
<1> QED BY <1>1, <1>2 DEF TypeOK

\* The entries of the map, and the writes about them, are rows.
LEMMA TrackedRows ==
    ASSUME TypeOK
    PROVE  /\ ToSet(tracked) \subseteq Id
           /\ \A r \in Id, by \in Writer : Fail(r, by) \in StatusWrite
           /\ \A r : Untrack(r) \in Seq(Id)
           /\ "disconnect" \in Writer /\ "timeout" \in Writer /\ "eviction" \in Writer
<1>1. tracked \in Seq(Id)
    BY DEF TypeOK
<1>2. ToSet(tracked) \subseteq Id
    BY <1>1 DEF ToSet
<1>3. \A r \in Id, by \in Writer : Fail(r, by) \in StatusWrite
    BY DEF Fail, StatusWrite
<1> QED BY <1>1, <1>2, <1>3, UntrackProperties DEF Writer

\* The variables that a send, a close or a refusal changes stay typed.
LEMMA CloseTypes ==
    ASSUME TypeOK, NEW s \in Socket, CloseSocket(s)
    PROVE  /\ tracked' \in Seq(Id) /\ writes' \subseteq StatusWrite
           /\ inbox' \in [Socket -> Seq(Id)]
           /\ results' \in [Socket -> Seq([id : Id, ok : BOOLEAN])]
<1>1. tracked' \in Seq(Id) /\ writes' \subseteq StatusWrite
    <2>1. CASE s \in identified
        <3>1. \A r \in ToSet(tracked) : Fail(r, "disconnect") \in StatusWrite
            BY TrackedRows
        <3>2. tracked' = <<>> /\ writes' = writes \cup {Fail(r, "disconnect") : r \in ToSet(tracked)}
            BY <2>1 DEF CloseSocket
        <3> QED BY <3>1, <3>2, EmptySeq DEF TypeOK
    <2>2. CASE s \notin identified
        BY <2>2 DEF TypeOK, CloseSocket
    <2> QED BY <2>1, <2>2
<1>2. /\ inbox' \in [Socket -> Seq(Id)]
      /\ results' \in [Socket -> Seq([id : Id, ok : BOOLEAN])]
    <2>1. <<>> \in Seq(Id) /\ <<>> \in Seq([id : Id, ok : BOOLEAN])
        BY EmptySeq
    <2> QED BY <2>1 DEF TypeOK, CloseSocket
<1> QED BY <1>1, <1>2

LEMMA SendTypes ==
    ASSUME TypeOK, NEW r \in Id, SendAccepted(r) \/ SendRefused
    PROVE  /\ tracked' \in Seq(Id) /\ writes' \subseteq StatusWrite
           /\ inbox' \in [Socket -> Seq(Id)]
           /\ results' \in [Socket -> Seq([id : Id, ok : BOOLEAN])]
           /\ fate' \in [Id -> {"unsent", "emitted", "received", "ok", "error", "aborted"}]
<1>1. CASE SendAccepted(r)
    <2>1. registered \in Socket
        BY <1>1 DEF SendAccepted, TypeOK, RegistryTypeOK
    <2>2. tracked' \in Seq(Id) /\ writes' \subseteq StatusWrite
        BY <1>1 DEF TypeOK, SendAccepted
    <2>3. inbox' \in [Socket -> Seq(Id)]
        BY <1>1, <2>1 DEF TypeOK, SendAccepted
    <2>4. /\ results' \in [Socket -> Seq([id : Id, ok : BOOLEAN])]
          /\ fate' \in [Id -> {"unsent", "emitted", "received", "ok", "error", "aborted"}]
        BY <1>1 DEF TypeOK, SendAccepted
    <2> QED BY <2>2, <2>3, <2>4
<1>2. CASE registered # NoSocket /\ CloseSocket(registered) /\ UNCHANGED fate
    BY <1>2, CloseTypes DEF TypeOK, RegistryTypeOK
<1>3. CASE UNCHANGED <<tracked, writes, netVars, fate>>
    BY <1>3 DEF TypeOK, netVars
<1> QED BY <1>1, <1>2, <1>3 DEF SendRefused

\* The registry and the queue are typed by the earlier invariants.
LEMMA KnownTypes ==
    ASSUME TypeOK, IInv, [Next]_vars
    PROVE  /\ RegistryTypeOK'
           /\ queued' \subseteq Command
           /\ attempts' \in [Command -> Nat]
           /\ drain' \in [Drain -> {"idle", "row", "attempt", "insert", "marking", "delete"}]
           /\ todo' \in [Drain -> SUBSET Command]
<1>1. RegistryTypeOK'
    BY RegistrySteps, RegistryTypes DEF TypeOK
<1>2. IInv'
    BY AttemptsNext
<1> QED BY <1>1, <1>2 DEF IInv, QueueTypeOK

\* The rest of the types.
RestTypeOK ==
    /\ req \in [Command -> {"new", "insert", "marking", "failing", "queue",
                            "sent", "queued", "refused", "error"}]
    /\ remote \in [Id -> {"none", "pending", "executing", "completed", "failed"}]
    /\ current \in [Drain -> Id \cup {NoId}]
    /\ fate \in [Id -> {"unsent", "emitted", "received", "ok", "error", "aborted"}]
    /\ failures \in 0..MaxFailures
    /\ tracked \in Seq(Id)
    /\ writes \subseteq StatusWrite
    /\ inbox \in [Socket -> Seq(Id)]
    /\ results \in [Socket -> Seq([id : Id, ok : BOOLEAN])]

LEMMA FailureTypes ==
    ASSUME failures \in 0..MaxFailures,
           \/ UNCHANGED failures
           \/ failures < MaxFailures /\ failures' = failures + 1
    PROVE  failures' \in 0..MaxFailures
BY ChannelAssumption DEF ChannelAssumption

LEMMA RequestTypes ==
    ASSUME TypeOK, NEW c \in Command, RequestNext(c)
    PROVE  RestTypeOK'
<1>1. CASE InsertAndSend(c)
    <2>1. /\ SendAccepted(<<c, 0>>) \/ SendRefused
          /\ req' = [req EXCEPT ![c] = "marking"] \/ req' = [req EXCEPT ![c] = "failing"]
          /\ remote' = [remote EXCEPT ![<<c, 0>>] = "pending"]
          /\ UNCHANGED <<current, failures>>
        BY <1>1 DEF InsertAndSend, drainVars
    <2>2. UNCHANGED fate \/ SendAccepted(<<c, 0>>)
        BY <2>1 DEF SendRefused
    <2> QED BY <2>1, <2>2, Rows, SendTypes DEF TypeOK, RestTypeOK
<1>2. CASE SendOrQueue(c) \/ MarkExecuting(c) \/ MarkZombieFailed(c) \/ QueueCommand(c)
    BY <1>2 DEF SendOrQueue, MarkExecuting, MarkZombieFailed, QueueCommand, TypeOK, RestTypeOK,
                netVars, drainVars
<1>3. CASE RequestFails(c)
    BY <1>3, FailureTypes DEF RequestFails, TypeOK, RestTypeOK, netVars, drainVars
<1> QED BY <1>1, <1>2, <1>3 DEF RequestNext

LEMMA DrainTypes ==
    ASSUME TypeOK, IInv, NEW d \in Drain, DrainNext(d)
    PROVE  RestTypeOK'
<1>1. CASE DrainInsertAndSend(d)
    <2>1. current[d] \in Id
        BY <1>1, RunRows DEF DrainInsertAndSend, Running
    <2>2. \/ UNCHANGED <<tracked, writes, netVars, fate>>
          \/ SendAccepted(current[d]) \/ SendRefused
        BY <1>1 DEF DrainInsertAndSend
    <2>3. /\ tracked' \in Seq(Id) /\ writes' \subseteq StatusWrite
          /\ inbox' \in [Socket -> Seq(Id)]
          /\ results' \in [Socket -> Seq([id : Id, ok : BOOLEAN])]
          /\ fate' \in [Id -> {"unsent", "emitted", "received", "ok", "error", "aborted"}]
        BY <2>1, <2>2, SendTypes DEF TypeOK, netVars
    <2>4. /\ remote' = [remote EXCEPT ![current[d]] = "pending"] \/ UNCHANGED remote
          /\ UNCHANGED current \/ current' = [current EXCEPT ![d] = NoId]
          /\ UNCHANGED <<req, failures>>
        BY <1>1 DEF DrainInsertAndSend, NextRow
    <2> QED BY <2>1, <2>3, <2>4 DEF TypeOK, RestTypeOK
<1>2. CASE DrainAttempt(d)
    <2> DEFINE c == current[d][1]
    <2>1. IInv' /\ AttemptsBounded'
        <3>1. IInv'
            BY <1>2, AttemptStep
        <3> QED BY <3>1, WithinLimit, PTL
    <2>2. PICK n : attempts' = [attempts EXCEPT ![c] = n] /\ current' = [current EXCEPT ![d] = <<c, n>>]
        BY <1>2 DEF DrainAttempt
    <2>3. c \in Command
        BY <1>2, RunRows DEF DrainAttempt, Running
    <2>4. attempts'[c] = n
        BY <2>2, <2>3 DEF TypeOK
    <2>5. n \in Nat /\ n <= AttemptLimit
        BY <2>1, <2>3, <2>4 DEF IInv, QueueTypeOK, AttemptsBounded
    <2>6. <<c, n>> \in Id
        BY <2>3, <2>5, LimitType DEF Id
    <2>7. current' \in [Drain -> Id \cup {NoId}]
        BY <2>2, <2>6 DEF TypeOK
    <2> QED BY <1>2, <2>7 DEF DrainAttempt, TypeOK, RestTypeOK, netVars
<1>3. CASE DrainNextRow(d)
    <2>1. PICK c \in todo[d] : current' = [current EXCEPT ![d] = <<c, 0>>]
        BY <1>3 DEF DrainNextRow
    <2>2. <<c, 0>> \in Id
        BY Rows DEF TypeOK
    <2>3. current' \in [Drain -> Id \cup {NoId}]
        BY <2>1, <2>2 DEF TypeOK
    <2> QED BY <1>3, <2>3 DEF DrainNextRow, TypeOK, RestTypeOK, netVars
<1>4. CASE DrainSelect(d) \/ DrainEnds(d)
    BY <1>4 DEF DrainSelect, DrainEnds, TypeOK, RestTypeOK, netVars
<1>5. CASE DrainMark(d) \/ DrainDelete(d)
    <2>1. current[d] \in Id
        BY <1>5, RunRows DEF DrainMark, DrainDelete, Running
    <2> QED BY <1>5, <2>1 DEF DrainMark, DrainDelete, NextRow, TypeOK, RestTypeOK, netVars
<1>6. CASE DrainQueryFails(d)
    BY <1>6, FailureTypes DEF DrainQueryFails, NextRow, TypeOK, RestTypeOK, netVars
<1> QED BY <1>1, <1>2, <1>3, <1>4, <1>5, <1>6 DEF DrainNext

LEMMA AgentTypes ==
    ASSUME TypeOK
    PROVE  /\ \A s \in Socket : ReceiveCommand(s) => RestTypeOK'
           /\ \A r \in Id, ok \in BOOLEAN : FinishCommand(r, ok) => RestTypeOK'
           /\ AgentRestart => RestTypeOK'
<1>1. ASSUME NEW s \in Socket, ReceiveCommand(s) PROVE RestTypeOK'
    <2>1. Head(inbox[s]) \in Id /\ Tail(inbox[s]) \in Seq(Id)
        BY <1>1, HeadTailProperties DEF ReceiveCommand, TypeOK
    <2> QED BY <1>1, <2>1 DEF ReceiveCommand, TypeOK, RestTypeOK, drainVars
<1>2. ASSUME NEW r \in Id, NEW ok \in BOOLEAN, FinishCommand(r, ok) PROVE RestTypeOK'
    <2>1. results' \in [Socket -> Seq([id : Id, ok : BOOLEAN])]
        <3>1. CASE UNCHANGED results
            BY <3>1 DEF TypeOK
        <3>2. ASSUME NEW s \in alive, results' = [results EXCEPT ![s] = Append(@, [id |-> r, ok |-> ok])]
              PROVE  results' \in [Socket -> Seq([id : Id, ok : BOOLEAN])]
            <4>1. s \in Socket /\ results[s] \in Seq([id : Id, ok : BOOLEAN])
                BY DEF TypeOK, RegistryTypeOK
            <4>2. [id |-> r, ok |-> ok] \in [id : Id, ok : BOOLEAN]
                OBVIOUS
            <4>3. Append(results[s], [id |-> r, ok |-> ok]) \in Seq([id : Id, ok : BOOLEAN])
                BY <4>1, <4>2, AppendProperties
            <4> QED BY <3>2, <4>3 DEF TypeOK
        <3> QED BY <1>2, <3>1, <3>2 DEF FinishCommand
    <2> QED BY <1>2, <2>1 DEF FinishCommand, TypeOK, RestTypeOK, drainVars
<1>3. CASE AgentRestart
    BY <1>3, FailureTypes DEF AgentRestart, TypeOK, RestTypeOK, drainVars, netVars
<1> QED BY <1>1, <1>2, <1>3

LEMMA ResultTypes ==
    ASSUME TypeOK, NEW s \in Socket, HandleCommandResult(s) \/ IgnoreResult(s)
    PROVE  RestTypeOK'
<1> DEFINE m == Head(results[s])
<1>1. results[s] \in Seq([id : Id, ok : BOOLEAN]) /\ results[s] # <<>>
    BY DEF HandleCommandResult, IgnoreResult, TypeOK
<1>2. m \in [id : Id, ok : BOOLEAN] /\ Tail(results[s]) \in Seq([id : Id, ok : BOOLEAN])
    BY <1>1, HeadTailProperties
<1>3. results' \in [Socket -> Seq([id : Id, ok : BOOLEAN])]
    BY <1>2 DEF HandleCommandResult, IgnoreResult, TypeOK
<1>4. CASE HandleCommandResult(s)
    <2>1. [id |-> m.id, by |-> "result", status |-> IF m.ok THEN "completed" ELSE "failed"] \in StatusWrite
        BY <1>2 DEF StatusWrite, Writer
    <2>2. writes' \subseteq StatusWrite
        BY <1>4, <2>1 DEF HandleCommandResult, TypeOK
    <2>3. tracked' \in Seq(Id)
        BY <1>4, TrackedRows DEF HandleCommandResult
    <2> QED BY <1>3, <1>4, <2>2, <2>3 DEF HandleCommandResult, TypeOK, RestTypeOK, drainVars
<1>5. CASE IgnoreResult(s)
    BY <1>3, <1>5 DEF IgnoreResult, TypeOK, RestTypeOK, drainVars
<1> QED BY <1>4, <1>5

LEMMA SweepTypes ==
    ASSUME TypeOK
    PROVE  /\ \A r \in ToSet(tracked) : Timeout(r) => RestTypeOK'
           /\ EvictOldest => RestTypeOK'
           /\ \A w \in writes : CommitWrite(w) \/ LoseWrite(w) => RestTypeOK'
<1>1. ASSUME NEW r \in ToSet(tracked), Timeout(r) PROVE RestTypeOK'
    <2>1. Fail(r, "timeout") \in StatusWrite
        BY TrackedRows
    <2> QED BY <1>1, <2>1 DEF Timeout, TypeOK, RestTypeOK, drainVars, netVars
<1>2. CASE EvictOldest
    <2>1. tracked # <<>>
        BY <1>2, ChannelAssumption, EmptySeq DEF EvictOldest, ChannelAssumption
    <2>2. Head(tracked) \in Id /\ Tail(tracked) \in Seq(Id)
        BY <2>1, HeadTailProperties DEF TypeOK
    <2> QED BY <1>2, <2>2, TrackedRows DEF EvictOldest, TypeOK, RestTypeOK, drainVars, netVars
<1>3. ASSUME NEW w \in writes PROVE w.id \in Id /\ w.status \in {"completed", "failed"}
    BY DEF TypeOK, StatusWrite
<1>4. ASSUME NEW w \in writes, AfterWrite(w) PROVE tracked' \in Seq(Id)
    BY <1>4, TrackedRows DEF AfterWrite, TypeOK
<1>5. ASSUME NEW w \in writes, CommitWrite(w) PROVE RestTypeOK'
    <2>1. remote' \in [Id -> {"none", "pending", "executing", "completed", "failed"}]
        BY <1>3, <1>5 DEF CommitWrite, TypeOK
    <2> QED BY <1>4, <1>5, <2>1 DEF CommitWrite, TypeOK, RestTypeOK, drainVars, netVars
<1>6. ASSUME NEW w \in writes, LoseWrite(w) PROVE RestTypeOK'
    BY <1>4, <1>6, FailureTypes DEF LoseWrite, TypeOK, RestTypeOK, drainVars, netVars
<1> QED BY <1>1, <1>2, <1>5, <1>6

LEMMA ConnectionTypes ==
    ASSUME TypeOK
    PROVE  /\ \A s \in Socket : Connect(s) \/ Disconnect(s) => RestTypeOK'
           /\ EvictZombie \/ ServerRestart => RestTypeOK'
<1>1. ASSUME NEW s \in Socket, Disconnect(s) PROVE RestTypeOK'
    BY <1>1, CloseTypes DEF Disconnect, TypeOK, RestTypeOK, drainVars
<1>2. CASE EvictZombie \/ \E s \in Socket : Connect(s)
    BY <1>2 DEF EvictZombie, Connect, TypeOK, RestTypeOK, cmdVars, drainVars, netVars
<1>3. CASE ServerRestart
    <2>1. <<>> \in Seq(Id) /\ <<>> \in Seq([id : Id, ok : BOOLEAN])
        BY EmptySeq
    <2>2. failures' \in 0..MaxFailures
        BY <1>3, FailureTypes DEF ServerRestart, TypeOK
    <2> QED BY <1>3, <2>1, <2>2 DEF ServerRestart, TypeOK, RestTypeOK
<1> QED BY <1>1, <1>2, <1>3

\* Every step keeps the types.
LEMMA TypeNext == TypeOK /\ IInv /\ [Next]_vars => TypeOK'
<1> SUFFICES ASSUME TypeOK, IInv, [Next]_vars PROVE TypeOK'
    OBVIOUS
<1>1. RestTypeOK'
    <2>1. ASSUME NEW C \in SUBSET queued, Withdraw(C) PROVE RestTypeOK'
        BY <2>1 DEF Withdraw, TypeOK, RestTypeOK, drainVars, netVars
    <2>2. CASE UNCHANGED vars
        BY <2>2 DEF vars, cmdVars, TypeOK, RestTypeOK, drainVars, netVars
    <2> QED BY <2>1, <2>2, RequestTypes, DrainTypes, AgentTypes, ResultTypes, SweepTypes,
               ConnectionTypes DEF Next
<1> QED BY <1>1, KnownTypes DEF TypeOK, RestTypeOK

LEMMA TypeInit == Init => TypeOK
<1> SUFFICES ASSUME Init PROVE TypeOK
    OBVIOUS
<1>1. RegistryTypeOK
    BY DEF Init, RegistryInit, RegistryTypeOK
<1>2. <<>> \in Seq(Id) /\ <<>> \in Seq([id : Id, ok : BOOLEAN])
    BY EmptySeq
<1>3. failures \in 0..MaxFailures
    BY ChannelAssumption DEF Init, ChannelAssumption
<1> QED BY <1>1, <1>2, <1>3 DEF Init, TypeOK

\* Every reachable state of the channel is well typed: in particular no run
\* sends a row beyond the limit of attempts, and every status, map entry and
\* message is about a row.
THEOREM TypeCorrect == Spec => []TypeOK
BY TypeInit, TypeNext, AttemptsInit, AttemptsNext, PTL DEF Spec

-----------------------------------------------------------------------------
(* What is sent, and by whom: each row of remote_commands is sent at most    *)
(* once, by the request or by one run of the queue                           *)

\* The queue and its runs only know the commands whose request has put them in
\* the queue.  A request ends there, so a row that has left does not come back.
QueuedFirst ==
    \A c \in Command : req[c] # "queued" =>
        /\ c \notin queued
        /\ attempts[c] = 0
        /\ \A d \in Drain : c \notin todo[d] /\ (drain[d] \in Running => current[d][1] # c)

RealtimeNotQueued == \A c \in Realtime : req[c] \notin {"queue", "queued"}

\* The first row of a command is sent by its request only ...
FirstSend ==
    \A c \in Command : fate[<<c, 0>>] # "unsent" => req[c] \in {"marking", "sent", "error"}

\* ... and the later ones after an increment of its attempts.
LaterSends == \A r \in Id : r[2] # 0 /\ fate[r] # "unsent" => r[2] <= attempts[r[1]]

\* Two runs may work on one command, never on one row that can still be sent:
\* the increments of a row that is still queued give them different numbers.
RunsSend ==
    \A d \in Drain :
        /\ drain[d] \in {"insert", "marking", "delete"} => current[d][2] <= attempts[current[d][1]]
        /\ drain[d] = "insert" /\ current[d][1] \in queued =>
              /\ current[d][2] # 0
              /\ fate[current[d]] = "unsent"
              /\ \A e \in Drain \ {d} : drain[e] = "insert" => current[e] # current[d]
        /\ drain[d] \in {"marking", "delete"} => fate[current[d]] # "unsent"

\* A command on the wire was emitted, has not been received, and is there once.
DeliveredOnce ==
    /\ \A s \in Socket : \A i \in 1..Len(inbox[s]) : fate[inbox[s][i]] = "emitted"
    /\ \A s, t \in Socket : \A i \in 1..Len(inbox[s]), j \in 1..Len(inbox[t]) :
          inbox[s][i] = inbox[t][j] => s = t /\ i = j

Sends == QueuedFirst /\ RealtimeNotQueued /\ FirstSend /\ LaterSends /\ RunsSend

\* The rows that were sent are the same before and after the step.
SameSent == \A r \in Id : fate'[r] = "unsent" <=> fate[r] = "unsent"

\* The steps of the connections, the agent, the results and the sweeps send
\* nothing; a withdrawal only shortens the queue.
LEMMA NothingSent ==
    ASSUME TypeOK, IInv, Sends, UNCHANGED <<req, attempts, drainVars>>, queued' \subseteq queued, SameSent
    PROVE  Sends'
<1>1. \A d \in Drain : drain[d] \in Running => current[d] \in Id
    BY RunRows
<1>2. QueuedFirst' /\ RealtimeNotQueued'
    BY DEF Sends, QueuedFirst, RealtimeNotQueued, drainVars
<1>3. FirstSend'
    BY Rows DEF Sends, FirstSend, SameSent
<1>4. LaterSends'
    BY DEF Sends, LaterSends, SameSent
<1>5. RunsSend'
    BY <1>1 DEF Sends, RunsSend, SameSent, drainVars, Running
<1> QED BY <1>2, <1>3, <1>4, <1>5 DEF Sends

\* A request moves on, and sends nothing but its own first row.
LEMMA RequestMoves ==
    ASSUME TypeOK, IInv, Sends, NEW c \in Command, NEW q,
           UNCHANGED <<queueVars, drainVars>>,
           req' = [req EXCEPT ![c] = q], req[c] # "queued", q # "queued",
           c \in Realtime => q # "queue",
           \A r \in Id : fate[r] # "unsent" => fate'[r] # "unsent",
           \A r \in Id \ {<<c, 0>>} : fate[r] = "unsent" => fate'[r] = "unsent",
           fate'[<<c, 0>>] # "unsent" => q \in {"marking", "sent", "error"}
    PROVE  Sends'
<1>1. \A d \in Drain : drain[d] \in Running => current[d] \in Id
    BY RunRows
<1>2. \A e \in Command : req'[e] = IF e = c THEN q ELSE req[e]
    BY DEF TypeOK
<1>3. UNCHANGED <<queued, attempts, drain, todo, current>>
    BY DEF queueVars, drainVars
<1>4. QueuedFirst'
    BY <1>2, <1>3 DEF Sends, QueuedFirst
<1>5. RealtimeNotQueued'
    BY <1>2, ChannelAssumption DEF Sends, RealtimeNotQueued, ChannelAssumption
<1>6. FirstSend'
    <2> SUFFICES ASSUME NEW e \in Command, fate'[<<e, 0>>] # "unsent"
                 PROVE  req'[e] \in {"marking", "sent", "error"}
        BY DEF FirstSend
    <2>1. CASE e = c
        BY <1>2, <2>1
    <2>2. CASE e # c
        BY <1>2, <2>2, Rows DEF Sends, FirstSend
    <2> QED BY <2>1, <2>2
<1>7. LaterSends'
    BY <1>3 DEF Sends, LaterSends
<1>8. RunsSend'
    BY <1>1, <1>3 DEF Sends, RunsSend, Running
<1> QED BY <1>4, <1>5, <1>6, <1>7, <1>8 DEF Sends

\* The steps of a request.
LEMMA RequestSends ==
    ASSUME TypeOK, IInv, Sends, NEW c \in Command, RequestNext(c)
    PROVE  Sends'
<1>1. req[c] \notin {"marking", "sent", "error"} => fate[<<c, 0>>] = "unsent"
    BY DEF Sends, FirstSend
<1>2. CASE SendOrQueue(c)
    <2>1. PICK q \in {"insert", "refused", "queue"} :
              req' = [req EXCEPT ![c] = q] /\ (c \in Realtime => q # "queue")
        BY <1>2 DEF SendOrQueue
    <2> QED BY <1>1, <1>2, <2>1, RequestMoves DEF SendOrQueue
<1>3. CASE InsertAndSend(c)
    <2>1. CASE SendAccepted(<<c, 0>>) /\ req' = [req EXCEPT ![c] = "marking"]
        <3>1. fate' = [fate EXCEPT ![<<c, 0>>] = "emitted"]
            BY <2>1 DEF SendAccepted
        <3>2. \A r \in Id : fate'[r] = IF r = <<c, 0>> THEN "emitted" ELSE fate[r]
            BY <3>1 DEF TypeOK
        <3> QED BY <1>3, <2>1, <3>2, RequestMoves DEF InsertAndSend
    <2>2. CASE SendRefused /\ req' = [req EXCEPT ![c] = "failing"]
        BY <1>1, <1>3, <2>2, RequestMoves DEF InsertAndSend, SendRefused
    <2> QED BY <1>3, <2>1, <2>2 DEF InsertAndSend
<1>4. CASE MarkExecuting(c)
    BY <1>4, RequestMoves DEF MarkExecuting
<1>5. CASE MarkZombieFailed(c)
    <2>1. PICK q \in {"refused", "queue"} :
              req' = [req EXCEPT ![c] = q] /\ (c \in Realtime => q # "queue")
        BY <1>5 DEF MarkZombieFailed
    <2> QED BY <1>1, <1>5, <2>1, RequestMoves DEF MarkZombieFailed
<1>6. CASE RequestFails(c)
    BY <1>6, RequestMoves DEF RequestFails
<1>7. CASE QueueCommand(c)
    <2>1. \A d \in Drain : drain[d] \in Running => current[d] \in Id /\ current[d][1] \in Command
        BY RunRows
    <2>8. req[c] = "queue" /\ c \notin Realtime
        BY <1>7 DEF QueueCommand, Sends, RealtimeNotQueued
    <2>2. /\ req[c] = "queue" /\ queued' = queued \cup {c}
          /\ UNCHANGED <<attempts, drain, todo, current, fate>>
        BY <1>7, <2>8 DEF QueueCommand, drainVars
    <2>3. \A e \in Command : req'[e] = IF e = c THEN "queued" ELSE req[e]
        BY <1>7, <2>8 DEF QueueCommand, TypeOK
    <2>4. QueuedFirst' /\ RealtimeNotQueued'
        BY <2>2, <2>3, ChannelAssumption DEF Sends, QueuedFirst, RealtimeNotQueued, ChannelAssumption
    <2>5. FirstSend' /\ LaterSends'
        BY <1>1, <2>2, <2>3 DEF Sends, FirstSend, LaterSends
    <2>6. \A d \in Drain : drain[d] \in Running => current[d][1] # c
        BY <2>2 DEF Sends, QueuedFirst
    <2>7. RunsSend'
        BY <2>1, <2>2, <2>6 DEF Sends, RunsSend, Running
    <2> QED BY <2>4, <2>5, <2>7 DEF Sends
<1> QED BY <1>2, <1>3, <1>4, <1>5, <1>6, <1>7 DEF RequestNext

\* A run gives up its row, or ends, with nothing sent.
LEMMA RunLeaves ==
    ASSUME TypeOK, IInv, Sends, NEW d \in Drain, NEW q \in {"row", "idle"},
           UNCHANGED <<req, attempts, fate>>, queued' \subseteq queued,
           drain' = [drain EXCEPT ![d] = q],
           \A e \in Drain : todo'[e] \subseteq todo[e],
           \A e \in Drain \ {d} : current'[e] = current[e]
    PROVE  Sends'
<1>1. \A e \in Drain : drain'[e] = IF e = d THEN q ELSE drain[e]
    BY DEF TypeOK
<1>2. \A e \in Drain : drain'[e] \in Running => drain'[e] = drain[e] /\ current'[e] = current[e]
    BY <1>1 DEF Running
<1>3. QueuedFirst' /\ RealtimeNotQueued'
    BY <1>2 DEF Sends, QueuedFirst, RealtimeNotQueued
<1>4. FirstSend' /\ LaterSends'
    BY DEF Sends, FirstSend, LaterSends
<1>5. RunsSend'
    BY <1>2 DEF Sends, RunsSend, Running
<1> QED BY <1>3, <1>4, <1>5 DEF Sends

\* DrainAttempt gives the run a number that no row was sent with, provided the
\* command is still queued.
LEMMA AttemptSends ==
    ASSUME TypeOK, IInv, Sends, NEW d \in Drain, DrainAttempt(d)
    PROVE  Sends'
<1> DEFINE c == current[d][1]
           n == attempts[c] + (IF c \in queued THEN 1 ELSE 0)
<1>1. c \in Command /\ attempts[c] \in Nat /\ req[c] = "queued"
    BY RunRows DEF DrainAttempt, Running, Sends, QueuedFirst, TypeOK
<1>2. /\ n \in Nat /\ attempts[c] <= n
      /\ c \in queued => n = attempts[c] + 1 /\ n # 0
    BY <1>1
<1>3. /\ drain[d] = "attempt"
      /\ drain' = [drain EXCEPT ![d] = "insert"]
      /\ attempts' = [attempts EXCEPT ![c] = n]
      /\ current' = [current EXCEPT ![d] = <<c, n>>]
      /\ UNCHANGED <<req, queued, todo, fate>>
    BY DEF DrainAttempt
<1> HIDE DEF c, n
<1>4. /\ \A e \in Drain : drain'[e] = IF e = d THEN "insert" ELSE drain[e]
      /\ \A e \in Drain : current'[e] = IF e = d THEN <<c, n>> ELSE current[e]
      /\ \A e \in Command : attempts'[e] = IF e = c THEN n ELSE attempts[e]
    BY <1>3 DEF TypeOK
<1>5. \A e \in Command : attempts[e] \in Nat /\ attempts'[e] \in Nat /\ attempts[e] <= attempts'[e]
    BY <1>1, <1>2, <1>4 DEF TypeOK
<1>6. \A e \in Drain : drain[e] \in Running =>
          current[e] \in Id /\ current[e][1] \in Command /\ current[e][2] \in Nat
    BY RunRows, Rows
<1>7. QueuedFirst' /\ RealtimeNotQueued'
    <2>1. ASSUME NEW e \in Command, req[e] # "queued" PROVE e # c /\ attempts'[e] = 0
        BY <1>1, <1>4, <2>1 DEF Sends, QueuedFirst
    <2>2. \A e \in Command, f \in Drain :
              req[e] # "queued" /\ drain'[f] \in Running => current'[f][1] # e
        BY <1>4, <2>1 DEF Sends, QueuedFirst
    <2> QED BY <1>3, <2>1, <2>2 DEF Sends, QueuedFirst, RealtimeNotQueued
<1>8. FirstSend'
    BY <1>3 DEF Sends, FirstSend
<1>9. LaterSends'
    <2> SUFFICES ASSUME NEW r \in Id, r[2] # 0, fate[r] # "unsent" PROVE r[2] <= attempts'[r[1]]
        BY <1>3 DEF LaterSends
    <2>1. r[2] <= attempts[r[1]] /\ r[2] \in Nat /\ r[1] \in Command
        BY Rows DEF Sends, LaterSends
    <2> QED BY <1>5, <2>1
<1>10. \A e \in Drain \ {d} : drain'[e] \in {"insert", "marking", "delete"} =>
           current'[e][2] <= attempts[current'[e][1]]
    BY <1>4, <1>6 DEF Sends, RunsSend
<1>11. \A e \in Drain : drain'[e] \in {"insert", "marking", "delete"} =>
           current'[e][2] <= attempts'[current'[e][1]]
    <2>1. ASSUME NEW e \in Drain \ {d}, drain'[e] \in {"insert", "marking", "delete"}
          PROVE  current'[e][2] <= attempts'[current'[e][1]]
        <3>1. current'[e][1] \in Command /\ current'[e][2] \in Nat
            BY <1>4, <1>6, <2>1 DEF Running
        <3> QED BY <1>5, <1>10, <2>1, <3>1
    <2>2. current'[d][2] <= attempts'[current'[d][1]]
        BY <1>1, <1>2, <1>4
    <2> QED BY <2>1, <2>2
<1>12. c \in queued => /\ fate[<<c, n>>] = "unsent"
                       /\ \A e \in Drain \ {d} : drain[e] = "insert" => current[e] # <<c, n>>
    <2> SUFFICES ASSUME c \in queued
                 PROVE  /\ fate[<<c, n>>] = "unsent"
                        /\ \A e \in Drain \ {d} : drain[e] = "insert" => current[e] # <<c, n>>
        OBVIOUS
    <2>1. ~(n <= attempts[c]) /\ n # 0
        BY <1>1, <1>2
    <2>2. ASSUME NEW e \in Drain \ {d}, drain[e] = "insert" PROVE current[e] # <<c, n>>
        <3>1. current[e][2] <= attempts[current[e][1]]
            BY <2>2 DEF Sends, RunsSend
        <3> QED BY <2>1, <3>1
    <2>3. <<c, n>> \in Id
        <3>1. IInv'
            BY AttemptStep
        <3>2. AttemptsBounded'
            BY <3>1, WithinLimit, PTL
        <3>3. n <= AttemptLimit
            BY <1>1, <1>4, <3>2 DEF AttemptsBounded
        <3> QED BY <1>1, <1>2, <3>3, LimitType DEF Id
    <2>4. fate[<<c, n>>] = "unsent"
        BY <2>1, <2>3 DEF Sends, LaterSends
    <2> QED BY <2>2, <2>4
<1>13. RunsSend'
    <2>1. ASSUME NEW e \in Drain, drain'[e] = "insert", current'[e][1] \in queued'
          PROVE  /\ current'[e][2] # 0
                 /\ fate'[current'[e]] = "unsent"
                 /\ \A f \in Drain \ {e} : drain'[f] = "insert" => current'[f] # current'[e]
        <3>1. CASE e = d
            BY <1>2, <1>3, <1>4, <1>12, <2>1, <3>1
        <3>2. CASE e # d
            <4>1. /\ drain[e] = "insert" /\ current'[e] = current[e]
                  /\ current[e][1] \in queued
                BY <1>3, <1>4, <2>1, <3>2
            <4>2. /\ current[e][2] # 0 /\ fate[current[e]] = "unsent"
                  /\ \A f \in Drain \ {e} : drain[f] = "insert" => current[f] # current[e]
                BY <4>1 DEF Sends, RunsSend
            <4>3. current'[d] # current[e]
                BY <1>4, <1>12, <3>2, <4>1
            <4> QED BY <1>3, <1>4, <4>1, <4>2, <4>3
        <3> QED BY <3>1, <3>2
    <2>2. \A e \in Drain : drain'[e] \in {"marking", "delete"} => fate'[current'[e]] # "unsent"
        BY <1>3, <1>4 DEF Sends, RunsSend
    <2> QED BY <1>11, <2>1, <2>2 DEF RunsSend
<1> QED BY <1>7, <1>8, <1>9, <1>13 DEF Sends

\* A run that sends its row is the only one that can.
LEMMA InsertSends ==
    ASSUME TypeOK, IInv, Sends, NEW d \in Drain, DrainInsertAndSend(d)
    PROVE  Sends'
<1> DEFINE r == current[d]
<1>1. r \in Id /\ drain[d] = "insert"
    BY RunRows DEF DrainInsertAndSend, Running
<1>2. CASE /\ current[d][1] \in queued
           /\ SendAccepted(current[d])
           /\ drain' = [drain EXCEPT ![d] = "marking"]
           /\ UNCHANGED current
    <2>1. /\ r[2] # 0
          /\ \A e \in Drain \ {d} : drain[e] = "insert" => current[e] # r
        BY <1>1, <1>2 DEF Sends, RunsSend
    <2>2. /\ r[2] <= attempts[r[1]]
          /\ UNCHANGED <<req, queued, attempts, todo, current>>
        BY <1>1, <1>2 DEF Sends, RunsSend, DrainInsertAndSend, queueVars
    <2>3. \A x \in Id : fate'[x] = IF x = r THEN "emitted" ELSE fate[x]
        BY <1>1, <1>2 DEF SendAccepted, TypeOK
    <2>4. \A e \in Drain : drain'[e] = IF e = d THEN "marking" ELSE drain[e]
        BY <1>2 DEF TypeOK
    <2>5. \A e \in Drain : drain[e] \in Running => current[e] \in Id
        BY RunRows
    <2> HIDE DEF r
    <2>6. QueuedFirst' /\ RealtimeNotQueued'
        BY <1>1, <2>2, <2>4 DEF Sends, QueuedFirst, RealtimeNotQueued, Running
    <2>7. FirstSend'
        BY <2>1, <2>2, <2>3, Rows DEF Sends, FirstSend
    <2>8. LaterSends'
        BY <2>2, <2>3 DEF Sends, LaterSends
    <2>9. RunsSend'
        BY <1>1, <2>1, <2>2, <2>3, <2>4, <2>5 DEF Sends, RunsSend, Running, r
    <2> QED BY <2>6, <2>7, <2>8, <2>9 DEF Sends
<1>3. CASE NextRow(d) /\ UNCHANGED fate
    BY <1>3, RunLeaves DEF DrainInsertAndSend, NextRow, TypeOK, queueVars
<1> QED BY <1>2, <1>3 DEF DrainInsertAndSend, SendRefused

\* The steps of a run.
LEMMA DrainSends ==
    ASSUME TypeOK, IInv, Sends, NEW d \in Drain, DrainNext(d)
    PROVE  Sends'
<1>1. \A e \in Drain : drain[e] \in Running => current[e] \in Id
    BY RunRows
<1>2. CASE DrainSelect(d)
    <2>1. /\ UNCHANGED <<req, queued, attempts, current, fate>>
          /\ \A e \in Drain : todo'[e] \subseteq todo[e] \cup queued
          /\ \A e \in Drain : drain'[e] = IF e = d THEN "row" ELSE drain[e]
        BY <1>2 DEF DrainSelect, Eligible, queueVars, TypeOK
    <2>2. QueuedFirst' /\ RealtimeNotQueued'
        BY <2>1 DEF Sends, QueuedFirst, RealtimeNotQueued, Running
    <2>3. FirstSend' /\ LaterSends' /\ RunsSend'
        BY <2>1 DEF Sends, FirstSend, LaterSends, RunsSend
    <2> QED BY <2>2, <2>3 DEF Sends
<1>3. CASE DrainNextRow(d)
    <2>1. PICK c \in todo[d] : /\ todo' = [todo EXCEPT ![d] = @ \ {c}]
                               /\ current' = [current EXCEPT ![d] = <<c, 0>>]
        BY <1>3 DEF DrainNextRow
    <2>2. c \in Command /\ req[c] = "queued"
        BY DEF Sends, QueuedFirst, TypeOK
    <2>3. /\ UNCHANGED <<req, queued, attempts, fate>>
          /\ \A e \in Drain : todo'[e] \subseteq todo[e]
          /\ \A e \in Drain : drain'[e] = IF e = d THEN "attempt" ELSE drain[e]
          /\ \A e \in Drain : current'[e] = IF e = d THEN <<c, 0>> ELSE current[e]
        BY <1>3, <2>1 DEF DrainNextRow, queueVars, TypeOK
    <2>4. QueuedFirst' /\ RealtimeNotQueued'
        BY <2>2, <2>3 DEF Sends, QueuedFirst, RealtimeNotQueued
    <2>5. FirstSend' /\ LaterSends' /\ RunsSend'
        BY <2>3 DEF Sends, FirstSend, LaterSends, RunsSend
    <2> QED BY <2>4, <2>5 DEF Sends
<1>4. CASE DrainMark(d)
    <2>1. /\ drain[d] = "marking"
          /\ UNCHANGED <<req, queued, attempts, todo, current, fate>>
          /\ \A e \in Drain : drain'[e] = IF e = d THEN "delete" ELSE drain[e]
        BY <1>4 DEF DrainMark, queueVars, TypeOK
    <2>2. QueuedFirst' /\ RealtimeNotQueued'
        BY <2>1 DEF Sends, QueuedFirst, RealtimeNotQueued, Running
    <2>3. FirstSend' /\ LaterSends' /\ RunsSend'
        BY <2>1 DEF Sends, FirstSend, LaterSends, RunsSend
    <2> QED BY <2>2, <2>3 DEF Sends
<1>5. CASE DrainEnds(d)
    BY <1>5, RunLeaves DEF DrainEnds, TypeOK, queueVars
<1>6. CASE DrainDelete(d) \/ DrainQueryFails(d)
    BY <1>6, RunLeaves DEF DrainDelete, DrainQueryFails, NextRow, TypeOK, queueVars
<1> QED BY <1>2, <1>3, <1>4, <1>5, <1>6, AttemptSends, InsertSends DEF DrainNext

\* A restart ends the requests and the runs where they are.
LEMMA RestartSends ==
    ASSUME TypeOK, Sends, ServerRestart
    PROVE  Sends'
<1>1. /\ UNCHANGED <<queued, attempts, fate>>
      /\ \A d \in Drain : drain'[d] = "idle" /\ todo'[d] = {}
      /\ \A c \in Command :
            req'[c] = IF req[c] \in {"insert", "marking", "failing", "queue"} THEN "error" ELSE req[c]
    BY DEF ServerRestart, queueVars
<1>2. QueuedFirst'
    BY <1>1 DEF Sends, QueuedFirst, Running
<1>3. RealtimeNotQueued'
    BY <1>1, ChannelAssumption DEF Sends, RealtimeNotQueued, ChannelAssumption
<1>4. FirstSend'
    BY <1>1 DEF Sends, FirstSend
<1>5. LaterSends' /\ RunsSend'
    BY <1>1 DEF Sends, LaterSends, RunsSend
<1> QED BY <1>2, <1>3, <1>4, <1>5 DEF Sends

\* The agent receives a command that was sent.
LEMMA InboxHead ==
    ASSUME TypeOK, DeliveredOnce, NEW s \in Socket, ReceiveCommand(s)
    PROVE  /\ Head(inbox[s]) \in Id /\ Head(inbox[s]) = inbox[s][1] /\ 1 \in 1..Len(inbox[s])
           /\ fate[Head(inbox[s])] = "emitted"
<1>1. inbox[s] \in Seq(Id) /\ inbox[s] # <<>>
    BY DEF ReceiveCommand, TypeOK
<1>2. Head(inbox[s]) \in Id /\ Head(inbox[s]) = inbox[s][1] /\ 1 \in 1..Len(inbox[s])
    BY <1>1, HeadIsFirst
<1> QED BY <1>2 DEF DeliveredOnce

LEMMA SendsInit == Init => Sends
BY Rows, ChannelAssumption DEF Init, Sends, QueuedFirst, RealtimeNotQueued, FirstSend, LaterSends,
   RunsSend, Running, ChannelAssumption

LEMMA SendsNext == TypeOK /\ IInv /\ DeliveredOnce /\ Sends /\ [Next]_vars => Sends'
<1> SUFFICES ASSUME TypeOK, IInv, DeliveredOnce, Sends, [Next]_vars PROVE Sends'
    OBVIOUS
<1>1. ASSUME UNCHANGED <<req, attempts, drainVars, fate>>, queued' \subseteq queued PROVE Sends'
    BY <1>1, NothingSent DEF SameSent
<1>2. ASSUME NEW s \in Socket, Connect(s) \/ Disconnect(s) PROVE Sends'
    BY <1>1, <1>2 DEF Connect, Disconnect, cmdVars, queueVars
<1>3. ASSUME NEW C \in SUBSET queued, Withdraw(C) PROVE Sends'
    BY <1>1, <1>3 DEF Withdraw
<1>4. ASSUME NEW s \in Socket, HandleCommandResult(s) \/ IgnoreResult(s) PROVE Sends'
    BY <1>1, <1>4 DEF HandleCommandResult, IgnoreResult, queueVars
<1>5. ASSUME NEW r \in ToSet(tracked), Timeout(r) PROVE Sends'
    BY <1>1, <1>5 DEF Timeout, queueVars
<1>6. ASSUME NEW w \in writes, CommitWrite(w) \/ LoseWrite(w) PROVE Sends'
    BY <1>1, <1>6 DEF CommitWrite, LoseWrite, queueVars
<1>7. CASE EvictZombie \/ EvictOldest \/ UNCHANGED vars
    BY <1>1, <1>7 DEF EvictZombie, EvictOldest, vars, cmdVars, queueVars
<1>8. ASSUME NEW s \in Socket, ReceiveCommand(s) PROVE Sends'
    <2>1. Head(inbox[s]) \in Id /\ fate[Head(inbox[s])] = "emitted"
        BY <1>8, InboxHead
    <2>2. \A r \in Id : fate'[r] = IF r = Head(inbox[s]) THEN "received" ELSE fate[r]
        BY <1>8 DEF ReceiveCommand, TypeOK
    <2>3. SameSent
        BY <2>1, <2>2 DEF SameSent
    <2> QED BY <1>8, <2>3, NothingSent DEF ReceiveCommand, queueVars
<1>9. ASSUME NEW r \in Id, NEW ok \in BOOLEAN, FinishCommand(r, ok) PROVE Sends'
    <2>1. SameSent
        BY <1>9 DEF FinishCommand, TypeOK, SameSent
    <2> QED BY <1>9, <2>1, NothingSent DEF FinishCommand, queueVars
<1>10. CASE AgentRestart
    <2>1. SameSent
        BY <1>10 DEF AgentRestart, SameSent
    <2> QED BY <1>10, <2>1, NothingSent DEF AgentRestart, queueVars
<1> QED BY <1>2, <1>3, <1>4, <1>5, <1>6, <1>7, <1>8, <1>9, <1>10, RequestSends, DrainSends,
           RestartSends DEF Next

-----------------------------------------------------------------------------
(* What comes back: the results, the writes and the statuses tell what the   *)
(* agent did, and it ends a command once                                     *)

Verdict(ok) == IF ok THEN "ok" ELSE "error"

\* A result on its way says how the command ended.
Results ==
    \A s \in Socket : \A i \in 1..Len(results[s]) :
        fate[results[s][i].id] = Verdict(results[s][i].ok)

\* So does a result about to be written, and the server's own writes are
\* failures; a row is completed by a success only.
Written ==
    /\ \A w \in writes : IF w.by = "result" THEN fate[w.id] = Verdict(w.status = "completed")
                         ELSE w.status = "failed"
    /\ \A r \in Id : remote[r] = "completed" => fate[r] = "ok"

\* A tracked command was sent, and has one entry.
TrackedSent == TrackedOnce /\ \A r \in ToSet(tracked) : fate[r] # "unsent"

Answers == DeliveredOnce /\ Results /\ Written /\ TrackedSent

NoNewSuccess == \A r \in Id : remote'[r] = "completed" => remote[r] = "completed"

\* The parts of the sequences and writes the answers are about.
LEMMA AnswerRows ==
    ASSUME TypeOK
    PROVE  /\ \A s \in Socket : \A i \in 1..Len(inbox[s]) : inbox[s][i] \in Id
           /\ \A s \in Socket : \A i \in 1..Len(results[s]) :
                 results[s][i].id \in Id /\ results[s][i].ok \in BOOLEAN
           /\ \A w \in writes : w.id \in Id
           /\ ToSet(tracked) \subseteq Id
           /\ ToSet(tracked) = {tracked[i] : i \in 1..Len(tracked)}
<1>1. ASSUME NEW s \in Socket PROVE \A i \in 1..Len(inbox[s]) : inbox[s][i] \in Id
    BY DEF TypeOK
<1>2. ASSUME NEW s \in Socket, NEW i \in 1..Len(results[s]) PROVE results[s][i] \in [id : Id, ok : BOOLEAN]
    <2>1. results[s] \in Seq([id : Id, ok : BOOLEAN])
        BY DEF TypeOK
    <2> QED BY <2>1, ElementOfSeq
<1>3. \A w \in writes : w.id \in Id
    BY DEF TypeOK, StatusWrite
<1>4. ToSet(tracked) = {tracked[i] : i \in 1..Len(tracked)}
    BY DEF ToSet, TypeOK
<1> QED BY <1>1, <1>2, <1>3, <1>4, TrackedRows

\* Sockets close, entries go, and what was on the wire is gone.
LEMMA FewerAnswers ==
    ASSUME TypeOK, Answers, UNCHANGED fate, NoNewSuccess,
           \A s \in Socket : inbox'[s] = inbox[s] \/ inbox'[s] = <<>>,
           \A s \in Socket : results'[s] = results[s] \/ results'[s] = <<>>,
           \A w \in writes' \ writes : w.by # "result" /\ w.status = "failed",
           TrackedSent'
    PROVE  Answers'
<1>1. Len(<<>>) = 0 /\ 1..0 = {}
    BY EmptySeq
<1>2. DeliveredOnce'
    BY <1>1 DEF Answers, DeliveredOnce
<1>3. Results'
    BY <1>1 DEF Answers, Results
<1>4. Written'
    BY DEF Answers, Written, NoNewSuccess
<1> QED BY <1>2, <1>3, <1>4 DEF Answers

\* The map forgets everything.
LEMMA NothingTracked == ASSUME tracked' = <<>> PROVE TrackedSent'
BY EmptySeq DEF TrackedSent, TrackedOnce, ToSet

LEMMA CloseAnswers ==
    ASSUME TypeOK, Answers, NEW s \in Socket, CloseSocket(s), UNCHANGED fate, NoNewSuccess
    PROVE  Answers'
<1>1. \A t \in Socket : /\ inbox'[t] = inbox[t] \/ inbox'[t] = <<>>
                        /\ results'[t] = results[t] \/ results'[t] = <<>>
    BY DEF CloseSocket, TypeOK
<1>2. \A w \in writes' \ writes : w.by # "result" /\ w.status = "failed"
    BY DEF CloseSocket, Fail
<1>3. TrackedSent'
    BY NothingTracked DEF CloseSocket, Answers, TrackedSent, TrackedOnce
<1> QED BY <1>1, <1>2, <1>3, FewerAnswers

LEMMA RefusedAnswers ==
    ASSUME TypeOK, Answers, SendRefused, NoNewSuccess
    PROVE  Answers'
<1>1. CASE registered # NoSocket /\ CloseSocket(registered)
    BY <1>1, CloseAnswers DEF SendRefused, TypeOK, RegistryTypeOK
<1>2. CASE UNCHANGED <<tracked, writes, netVars, fate>>
    BY <1>2, FewerAnswers DEF netVars, Answers, TrackedSent, TrackedOnce
<1> QED BY <1>1, <1>2 DEF SendRefused

\* A row that was never sent is sent: it is on the wire and in the map once.
LEMMA SentAnswers ==
    ASSUME TypeOK, Answers, NEW r \in Id, fate[r] = "unsent", SendAccepted(r), NoNewSuccess
    PROVE  Answers'
<1>1. \A x \in Id : fate'[x] = IF x = r THEN "emitted" ELSE fate[x]
    BY DEF SendAccepted, TypeOK
<1>2. registered \in Socket
    BY DEF SendAccepted, TypeOK, RegistryTypeOK
<1>3. ASSUME NEW s \in Socket, NEW i \in 1..Len(inbox'[s])
      PROVE  \/ i \in 1..Len(inbox[s]) /\ inbox'[s][i] = inbox[s][i] /\ inbox[s][i] # r
             \/ s = registered /\ i = Len(inbox[s]) + 1 /\ inbox'[s][i] = r
    <2>1. inbox[s] \in Seq(Id) /\ Len(inbox[s]) \in Nat
        BY DEF TypeOK
    <2>2. \A j \in 1..Len(inbox[s]) : inbox[s][j] # r
        BY DEF Answers, DeliveredOnce
    <2>3. CASE s = registered
        <3>1. inbox'[s] = Append(inbox[s], r)
            BY <1>2, <2>3 DEF SendAccepted, TypeOK
        <3> QED BY <2>1, <2>2, <2>3, <3>1, AppendProperties
    <2>4. CASE s # registered
        BY <2>2, <2>4 DEF SendAccepted, TypeOK
    <2> QED BY <2>3, <2>4
<1>4. DeliveredOnce'
    <2>1. \A s \in Socket : \A i \in 1..Len(inbox'[s]) : fate'[inbox'[s][i]] = "emitted"
        BY <1>1, <1>3, AnswerRows DEF Answers, DeliveredOnce
    <2>2. ASSUME NEW s \in Socket, NEW t \in Socket,
                 NEW i \in 1..Len(inbox'[s]), NEW j \in 1..Len(inbox'[t]),
                 inbox'[s][i] = inbox'[t][j]
          PROVE  s = t /\ i = j
        <3>1. CASE inbox'[s][i] = r
            BY <1>3, <2>2, <3>1
        <3>2. CASE inbox'[s][i] # r
            <4>1. i \in 1..Len(inbox[s]) /\ inbox'[s][i] = inbox[s][i]
                BY <1>3, <3>2
            <4>2. j \in 1..Len(inbox[t]) /\ inbox'[t][j] = inbox[t][j]
                BY <1>3, <2>2, <3>2
            <4>3. inbox[s][i] = inbox[t][j]
                BY <2>2, <4>1, <4>2
            <4> QED BY <4>1, <4>2, <4>3 DEF Answers, DeliveredOnce
        <3> QED BY <3>1, <3>2
    <2> QED BY <2>1, <2>2 DEF DeliveredOnce
<1>5. Results'
    <2>1. UNCHANGED results
        BY DEF SendAccepted
    <2> QED BY <1>1, <2>1, AnswerRows DEF Answers, Results, Verdict
<1>6. Written'
    <2>1. UNCHANGED writes
        BY DEF SendAccepted
    <2> QED BY <1>1, <2>1, AnswerRows DEF Answers, Written, Verdict, NoNewSuccess
<1>7. TrackedSent'
    <2>1. /\ tracked \in Seq(Id) /\ Len(tracked) \in Nat
          /\ tracked' = Append(tracked, r)
        BY DEF TypeOK, SendAccepted
    <2>2. /\ Len(tracked') = Len(tracked) + 1 /\ tracked' \in Seq(Id)
          /\ \A i \in 1..Len(tracked) : tracked'[i] = tracked[i]
          /\ tracked'[Len(tracked) + 1] = r
        BY <2>1, AppendProperties
    <2>3. \A i \in 1..Len(tracked) : tracked[i] # r
        BY AnswerRows DEF Answers, TrackedSent
    <2>4. \A i \in 1..Len(tracked') : i \in 1..Len(tracked) \/ i = Len(tracked) + 1
        BY <2>1, <2>2
    <2>5. TrackedOnce'
        BY <2>2, <2>3, <2>4 DEF Answers, TrackedSent, TrackedOnce
    <2>6. ToSet(tracked') = {tracked'[i] : i \in 1..Len(tracked')}
        BY <2>2, ToSetOfSeq
    <2>7. \A i \in 1..Len(tracked') : fate'[tracked'[i]] # "unsent"
        BY <1>1, <2>2, <2>4, AnswerRows DEF Answers, TrackedSent
    <2> QED BY <2>5, <2>6, <2>7 DEF TrackedSent
<1> QED BY <1>4, <1>5, <1>6, <1>7 DEF Answers

\* Every row is fresh when it is sent.
LEMMA FreshRows ==
    ASSUME TypeOK, IInv, Sends
    PROVE  /\ \A c \in Command : req[c] \in {"insert", "failing"} =>
                 <<c, 0>> \in Id /\ fate[<<c, 0>>] = "unsent"
           /\ \A d \in Drain : drain[d] = "insert" /\ current[d][1] \in queued =>
                 current[d] \in Id /\ fate[current[d]] = "unsent"
BY Rows, RunRows DEF Sends, FirstSend, RunsSend, Running

\* The steps of a request send a row once, and fail one that was not sent.
LEMMA RequestAnswers ==
    ASSUME TypeOK, IInv, Sends, Answers, NEW c \in Command, RequestNext(c)
    PROVE  Answers'
<1>1. <<c, 0>> \in Id
    BY Rows
<1>2. CASE InsertAndSend(c)
    <2>1. NoNewSuccess
        BY <1>1, <1>2 DEF InsertAndSend, NoNewSuccess, TypeOK
    <2> QED BY <1>2, <2>1, FreshRows, SentAnswers, RefusedAnswers DEF InsertAndSend
<1>3. CASE MarkExecuting(c) \/ MarkZombieFailed(c)
    <2>1. NoNewSuccess
        BY <1>1, <1>3 DEF MarkExecuting, MarkZombieFailed, NoNewSuccess, TypeOK
    <2> QED BY <1>3, <2>1, FewerAnswers DEF MarkExecuting, MarkZombieFailed, netVars, Answers,
               TrackedSent, TrackedOnce
<1>4. CASE SendOrQueue(c) \/ QueueCommand(c) \/ RequestFails(c)
    BY <1>4, FewerAnswers DEF SendOrQueue, QueueCommand, RequestFails, netVars, NoNewSuccess,
       Answers, TrackedSent, TrackedOnce
<1> QED BY <1>2, <1>3, <1>4 DEF RequestNext

\* So do the steps of a run.
LEMMA DrainAnswers ==
    ASSUME TypeOK, IInv, Sends, Answers, NEW d \in Drain, DrainNext(d)
    PROVE  Answers'
<1>1. CASE DrainInsertAndSend(d)
    <2>1. CASE current[d][1] \in queued
        <3>1. current[d] \in Id /\ fate[current[d]] = "unsent"
            BY <1>1, <2>1, FreshRows DEF DrainInsertAndSend
        <3>2. NoNewSuccess
            BY <1>1, <2>1, <3>1 DEF DrainInsertAndSend, NoNewSuccess, TypeOK
        <3> QED BY <1>1, <2>1, <3>1, <3>2, SentAnswers, RefusedAnswers DEF DrainInsertAndSend
    <2>2. CASE current[d][1] \notin queued
        BY <1>1, <2>2, FewerAnswers DEF DrainInsertAndSend, netVars, NoNewSuccess, Answers,
           TrackedSent, TrackedOnce
    <2> QED BY <2>1, <2>2
<1>2. CASE DrainMark(d)
    <2>1. NoNewSuccess
        BY <1>2, RunRows DEF DrainMark, NoNewSuccess, TypeOK, Running
    <2> QED BY <1>2, <2>1, FewerAnswers DEF DrainMark, netVars, Answers, TrackedSent, TrackedOnce
<1>3. CASE \/ DrainSelect(d) \/ DrainNextRow(d) \/ DrainEnds(d) \/ DrainAttempt(d)
           \/ DrainDelete(d) \/ DrainQueryFails(d)
    BY <1>3, FewerAnswers DEF DrainSelect, DrainNextRow, DrainEnds, DrainAttempt, DrainDelete,
       DrainQueryFails, netVars, NoNewSuccess, Answers, TrackedSent, TrackedOnce
<1> QED BY <1>1, <1>2, <1>3 DEF DrainNext

\* The agent receives a command once, and ends it once.
LEMMA ReceiveAnswers ==
    ASSUME TypeOK, Answers, NEW s \in Socket, ReceiveCommand(s)
    PROVE  Answers'
<1> DEFINE h == Head(inbox[s])
<1>1. /\ h \in Id /\ h = inbox[s][1] /\ 1 \in 1..Len(inbox[s])
      /\ fate[h] = "emitted"
    BY InboxHead DEF Answers
<1>2. /\ \A x \in Id : fate'[x] = IF x = h THEN "received" ELSE fate[x]
      /\ \A t \in Socket : inbox'[t] = IF t = s THEN Tail(inbox[s]) ELSE inbox[t]
      /\ UNCHANGED <<remote, tracked, writes, results>>
    BY DEF ReceiveCommand, TypeOK
<1>3. inbox[s] \in Seq(Id) /\ inbox[s] # <<>> /\ Len(inbox[s]) \in Nat
    BY DEF ReceiveCommand, TypeOK
<1>4. \A i \in 1..Len(Tail(inbox[s])) : i + 1 \in 1..Len(inbox[s]) /\ Tail(inbox[s])[i] = inbox[s][i + 1]
    BY <1>3, HeadTailProperties
<1> HIDE DEF h
<1>5. ASSUME NEW t \in Socket, NEW i \in 1..Len(inbox'[t])
      PROVE  \E j \in 1..Len(inbox[t]) : /\ inbox'[t][i] = inbox[t][j] /\ inbox[t][j] # h
                                         /\ j = IF t = s THEN i + 1 ELSE i
    <2>1. CASE t = s
        <3>1. i \in 1..Len(Tail(inbox[s])) /\ inbox'[t][i] = Tail(inbox[s])[i]
            BY <1>2, <2>1
        <3>2. i + 1 \in 1..Len(inbox[s]) /\ inbox'[t][i] = inbox[s][i + 1] /\ i + 1 # 1
            BY <1>4, <3>1
        <3>3. inbox[s][i + 1] # h
            BY <1>1, <3>2 DEF Answers, DeliveredOnce
        <3> QED BY <2>1, <3>2, <3>3
    <2>2. CASE t # s
        <3>1. inbox'[t] = inbox[t]
            BY <1>2, <2>2
        <3>2. inbox[t][i] # h
            BY <1>1, <2>2, <3>1 DEF Answers, DeliveredOnce
        <3> QED BY <2>2, <3>1, <3>2
    <2> QED BY <2>1, <2>2
<1>6. DeliveredOnce'
    <2>1. \A t \in Socket : \A i \in 1..Len(inbox'[t]) : fate'[inbox'[t][i]] = "emitted"
        BY <1>2, <1>5, AnswerRows DEF Answers, DeliveredOnce
    <2>2. ASSUME NEW t \in Socket, NEW u \in Socket,
                 NEW i \in 1..Len(inbox'[t]), NEW j \in 1..Len(inbox'[u]),
                 inbox'[t][i] = inbox'[u][j]
          PROVE  t = u /\ i = j
        <3>1. PICK k \in 1..Len(inbox[t]) : inbox'[t][i] = inbox[t][k] /\ k = IF t = s THEN i + 1 ELSE i
            BY <1>5
        <3>2. PICK l \in 1..Len(inbox[u]) : inbox'[u][j] = inbox[u][l] /\ l = IF u = s THEN j + 1 ELSE j
            BY <1>5
        <3>3. inbox[t][k] = inbox[u][l]
            BY <2>2, <3>1, <3>2
        <3>4. t = u /\ k = l
            BY <3>3 DEF Answers, DeliveredOnce
        <3> QED BY <3>1, <3>2, <3>4
    <2> QED BY <2>1, <2>2 DEF DeliveredOnce
<1>7. Results'
    BY <1>1, <1>2, AnswerRows DEF Answers, Results, Verdict
<1>8. Written'
    BY <1>1, <1>2, AnswerRows DEF Answers, Written, Verdict
<1>9. TrackedSent'
    BY <1>2, AnswerRows DEF Answers, TrackedSent, TrackedOnce
<1> QED BY <1>6, <1>7, <1>8, <1>9 DEF Answers

\* What a command that is being executed becomes contradicts nothing that was
\* said of another.
LEMMA EndedAnswers ==
    ASSUME TypeOK, Answers, UNCHANGED <<remote, tracked, writes, inbox>>,
           \A r \in Id : \/ fate'[r] = fate[r]
                         \/ fate[r] = "received" /\ fate'[r] # "unsent"
    PROVE  DeliveredOnce' /\ Written' /\ TrackedSent'
<1>1. DeliveredOnce'
    BY AnswerRows DEF Answers, DeliveredOnce
<1>2. Written'
    BY AnswerRows DEF Answers, Written, Verdict
<1>3. TrackedSent'
    BY AnswerRows DEF Answers, TrackedSent, TrackedOnce
<1> QED BY <1>1, <1>2, <1>3

LEMMA FinishAnswers ==
    ASSUME TypeOK, Answers, NEW r \in Id, NEW ok \in BOOLEAN, FinishCommand(r, ok)
    PROVE  Answers'
<1>1. /\ fate[r] = "received"
      /\ \A x \in Id : fate'[x] = IF x = r THEN Verdict(ok) ELSE fate[x]
    BY DEF FinishCommand, TypeOK, Verdict
<1>2. DeliveredOnce' /\ Written' /\ TrackedSent'
    BY <1>1, EndedAnswers DEF FinishCommand, Verdict
<1>3. \A s \in Socket : \A i \in 1..Len(results[s]) :
          fate'[results[s][i].id] = Verdict(results[s][i].ok)
    BY <1>1, AnswerRows DEF Answers, Results, Verdict
<1>4. Results'
    <2>1. CASE UNCHANGED results
        BY <1>3, <2>1 DEF Results
    <2>2. ASSUME NEW t \in alive, results' = [results EXCEPT ![t] = Append(@, [id |-> r, ok |-> ok])]
          PROVE  Results'
        <3> DEFINE m == [id |-> r, ok |-> ok]
        <3>1. t \in Socket /\ results[t] \in Seq([id : Id, ok : BOOLEAN]) /\ Len(results[t]) \in Nat
            <4>1. t \in Socket
                BY DEF TypeOK, RegistryTypeOK
            <4>2. results[t] \in Seq([id : Id, ok : BOOLEAN])
                BY <4>1 DEF TypeOK
            <4> QED BY <4>1, <4>2, LenProperties
        <3>2. m \in [id : Id, ok : BOOLEAN] /\ m.id = r /\ m.ok = ok
            OBVIOUS
        <3> HIDE DEF m
        <3>3. /\ Len(Append(results[t], m)) = Len(results[t]) + 1
              /\ \A i \in 1..Len(results[t]) : Append(results[t], m)[i] = results[t][i]
              /\ Append(results[t], m)[Len(results[t]) + 1] = m
            BY <3>1, <3>2, AppendProperties
        <3>4. \A s \in Socket : results'[s] = IF s = t THEN Append(results[t], m) ELSE results[s]
            BY <2>2, <3>1 DEF TypeOK, m
        <3>5. ASSUME NEW s \in Socket, NEW i \in 1..Len(results'[s])
              PROVE  fate'[results'[s][i].id] = Verdict(results'[s][i].ok)
            <4>1. CASE s # t
                BY <1>3, <3>4, <4>1
            <4>2. CASE s = t
                <5>1. results'[s] = Append(results[t], m)
                    BY <3>4, <4>2
                <5>2. i \in 1..Len(results[t]) \/ i = Len(results[t]) + 1
                    BY <3>1, <3>3, <5>1
                <5>3. CASE i \in 1..Len(results[t])
                    <6>1. results'[s][i] = results[t][i]
                        BY <3>3, <5>1, <5>3
                    <6> QED BY <1>3, <3>1, <5>3, <6>1
                <5>4. CASE i = Len(results[t]) + 1
                    <6>1. results'[s][i] = m
                        BY <3>3, <5>1, <5>4
                    <6> QED BY <1>1, <3>2, <6>1
                <5> QED BY <5>2, <5>3, <5>4
            <4> QED BY <4>1, <4>2
        <3> QED BY <3>5 DEF Results
    <2> QED BY <2>1, <2>2 DEF FinishCommand
<1> QED BY <1>2, <1>4 DEF Answers

LEMMA AgentRestartAnswers ==
    ASSUME TypeOK, Answers, AgentRestart
    PROVE  Answers'
<1>1. \A x \in Id : fate'[x] = IF fate[x] = "received" THEN "aborted" ELSE fate[x]
    BY DEF AgentRestart
<1>2. DeliveredOnce' /\ Written' /\ TrackedSent'
    BY <1>1, EndedAnswers DEF AgentRestart, netVars
<1>3. Results'
    BY <1>1, AnswerRows DEF AgentRestart, netVars, Answers, Results, Verdict
<1> QED BY <1>2, <1>3 DEF Answers

\* A result taken from the wire says how its command ended.
LEMMA ResultHead ==
    ASSUME TypeOK, Results, NEW s \in Socket, results[s] # <<>>
    PROVE  /\ Head(results[s]) \in [id : Id, ok : BOOLEAN]
           /\ fate[Head(results[s]).id] = Verdict(Head(results[s]).ok)
           /\ \A i \in 1..Len(Tail(results[s])) :
                 i + 1 \in 1..Len(results[s]) /\ Tail(results[s])[i] = results[s][i + 1]
<1>1. results[s] \in Seq([id : Id, ok : BOOLEAN])
    BY DEF TypeOK
<1>2. /\ Head(results[s]) \in [id : Id, ok : BOOLEAN]
      /\ Len(Tail(results[s])) = Len(results[s]) - 1
      /\ \A i \in 1..Len(Tail(results[s])) : Tail(results[s])[i] = results[s][i + 1]
    BY <1>1, HeadTailProperties
<1>3. Len(results[s]) \in Nat \ {0}
    BY <1>1, EmptySeq
<1>4. 1 \in 1..Len(results[s]) /\ Head(results[s]) = results[s][1]
    BY <1>1, HeadIsFirst
<1>5. \A i \in 1..Len(Tail(results[s])) : i + 1 \in 1..Len(results[s])
    BY <1>2, <1>3
<1> QED BY <1>2, <1>4, <1>5 DEF Results

\* An id that leaves the map leaves the others, once each.
LEMMA UntrackedSent ==
    ASSUME TypeOK, TrackedSent, UNCHANGED fate, NEW r, tracked' = Untrack(r)
    PROVE  TrackedSent'
<1>1. tracked \in Seq(Id)
    BY DEF TypeOK
<1>2. TrackedOnce /\ \A x \in ToSet(tracked) : fate[x] # "unsent"
    BY DEF TrackedSent
<1>3. ToSet(tracked') \subseteq ToSet(tracked)
    BY <1>1, UntrackProperties
<1>4. \A i, j \in 1..Len(tracked') : tracked'[i] = tracked'[j] => i = j
    BY <1>1, <1>2, UntrackProperties
<1> QED BY <1>2, <1>3, <1>4 DEF TrackedSent, TrackedOnce

\* The server handles a result, or drops it while no listener is attached.
LEMMA ResultAnswers ==
    ASSUME TypeOK, Answers, NEW s \in Socket, HandleCommandResult(s) \/ IgnoreResult(s)
    PROVE  Answers'
<1> DEFINE m == Head(results[s])
<1>1. results[s] # <<>> /\ UNCHANGED <<remote, inbox, fate>>
    BY DEF HandleCommandResult, IgnoreResult
<1>2. /\ m \in [id : Id, ok : BOOLEAN] /\ fate[m.id] = Verdict(m.ok)
      /\ \A i \in 1..Len(Tail(results[s])) :
            i + 1 \in 1..Len(results[s]) /\ Tail(results[s])[i] = results[s][i + 1]
    BY <1>1, ResultHead DEF Answers
<1>3. \A t \in Socket : results'[t] = IF t = s THEN Tail(results[s]) ELSE results[t]
    BY DEF HandleCommandResult, IgnoreResult, TypeOK
<1> HIDE DEF m
<1>4. DeliveredOnce'
    BY <1>1 DEF Answers, DeliveredOnce
<1>5. Results'
    <2> SUFFICES ASSUME NEW t \in Socket, NEW i \in 1..Len(results'[t])
                 PROVE  fate[results'[t][i].id] = Verdict(results'[t][i].ok)
        BY <1>1 DEF Results
    <2>1. CASE t = s
        <3>1. results'[t] = Tail(results[s])
            BY <1>3, <2>1
        <3>2. i + 1 \in 1..Len(results[s]) /\ results'[t][i] = results[s][i + 1]
            BY <1>2, <3>1
        <3> QED BY <3>2 DEF Answers, Results
    <2>2. CASE t # s
        BY <1>3, <2>2 DEF Answers, Results
    <2> QED BY <2>1, <2>2
<1>6. CASE IgnoreResult(s)
    <2>1. Written' /\ TrackedSent'
        BY <1>6 DEF IgnoreResult, Answers, Written, TrackedSent, TrackedOnce
    <2> QED BY <1>4, <1>5, <2>1 DEF Answers
<1>7. CASE HandleCommandResult(s)
    <2> DEFINE w == [id |-> m.id, by |-> "result", status |-> IF m.ok THEN "completed" ELSE "failed"]
    <2>1. writes' = writes \cup {w} /\ tracked' = Untrack(m.id)
        BY <1>7 DEF HandleCommandResult, m
    <2>2. w.id = m.id /\ w.by = "result" /\ (w.status = "completed" <=> m.ok)
        OBVIOUS
    <2> HIDE DEF w
    <2>3. fate[w.id] = Verdict(w.status = "completed")
        BY <1>2, <2>2 DEF Verdict
    <2>4. Written'
        BY <1>1, <2>1, <2>2, <2>3 DEF Answers, Written
    <2>5. TrackedSent'
        BY <1>1, <2>1, UntrackedSent DEF Answers
    <2> QED BY <1>4, <1>5, <2>4, <2>5 DEF Answers
<1> QED BY <1>6, <1>7

\* The sweeps, and the ends of the writes.
LEMMA SweepAnswers ==
    ASSUME TypeOK, Answers
    PROVE  /\ \A r \in ToSet(tracked) : Timeout(r) => Answers'
           /\ EvictOldest => Answers'
           /\ \A w \in writes : CommitWrite(w) \/ LoseWrite(w) => Answers'
<1>1. ASSUME NEW r \in ToSet(tracked), Timeout(r) PROVE Answers'
    BY <1>1, FewerAnswers DEF Timeout, Fail, netVars, NoNewSuccess, Answers, TrackedSent, TrackedOnce
<1>2. CASE EvictOldest
    <2>1. tracked \in Seq(Id) /\ tracked # <<>>
        BY <1>2, ChannelAssumption, EmptySeq DEF EvictOldest, TypeOK, ChannelAssumption
    <2>2. \A i \in 1..Len(Tail(tracked)) : i + 1 \in 1..Len(tracked) /\ Tail(tracked)[i] = tracked[i + 1]
        BY <2>1, HeadTailProperties
    <2>3. tracked' = Tail(tracked) /\ Tail(tracked) \in Seq(Id) /\ UNCHANGED fate
        BY <1>2, <2>1, HeadTailProperties DEF EvictOldest
    <2>4. ToSet(Tail(tracked)) = {Tail(tracked)[i] : i \in 1..Len(Tail(tracked))}
        BY <2>3, ToSetOfSeq
    <2>5. \A r \in ToSet(tracked') : fate'[r] # "unsent"
        BY <2>2, <2>3, <2>4, AnswerRows DEF Answers, TrackedSent
    <2>6. TrackedOnce'
        BY <2>2, <2>3 DEF Answers, TrackedSent, TrackedOnce
    <2>7. TrackedSent'
        BY <2>5, <2>6 DEF TrackedSent
    <2> QED BY <1>2, <2>7, FewerAnswers DEF EvictOldest, Fail, netVars, NoNewSuccess
<1>3. ASSUME NEW w \in writes, CommitWrite(w) \/ LoseWrite(w) PROVE Answers'
    <2>1. UNCHANGED <<fate, netVars>> /\ writes' \subseteq writes /\ AfterWrite(w)
        BY <1>3 DEF CommitWrite, LoseWrite
    <2>2. TrackedSent'
        BY <2>1, UntrackedSent DEF AfterWrite, Answers, TrackedSent, TrackedOnce
    <2>3. w.id \in Id /\ (w.status = "completed" => fate[w.id] = "ok")
        BY AnswerRows DEF Answers, Written, Verdict
    <2>4. \A r \in Id : remote'[r] = "completed" => fate[r] = "ok"
        <3>1. CASE CommitWrite(w)
            BY <2>3, <3>1 DEF CommitWrite, TypeOK, Answers, Written
        <3>2. CASE LoseWrite(w)
            BY <3>2 DEF LoseWrite, Answers, Written
        <3> QED BY <1>3, <3>1, <3>2
    <2>5. Written'
        BY <2>1, <2>4 DEF Answers, Written
    <2>6. DeliveredOnce' /\ Results'
        BY <2>1 DEF netVars, Answers, DeliveredOnce, Results
    <2> QED BY <2>2, <2>5, <2>6 DEF Answers
<1> QED BY <1>1, <1>2, <1>3

\* The steps of the connections.
LEMMA ConnectionAnswers ==
    ASSUME TypeOK, Answers
    PROVE  /\ \A s \in Socket : Connect(s) \/ Disconnect(s) => Answers'
           /\ EvictZombie \/ ServerRestart => Answers'
<1>1. ASSUME NEW s \in Socket, Disconnect(s) PROVE Answers'
    BY <1>1, CloseAnswers DEF Disconnect, NoNewSuccess
<1>2. CASE EvictZombie \/ \E s \in Socket : Connect(s)
    BY <1>2, FewerAnswers DEF EvictZombie, Connect, cmdVars, netVars, NoNewSuccess, Answers,
       TrackedSent, TrackedOnce
<1>3. CASE ServerRestart
    BY <1>3, FewerAnswers, NothingTracked DEF ServerRestart, NoNewSuccess
<1> QED BY <1>1, <1>2, <1>3

LEMMA AnswersInit == Init => Answers
<1> SUFFICES ASSUME Init PROVE Answers
    OBVIOUS
<1>1. Len(<<>>) = 0 /\ 1..0 = {} /\ ToSet(<<>>) = {}
    BY EmptySeq DEF ToSet
<1>2. DeliveredOnce /\ Results /\ TrackedSent
    BY <1>1 DEF Init, DeliveredOnce, Results, TrackedSent, TrackedOnce
<1>3. Written
    BY DEF Init, Written
<1> QED BY <1>2, <1>3 DEF Answers

LEMMA AnswersNext == TypeOK /\ IInv /\ Sends /\ Answers /\ [Next]_vars => Answers'
<1> SUFFICES ASSUME TypeOK, IInv, Sends, Answers, [Next]_vars PROVE Answers'
    OBVIOUS
<1>1. ASSUME NEW C \in SUBSET queued, Withdraw(C) PROVE Answers'
    BY <1>1, FewerAnswers DEF Withdraw, netVars, NoNewSuccess, Answers, TrackedSent, TrackedOnce
<1>2. CASE UNCHANGED vars
    BY <1>2, FewerAnswers DEF vars, cmdVars, netVars, NoNewSuccess, Answers, TrackedSent, TrackedOnce
<1> QED BY <1>1, <1>2, RequestAnswers, DrainAnswers, ReceiveAnswers, FinishAnswers,
           AgentRestartAnswers, ResultAnswers, SweepAnswers, ConnectionAnswers DEF Next

\* All that is known of a reachable state of the channel.
Delivery == TypeOK /\ IInv /\ Sends /\ Answers

LEMMA DeliveryInvariant == Spec => []Delivery
<1>1. Init => Delivery
    BY TypeInit, AttemptsInit, SendsInit, AnswersInit DEF Delivery
<1>2. Delivery /\ [Next]_vars => Delivery'
    BY TypeNext, AttemptsNext, SendsNext, AnswersNext DEF Delivery, Answers
<1> QED BY <1>1, <1>2, PTL DEF Spec

\* A real-time command is sent while its caller waits or not at all: the runs
\* of the queue never get it, and no row of it is sent after the request ended.
THEOREM RealtimeOnce == Spec => []RealtimeSentAtOnce
<1>1. Delivery => RealtimeSentAtOnce
    <2> SUFFICES ASSUME Delivery, NEW c \in Realtime, NEW r \in Id, r[1] = c, fate[r] # "unsent"
                 PROVE  req[c] \in {"marking", "sent", "error"}
        BY DEF RealtimeSentAtOnce, Sent
    <2>1. c \in Command /\ r = <<c, r[2]>> /\ r[2] \in Nat
        BY Rows
    <2>2. attempts[c] = 0
        BY <2>1 DEF Delivery, Sends, QueuedFirst, RealtimeNotQueued
    <2>3. r[2] = 0
        BY <2>1, <2>2 DEF Delivery, Sends, LaterSends
    <2> QED BY <2>1, <2>3 DEF Delivery, Sends, FirstSend
<1> QED BY <1>1, DeliveryInvariant, PTL

\* What a step does to a row that the agent has received: it ends it, or nothing.
LEMMA FateEnds ==
    ASSUME Delivery, Next, NEW r \in Id, fate[r] \notin {"unsent", "emitted"}
    PROVE  fate'[r] = fate[r] \/ (fate[r] = "received" /\ fate'[r] \in {"ok", "error", "aborted"})
<1>1. TypeOK /\ IInv /\ Sends /\ Answers /\ DeliveredOnce
    BY DEF Delivery, Answers
<1>2. ASSUME NEW x \in Id, fate[x] = "unsent", SendAccepted(x) PROVE fate'[r] = fate[r]
    BY <1>1, <1>2 DEF SendAccepted, TypeOK
<1>3. ASSUME NEW c \in Command, RequestNext(c) PROVE fate'[r] = fate[r]
    BY <1>1, <1>2, <1>3, FreshRows DEF RequestNext, SendOrQueue, InsertAndSend, SendRefused,
       MarkExecuting, MarkZombieFailed, QueueCommand, RequestFails
<1>4. ASSUME NEW d \in Drain, DrainNext(d) PROVE fate'[r] = fate[r]
    BY <1>1, <1>2, <1>4, FreshRows DEF DrainNext, DrainSelect, DrainNextRow, DrainEnds, DrainAttempt,
       DrainInsertAndSend, SendRefused, DrainMark, DrainDelete, DrainQueryFails
<1>5. ASSUME NEW s \in Socket, ReceiveCommand(s) PROVE fate'[r] = fate[r]
    BY <1>1, <1>5, InboxHead DEF ReceiveCommand, TypeOK
<1>6. ASSUME NEW x \in Id, NEW ok \in BOOLEAN, FinishCommand(x, ok)
      PROVE  fate'[r] = fate[r] \/ (fate[r] = "received" /\ fate'[r] \in {"ok", "error"})
    BY <1>1, <1>6 DEF FinishCommand, TypeOK
<1>7. CASE AgentRestart
    BY <1>7 DEF AgentRestart
<1>8. ASSUME NEW s \in Socket, Connect(s) \/ Disconnect(s) \/ HandleCommandResult(s) \/ IgnoreResult(s)
      PROVE  UNCHANGED fate
    BY <1>8 DEF Connect, Disconnect, HandleCommandResult, IgnoreResult, cmdVars
<1>9. ASSUME NEW x \in ToSet(tracked), Timeout(x) PROVE UNCHANGED fate
    BY <1>9 DEF Timeout
<1>10. ASSUME NEW w \in writes, CommitWrite(w) \/ LoseWrite(w) PROVE UNCHANGED fate
    BY <1>10 DEF CommitWrite, LoseWrite
<1>11. ASSUME NEW C \in SUBSET queued, Withdraw(C) PROVE UNCHANGED fate
    BY <1>11 DEF Withdraw
<1>12. CASE EvictZombie \/ EvictOldest \/ ServerRestart
    BY <1>12 DEF EvictZombie, EvictOldest, ServerRestart, cmdVars
<1> QED BY <1>3, <1>4, <1>5, <1>6, <1>7, <1>8, <1>9, <1>10, <1>11, <1>12 DEF Next

\* The agent executes a row once at most: what it receives was emitted and not
\* received before, and what is emitted was never sent before.
THEOREM NoRowTwice == Spec => ExecutedOnce
<1> DEFINE Forward == \A r \in Id :
              /\ fate[r] = "received" => fate'[r] \notin {"unsent", "emitted"}
              /\ fate[r] \in {"ok", "error", "aborted"} => fate'[r] = fate[r]
<1>1. Delivery /\ [Next]_vars => [Forward]_vars
    BY FateEnds
<1> QED BY <1>1, DeliveryInvariant, PTL DEF Spec, ExecutedOnce

\* Only a withdrawal and the last step of a run take a row from the queue.
LEMMA QueueShrinks ==
    ASSUME Next, NEW c \in queued \ queued'
    PROVE  \/ \E C \in SUBSET queued : Withdraw(C)
           \/ \E d \in Drain : DrainDelete(d) /\ current[d][1] = c
<1>1. ASSUME NEW e \in Command, RequestNext(e) PROVE queued \subseteq queued'
    BY <1>1 DEF RequestNext, SendOrQueue, InsertAndSend, MarkExecuting, MarkZombieFailed,
       QueueCommand, RequestFails, queueVars
<1>2. ASSUME NEW d \in Drain, DrainNext(d) PROVE UNCHANGED queued \/ DrainDelete(d)
    BY <1>2 DEF DrainNext, DrainSelect, DrainNextRow, DrainEnds, DrainAttempt, DrainInsertAndSend,
       DrainMark, DrainQueryFails, queueVars
<1>3. ASSUME NEW d \in Drain, DrainDelete(d) PROVE current[d][1] = c
    BY <1>3 DEF DrainDelete
<1>4. ASSUME NEW s \in Socket,
             Connect(s) \/ Disconnect(s) \/ ReceiveCommand(s) \/ HandleCommandResult(s) \/ IgnoreResult(s)
      PROVE  UNCHANGED queued
    BY <1>4 DEF Connect, Disconnect, ReceiveCommand, HandleCommandResult, IgnoreResult, cmdVars, queueVars
<1>5. ASSUME NEW r \in Id, NEW ok \in BOOLEAN, FinishCommand(r, ok) PROVE UNCHANGED queued
    BY <1>5 DEF FinishCommand, queueVars
<1>6. ASSUME NEW r \in ToSet(tracked), Timeout(r) PROVE UNCHANGED queued
    BY <1>6 DEF Timeout, queueVars
<1>7. ASSUME NEW w \in writes, CommitWrite(w) \/ LoseWrite(w) PROVE UNCHANGED queued
    BY <1>7 DEF CommitWrite, LoseWrite, queueVars
<1>8. CASE EvictZombie \/ EvictOldest \/ AgentRestart \/ ServerRestart
    BY <1>8 DEF EvictZombie, EvictOldest, AgentRestart, ServerRestart, cmdVars, queueVars
<1> QED BY <1>1, <1>2, <1>3, <1>4, <1>5, <1>6, <1>7, <1>8 DEF Next

\* A queued command leaves the queue after it was emitted, or withdrawn.
THEOREM QueueDropsNothing == Spec => RowLeavesAfterSend
<1> DEFINE Leaves == \A c \in queued \ queued' : Sent(c) \/ \E C \in SUBSET queued : Withdraw(C)
<1>1. Delivery /\ [Next]_vars => [Leaves]_vars
    <2> SUFFICES ASSUME Delivery, Next, NEW c \in queued \ queued',
                        ~ \E C \in SUBSET queued : Withdraw(C)
                 PROVE  Sent(c)
        OBVIOUS
    <2>1. PICK d \in Drain : DrainDelete(d) /\ current[d][1] = c
        BY QueueShrinks
    <2>2. current[d] \in Id /\ fate[current[d]] # "unsent"
        BY <2>1, RunRows DEF DrainDelete, Running, Delivery, Sends, RunsSend
    <2> QED BY <2>1, <2>2 DEF Sent
<1> QED BY <1>1, DeliveryInvariant, PTL DEF Spec, RowLeavesAfterSend

\* What can take a row from completed: a sender that inserts it or marks it, a
\* request whose send was refused, and a write that applies.
LEMMA WhoUndoes ==
    ASSUME Delivery, Next, NEW r \in Id, remote[r] = "completed", remote'[r] # "completed"
    PROVE  \/ Unmarked(r)
           \/ \E c \in Command : req[c] \in {"insert", "failing"} /\ r = <<c, 0>>
           \/ \E d \in Drain : drain[d] = "insert" /\ current[d] = r /\ current[d][1] \in queued
           \/ \E w \in writes : w.id = r /\ w.status = "failed" /\ Applies(w)
<1>1. remote \in [Id -> {"none", "pending", "executing", "completed", "failed"}]
    BY DEF Delivery, TypeOK
<1>2. ASSUME NEW c \in Command, RequestNext(c)
      PROVE  req[c] \in {"insert", "failing", "marking"} /\ r = <<c, 0>>
    BY <1>1, <1>2 DEF RequestNext, SendOrQueue, InsertAndSend, MarkExecuting, MarkZombieFailed,
       QueueCommand, RequestFails
<1>3. ASSUME NEW d \in Drain, DrainNext(d)
      PROVE  /\ current[d] = r
             /\ drain[d] = "marking" \/ (drain[d] = "insert" /\ current[d][1] \in queued)
    BY <1>1, <1>3 DEF DrainNext, DrainSelect, DrainNextRow, DrainEnds, DrainAttempt, DrainInsertAndSend,
       DrainMark, DrainDelete, DrainQueryFails
<1>4. ASSUME NEW s \in Socket,
             Connect(s) \/ Disconnect(s) \/ ReceiveCommand(s) \/ HandleCommandResult(s) \/ IgnoreResult(s)
      PROVE  FALSE
    BY <1>4 DEF Connect, Disconnect, ReceiveCommand, HandleCommandResult, IgnoreResult, cmdVars
<1>5. ASSUME NEW x \in Id, NEW ok \in BOOLEAN, FinishCommand(x, ok) PROVE FALSE
    BY <1>5 DEF FinishCommand
<1>6. ASSUME NEW x \in ToSet(tracked), Timeout(x) PROVE FALSE
    BY <1>6 DEF Timeout
<1>7. ASSUME NEW w \in writes, CommitWrite(w)
      PROVE  w.id = r /\ w.status = "failed" /\ Applies(w)
    <2>1. w.status \in {"completed", "failed"} /\ w.id \in Id
        BY DEF Delivery, TypeOK, StatusWrite
    <2> QED BY <1>1, <1>7, <2>1 DEF CommitWrite
<1>8. ASSUME NEW w \in writes, LoseWrite(w) PROVE FALSE
    BY <1>8 DEF LoseWrite
<1>9. CASE EvictZombie \/ EvictOldest \/ AgentRestart \/ ServerRestart
    BY <1>9 DEF EvictZombie, EvictOldest, AgentRestart, ServerRestart, cmdVars
<1>10. ASSUME NEW C \in SUBSET queued, Withdraw(C) PROVE FALSE
    BY <1>10 DEF Withdraw
<1> QED BY <1>2, <1>3, <1>4, <1>5, <1>6, <1>7, <1>8, <1>9, <1>10 DEF Next, Unmarked

\* A success reported by the agent stays, but for the update to 'executing' of
\* its own sender: no row is inserted again after its send, no row has two
\* results, no row that was refused has one, and the timeout, disconnect and
\* eviction updates only apply to a row that is still open.
THEOREM SuccessStays == Spec => SuccessStaysCompleted
<1> DEFINE Stays == \A r \in Id : remote[r] = "completed" /\ ~Unmarked(r) => remote'[r] = "completed"
<1>1. Delivery /\ [Next]_vars => [Stays]_vars
    <2> SUFFICES ASSUME Delivery, Next, NEW r \in Id, remote[r] = "completed", ~Unmarked(r),
                        remote'[r] # "completed"
                 PROVE  FALSE
        OBVIOUS
    <2>1. fate[r] = "ok"
        BY DEF Delivery, Answers, Written
    <2>2. ASSUME NEW c \in Command, req[c] \in {"insert", "failing"}, r = <<c, 0>> PROVE FALSE
        BY <2>1, <2>2 DEF Delivery, Sends, FirstSend
    <2>3. ASSUME NEW d \in Drain, drain[d] = "insert", current[d] = r, current[d][1] \in queued
          PROVE  FALSE
        BY <2>1, <2>3 DEF Delivery, Sends, RunsSend
    <2>4. ASSUME NEW w \in writes, w.id = r, w.status = "failed", Applies(w) PROVE FALSE
        <3>1. w.by = "result"
            BY <2>4 DEF Applies
        <3>2. fate[r] = "error"
            BY <2>4, <3>1 DEF Delivery, Answers, Written, Verdict
        <3> QED BY <2>1, <3>2
    <2> QED BY <2>2, <2>3, <2>4, WhoUndoes
<1> QED BY <1>1, DeliveryInvariant, PTL DEF Spec, SuccessStaysCompleted
=============================================================================
