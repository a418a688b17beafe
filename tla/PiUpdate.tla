------------------------------ MODULE PiUpdate ------------------------------
(***************************************************************************)
(* What the Pi promises the server about software updates: the abstract    *)
(* specification that OtaInstall implements and on which UpdateDeployment  *)
(* is built.  An update is refused only while a lock file is recent.  The  *)
(* lock is written after it was looked for, grows old while an update      *)
(* works, and is removed by whichever update ends first, so that several   *)
(* may run side by side.  Each of them ends.  The version the Pi reports   *)
(* changes only while an update runs, and no rollback takes it back.       *)
(***************************************************************************)
CONSTANTS
    Version,    \* the releases
    Installed,  \* the release at the start
    Offered,    \* the releases that are deployed
    NoVersion,  \* none
    Slot        \* places for executions of an update

ASSUME PiAssumption ==
    /\ Installed \in Version
    /\ Offered \subseteq Version
    /\ NoVersion \notin Version

VARIABLES
    running,  \* the release that each execution installs
    release,  \* the version of release.json, which heartbeats report
    lock,     \* neopro-update.lock exists and is less than 10 minutes old
    alive,    \* the process of the agent
    begun     \* an update has begun at some time

piVars == <<running, release, lock, alive, begun>>

PiTypeOK ==
    /\ running \in [Slot -> Offered \cup {NoVersion}]
    /\ release \in Version
    /\ lock \in BOOLEAN
    /\ alive \in BOOLEAN
    /\ begun \in BOOLEAN

NoRuns == [r \in Slot |-> NoVersion]

PiInit ==
    /\ running = NoRuns
    /\ release = Installed
    /\ lock = FALSE
    /\ alive = TRUE
    /\ begun = FALSE

\* No recent lock is found.
Accept(r, v) ==
    /\ alive /\ ~lock
    /\ running[r] = NoVersion
    /\ running' = [running EXCEPT ![r] = v]
    /\ begun' = TRUE
    /\ UNCHANGED <<release, lock, alive>>

\* The lock is written, for this execution.
Claim(r) ==
    /\ running[r] # NoVersion
    /\ lock' = TRUE
    /\ UNCHANGED <<running, release, alive, begun>>

\* The version files are written, from an archive that executions share.
Publishes(r) ==
    /\ running[r] # NoVersion
    /\ release' \in Offered
    /\ UNCHANGED <<running, lock, alive, begun>>

\* As a success or a failure, after a rollback or without one.
Ends(r) ==
    /\ running[r] # NoVersion
    /\ running' = [running EXCEPT ![r] = NoVersion]
    /\ lock' \in {lock, FALSE}
    /\ UNCHANGED <<release, alive, begun>>

\* The process is killed or restarts itself, with or without the Pi.
Dies ==
    /\ alive
    /\ alive' = FALSE
    /\ running' = NoRuns
    /\ lock' \in {lock, FALSE}
    /\ UNCHANGED <<release, begun>>

\* Ten minutes pass, whatever the executions do, or the Pi is started again.
LockOld ==
    /\ lock
    /\ lock' = FALSE
    /\ UNCHANGED <<running, release, alive, begun>>

\* By systemd or the guardian.
Revive ==
    /\ ~alive
    /\ alive' = TRUE
    /\ UNCHANGED <<running, release, lock, begun>>

PiNext ==
    \/ \E r \in Slot : (\E v \in Offered : Accept(r, v)) \/ Claim(r) \/ Publishes(r) \/ Ends(r)
    \/ Dies \/ LockOld \/ Revive

PiSpec == PiInit /\ [][PiNext]_piVars

\* Each execution ends: every step of it is awaited with a timeout.
EachEnds == \A r \in Slot : []<>(running[r] = NoVersion)

PiFairSpec == PiSpec /\ EachEnds
=============================================================================
