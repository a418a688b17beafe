----------------------------- MODULE OtaInstall -----------------------------
(***************************************************************************)
(* Software updates on the Pi: the handler of update_software              *)
(* (update-software.js, ota-install.js, validate-post-update.js), the      *)
(* lock file, the backups and the rollback, the restart of the agent that  *)
(* startServices schedules, and sync-agent-guardian.sh, which watches the  *)
(* agent and puts its golden snapshot back.                                *)
(*                                                                         *)
(* The installed program is four directories.  What matters of each is the *)
(* release it holds, or that a copy into it was interrupted.  Only a lock  *)
(* younger than ten minutes keeps executions of the handler apart: they    *)
(* may overlap, and share the disk, the lock, and the directory in which   *)
(* an archive is unpacked.  The agent can be killed, and the power can     *)
(* fail, between any two steps and in the middle of a copy.                *)
(***************************************************************************)
EXTENDS Naturals, Sequences

CONSTANTS
    Version,        \* the releases
    Previous,       \* the release before the installed one
    Installed,      \* the release at the start
    Offered,        \* the releases that are deployed
    Crashing,       \* releases whose agent does not start
    Archive,        \* the directories that the archive of a release has
    Request,        \* the commands that arrive
    Broken,         \* a directory removed or copied in part
    Absent,         \* no copy of a directory, no snapshot, no release
    CrashThreshold, \* CRASH_THRESHOLD of the guardian
    MaxUpdates,     \* bound: updates begun
    MaxFaults       \* bound: deaths, power failures, overlaps

Item == {"webapp", "server", "admin", "sync-agent"}
BackupOrder == <<"webapp", "server", "admin", "sync-agent">>
InstallOrder == <<"webapp", "server", "sync-agent", "admin">>

ASSUME OtaAssumption ==
    /\ {Previous, Installed} \subseteq Version \ Crashing
    /\ Offered \subseteq Version
    /\ Archive \in [Version -> SUBSET Item]
    /\ Request \subseteq [version : Offered, auto : BOOLEAN, reboot : BOOLEAN]
    /\ {Broken, Absent} \cap Version = {}
    /\ Broken # Absent
    /\ CrashThreshold \in Nat \ {0}
    /\ {MaxUpdates, MaxFaults} \subseteq Nat

VARIABLES
    disk,      \* what each directory of the program holds
    release,   \* the version named by release.json and VERSION
    golden,    \* the snapshot sync-agent-golden
    backup,    \* the directory backup-<timestamp> of each update
    newest,    \* the update that made the last of them
    hasBackup, \* there is one
    crashed,   \* the guardian left a sync-agent-crashed-<date> beside them
    lock,      \* neopro-update.lock exists and is less than 10 minutes old
    run,       \* the execution of each update
    timer,     \* the restart or reboot that is scheduled
    agent,     \* the process of the agent
    downs,     \* the guardian's count of crashes
    guardian,  \* "watching", or "copying" the snapshot
    updates,   \* updates begun
    faults

programVars == <<disk, release, golden>>
backupVars == <<backup, newest, hasBackup, crashed>>
processVars == <<timer, agent, downs, guardian>>
boundVars == <<updates, faults>>
otaVars == <<programVars, backupVars, lock, run, processVars, boundVars>>

Update == 1..MaxUpdates
Earlier == 0                  \* an update before the first of the model
CrashDir == MaxUpdates + 1    \* sync-agent-crashed-<date>
Dir == Earlier..CrashDir

Content == Version \cup {Broken}
Saved == Content \cup {Absent}
Phase == {"idle", "check", "prepare", "backup", "install", "publish", "verify", "validate",
          "rollback", "restored", "mixed"}

All(v) == [i \in Item |-> v]

\* before, saved and alone are history: the directories when the update began,
\* whether it has saved them all, and whether no other overlapped it.
Idle == [phase |-> "idle", at |-> 1, command |-> Absent, from |-> Earlier,
         before |-> All(Absent), saved |-> FALSE, alone |-> TRUE]

OtaTypeOK ==
    /\ disk \in [Item -> Content]
    /\ release \in Version
    /\ golden \in Saved
    /\ backup \in [Dir -> [Item -> Saved]]
    /\ newest \in Dir
    /\ hasBackup \in BOOLEAN
    /\ crashed \in BOOLEAN
    /\ lock \in BOOLEAN
    /\ run \in [Update -> [phase : Phase, at : 1..4, command : Request \cup {Absent}, from : Dir,
                           before : [Item -> Saved], saved : BOOLEAN, alone : BOOLEAN]]
    /\ timer \in {"none", "restart", "reboot"}
    /\ agent \in {"up", "down"}
    /\ downs \in 0..CrashThreshold
    /\ guardian \in {"watching", "copying"}
    /\ updates \in 0..MaxUpdates
    /\ faults \in 0..MaxFaults

\* The Pi may have been updated before.
OtaInit ==
    /\ disk = All(Installed)
    /\ release = Installed
    /\ golden \in {Absent, Installed}
    /\ hasBackup \in BOOLEAN
    /\ backup = [d \in Dir |-> All(IF d = Earlier /\ hasBackup THEN Previous ELSE Absent)]
    /\ newest = Earlier
    /\ crashed = FALSE
    /\ lock = FALSE
    /\ run = [u \in Update |-> Idle]
    /\ timer = "none"
    /\ agent = "up"
    /\ downs = 0
    /\ guardian = "watching"
    /\ updates = 0
    /\ faults = 0

Active(u) == run[u].phase # "idle"
Busy == \E u \in Update : Active(u)

-----------------------------------------------------------------------------
(* execute(): the lock, the checks, the download and the checksum *)

\* After the test of the lock an execution that overlaps another is "mixed".
Overlapped(r) == [Idle EXCEPT !.phase = IF r.phase = "check" THEN r.phase ELSE "mixed",
                              !.command = r.command, !.alone = FALSE]

\* The executions when the next update begins with command c.
WithNext(c) ==
    [u \in Update |->
        IF u = updates + 1
        THEN [Idle EXCEPT !.phase = "check", !.command = c,
                          !.before = IF Busy THEN @ ELSE disk, !.alone = ~Busy]
        ELSE IF Active(u) THEN Overlapped(run[u]) ELSE run[u]]

CountFault == faults < MaxFaults /\ faults' = faults + 1

\* Bound: an update beside another counts among the faults.
CountOverlap == IF Busy THEN CountFault ELSE UNCHANGED faults

\* Mutant: the lock is not looked for.
BeginUnlocked(c) ==
    /\ agent = "up"
    /\ updates < MaxUpdates
    /\ updates' = updates + 1
    /\ CountOverlap
    /\ run' = WithNext(c)
    /\ UNCHANGED <<programVars, backupVars, lock, processVars>>

\* There is no recent lock, whether or not an update is in progress.  With one the
\* command is answered as a success at once, and nothing changes but a flag
\* (ScheduleRestart).
Begin(c) ==
    /\ agent = "up"
    /\ ~lock
    /\ updates < MaxUpdates
    /\ updates' = updates + 1
    /\ CountOverlap
    /\ run' = WithNext(c)
    /\ UNCHANGED <<programVars, backupVars, lock, processVars>>

\* The lock is written after the test of it.
TakeLock(u) ==
    /\ run[u].phase = "check"
    /\ lock' = TRUE
    /\ run' = [run EXCEPT ![u].phase = IF run[u].alone THEN "prepare" ELSE "mixed"]
    /\ UNCHANGED <<programVars, backupVars, processVars, boundVars>>

Restored(d) == \E u \in Update : run[u].phase = "rollback" /\ run[u].from = d

\* The package is there: createBackup makes an empty directory.  No rollback
\* will choose an older one any more: what those hold is forgotten.
Prepared(u) ==
    /\ run[u].phase = "prepare"
    /\ run' = [run EXCEPT ![u].phase = "backup"]
    /\ backup' = [d \in Dir |-> IF Restored(d) THEN backup[d] ELSE All(Absent)]
    /\ newest' = u
    /\ hasBackup' = TRUE
    /\ UNCHANGED <<programVars, crashed, lock, processVars, boundVars>>

\* Mutant: off by one at the last directory.
AdvancePastEnd(r, p) ==
    IF r.at <= 4 THEN [r EXCEPT !.at = r.at + 1] ELSE [r EXCEPT !.at = 1, !.phase = p]

\* Go on to the next directory, or to the phase p after the last one.
Advance(r, p) ==
    IF r.at < 4 THEN [r EXCEPT !.at = r.at + 1] ELSE [r EXCEPT !.at = 1, !.phase = p]

\* Mutant: the directory of the agent is not in the list.
BackUpForgetsAgent(u) ==
    LET i == BackupOrder[run[u].at] IN
    /\ run[u].phase = "backup"
    /\ backup' = IF run[u].at < 4 THEN [backup EXCEPT ![u][i] = disk[i]] ELSE backup
    /\ run' = [run EXCEPT ![u] = [Advance(run[u], "install") EXCEPT !.saved = (run[u].at = 4)]]
    /\ UNCHANGED <<programVars, newest, hasBackup, crashed, lock, processVars, boundVars>>

\* At the end cleanOldBackups keeps the five newest directories, which may or
\* may not include the one the guardian left.
BackUp(u) ==
    LET i == BackupOrder[run[u].at] IN
    /\ run[u].phase = "backup"
    /\ backup' = [backup EXCEPT ![u][i] = disk[i]]
    /\ run' = [run EXCEPT ![u] = [Advance(run[u], "install") EXCEPT !.saved = (run[u].at = 4)]]
    /\ \/ UNCHANGED crashed
       \/ run[u].at = 4 /\ crashed' = FALSE
    /\ UNCHANGED <<programVars, newest, hasBackup, lock, processVars, boundVars>>

-----------------------------------------------------------------------------
(* extractAndInstall, startServices and the validation *)

\* Before the first update of the agent its directory becomes the golden
\* snapshot; that copy may fail half way.
SaveGolden ==
    IF golden = Absent THEN golden' \in {disk["sync-agent"], Broken} ELSE UNCHANGED golden

\* The archive of u has directory i.
Brings(u, i) == i \in Archive[run[u].command.version]

\* Directory i when that has been copied: what the archive lacks stays.
Copied(u, i) == IF Brings(u, i) THEN run[u].command.version ELSE disk[i]

\* Mutant: the copy of a directory fails and the installation goes on.
InstallIgnoresErrors(u) ==
    LET i == InstallOrder[run[u].at] IN
    /\ run[u].phase = "install"
    /\ Brings(u, "webapp")
    /\ \/ disk' = [disk EXCEPT ![i] = Copied(u, i)]
       \/ disk' = [disk EXCEPT ![i] = Broken]
    /\ IF i = "sync-agent" /\ Brings(u, i) THEN SaveGolden ELSE UNCHANGED golden
    /\ run' = [run EXCEPT ![u] = Advance(run[u], "publish")]
    /\ UNCHANGED <<release, backupVars, lock, processVars, boundVars>>

\* One directory after the other; an archive without webapp is refused.
Install(u) ==
    LET i == InstallOrder[run[u].at] IN
    /\ run[u].phase = "install"
    /\ Brings(u, "webapp")
    /\ disk' = [disk EXCEPT ![i] = Copied(u, i)]
    /\ IF i = "sync-agent" /\ Brings(u, i) THEN SaveGolden ELSE UNCHANGED golden
    /\ run' = [run EXCEPT ![u] = Advance(run[u], "publish")]
    /\ UNCHANGED <<release, backupVars, lock, processVars, boundVars>>

\* A failure to write the version files is only logged.
WriteRelease(u) == release' \in {release, run[u].command.version}

\* VERSION and release.json are copied.
Publish(u) ==
    /\ run[u].phase = "publish"
    /\ WriteRelease(u)
    /\ run' = [run EXCEPT ![u].phase = "verify"]
    /\ UNCHANGED <<disk, golden, backupVars, lock, processVars, boundVars>>

\* startServices: the agent is restarted in five seconds, by a timer of its own
\* process, unless a reboot is to come.  Whether one is, is read from a flag that
\* every command sets, the skipped ones too: it may have either value.
ScheduleRestart == timer' \in {timer, IF timer = "reboot" THEN timer ELSE "restart"}

\* verifyNodeModules passes and writeVersionMetadata writes the version again.
Verify(u) ==
    /\ run[u].phase = "verify"
    /\ WriteRelease(u)
    /\ ScheduleRestart
    /\ run' = [run EXCEPT ![u].phase = "validate"]
    /\ UNCHANGED <<disk, golden, backupVars, lock, agent, downs, guardian, boundVars>>

End(u) == run' = [run EXCEPT ![u] = Idle]

\* The command is answered and the lock removed, whoever wrote it.
Answer(u) == End(u) /\ lock' = FALSE

\* Every critical check passes.
Succeed(u) ==
    /\ run[u].phase = "validate"
    /\ Answer(u)
    /\ timer' = IF run[u].command.reboot THEN "reboot" ELSE timer
    /\ UNCHANGED <<programVars, backupVars, agent, downs, guardian, boundVars>>

-----------------------------------------------------------------------------
(* Failures and the rollback *)

\* The rollback of u has something to put into directory i.
Restores(u, i) == backup[run[u].from][i] # Absent

\* Update u is copying into directory i.
Writes(u, i) ==
    \/ run[u].phase = "install" /\ InstallOrder[run[u].at] = i /\ Brings(u, i)
    \/ run[u].phase = "rollback" /\ BackupOrder[run[u].at] = i /\ Restores(u, i)

\* The copies that the executions in U have under way leave their targets as
\* they were, or broken.
LeaveCopies(U) ==
    /\ \E torn \in SUBSET {i \in Item : \E u \in U : Writes(u, i)} :
         disk' = [i \in Item |-> IF i \in torn THEN Broken ELSE disk[i]]
    /\ \E torn \in SUBSET {u \in U : run[u].phase = "backup"} :
         backup' = [d \in Dir |->
                       IF d \in torn THEN [backup[d] EXCEPT ![BackupOrder[run[d].at]] = Broken]
                       ELSE backup[d]]

\* The lock cannot be written: the command fails before the try block.
LockFails(u) ==
    /\ run[u].phase = "check"
    /\ End(u)
    /\ UNCHANGED <<programVars, backupVars, lock, processVars, boundVars>>

CanRollBack(u) == run[u].command.auto /\ (hasBackup \/ crashed)

RollsBackFrom(r, d) == [r EXCEPT !.phase = "rollback", !.at = 1, !.from = d]

\* An exception anywhere in the try block ends in the rollback, even before
\* this update has a backup of its own.  The last name in the directory of the
\* backups is restored: one left by the guardian comes after every backup and
\* holds none of the four directories.
Fail(u) ==
    /\ run[u].phase \in {"prepare", "backup", "install", "verify", "validate"}
    /\ LeaveCopies({u})
    /\ IF CanRollBack(u)
       THEN /\ run' = [run EXCEPT ![u] = RollsBackFrom(run[u], IF crashed THEN CrashDir ELSE newest)]
            /\ UNCHANGED lock
       ELSE Answer(u)
    /\ UNCHANGED <<release, golden, newest, hasBackup, crashed, processVars, boundVars>>

RollBack(u) ==
    LET i == BackupOrder[run[u].at] IN
    /\ run[u].phase = "rollback"
    /\ disk' = IF Restores(u, i) THEN [disk EXCEPT ![i] = backup[run[u].from][i]] ELSE disk
    /\ run' = [run EXCEPT ![u] = Advance(run[u], "restored")]
    /\ IF run[u].at = 4 THEN ScheduleRestart ELSE UNCHANGED timer
    /\ UNCHANGED <<release, golden, backupVars, lock, agent, downs, guardian, boundVars>>

\* rollback() throws: that is logged, and the update answered as failed.
RollBackFails(u) ==
    /\ run[u].phase = "rollback"
    /\ LeaveCopies({u})
    /\ Answer(u)
    /\ UNCHANGED <<release, golden, newest, hasBackup, crashed, processVars, boundVars>>

AnswerFailure(u) ==
    /\ run[u].phase = "restored"
    /\ Answer(u)
    /\ UNCHANGED <<programVars, backupVars, processVars, boundVars>>

-----------------------------------------------------------------------------
(* Executions that overlap *)

\* They write to the same directories, unpack their archives in one and restore
\* any backup: what they leave is not followed further, but for the directory of
\* the agent, which may hold anything.
MixedCopies(u) ==
    /\ run[u].phase = "mixed"
    /\ \E x \in Content : disk' = [All(Broken) EXCEPT !["sync-agent"] = x]
    /\ SaveGolden
    /\ UNCHANGED <<release, backupVars, lock, run, processVars, boundVars>>

MixedBackup(u) ==
    /\ run[u].phase = "mixed"
    /\ \E x \in {disk["sync-agent"], Broken} :
         backup' = [d \in Dir |-> IF d = u THEN [All(Broken) EXCEPT !["sync-agent"] = x] ELSE All(Absent)]
    /\ newest' = u
    /\ hasBackup' = TRUE
    /\ crashed' \in {crashed, FALSE}
    /\ UNCHANGED <<programVars, lock, run, processVars, boundVars>>

MixedPublish(u) ==
    /\ run[u].phase = "mixed"
    /\ release' \in Offered
    /\ UNCHANGED <<disk, golden, backupVars, lock, run, processVars, boundVars>>

MixedRestart(u) ==
    /\ run[u].phase = "mixed"
    /\ ScheduleRestart
    /\ UNCHANGED <<programVars, backupVars, lock, run, agent, downs, guardian, boundVars>>

\* As a success or a failure.
MixedEnds(u) ==
    /\ run[u].phase = "mixed"
    /\ Answer(u)
    /\ timer' \in {timer, IF run[u].command.reboot THEN "reboot" ELSE timer}
    /\ UNCHANGED <<programVars, backupVars, agent, downs, guardian, boundVars>>

-----------------------------------------------------------------------------
(* Deaths of the agent, power failures, the age of the lock *)

\* The process ends with every execution, wherever it is.
Interrupted ==
    /\ LeaveCopies(Update)
    /\ run' = [u \in Update |-> Idle]
    /\ agent' = "down"
    /\ UNCHANGED <<release, golden, newest, hasBackup, crashed>>

\* Its own timer ends with it; a reboot is in the hands of the system.
Killed ==
    /\ Interrupted
    /\ timer' = IF timer = "reboot" THEN timer ELSE "none"
    /\ UNCHANGED <<lock, downs, guardian>>

AgentDies ==
    /\ agent = "up"
    /\ CountFault
    /\ UNCHANGED updates
    /\ Killed

RestartFires ==
    /\ timer = "restart"
    /\ Killed
    /\ UNCHANGED boundVars

\* The lock and the guardian's counter are in /tmp.
Reboot ==
    /\ Interrupted
    /\ timer' = "none"
    /\ lock' = FALSE
    /\ downs' = 0
    /\ guardian' = "watching"

PowerFails ==
    /\ CountFault
    /\ UNCHANGED updates
    /\ Reboot

RebootFires ==
    /\ timer = "reboot"
    /\ Reboot
    /\ UNCHANGED boundVars

\* Ten minutes pass, which a slow download alone may take.
LockExpires ==
    /\ lock
    /\ lock' = FALSE
    /\ UNCHANGED <<programVars, backupVars, run, processVars, boundVars>>

-----------------------------------------------------------------------------
(* systemd and the guardian *)

Starts(v) == v \in Version \ Crashing

\* systemd starts the agent again, whoever stopped it.
Boot ==
    /\ agent = "down"
    /\ guardian = "watching"
    /\ Starts(disk["sync-agent"])
    /\ agent' = "up"
    /\ UNCHANGED <<programVars, backupVars, lock, run, timer, downs, guardian, boundVars>>

\* Below the threshold the guardian counts and restarts the agent.
CountCrash ==
    /\ agent = "down"
    /\ guardian = "watching"
    /\ downs + 1 < CrashThreshold
    /\ downs' = downs + 1
    /\ agent' = IF Starts(disk["sync-agent"]) THEN "up" ELSE "down"
    /\ UNCHANGED <<programVars, backupVars, lock, run, timer, guardian, boundVars>>

\* Mutant: the threshold has to be exceeded.
RestoreAboveThreshold ==
    /\ agent = "down"
    /\ guardian = "watching"
    /\ downs + 1 > CrashThreshold
    /\ golden # Absent
    /\ downs' = CrashThreshold
    /\ guardian' = "copying"
    /\ disk' = [disk EXCEPT !["sync-agent"] = Broken]
    /\ crashed' = TRUE
    /\ UNCHANGED <<release, golden, backup, newest, hasBackup, lock, run, timer, agent, boundVars>>

\* restore_from_golden moves the directory of the agent to the backups.  The
\* snapshot is checked for two paths only.
RestoreGolden ==
    /\ agent = "down"
    /\ guardian = "watching"
    /\ downs + 1 >= CrashThreshold
    /\ golden # Absent
    /\ downs' = CrashThreshold
    /\ guardian' = "copying"
    /\ disk' = [disk EXCEPT !["sync-agent"] = Broken]
    /\ crashed' = TRUE
    /\ UNCHANGED <<release, golden, backup, newest, hasBackup, lock, run, timer, agent, boundVars>>

\* The snapshot is copied and the agent started; the count is reset if it runs.
GoldenCopied ==
    /\ guardian = "copying"
    /\ guardian' = "watching"
    /\ disk' = [disk EXCEPT !["sync-agent"] = golden]
    /\ agent' = IF Starts(golden) THEN "up" ELSE "down"
    /\ downs' = IF Starts(golden) THEN 0 ELSE downs
    /\ UNCHANGED <<release, golden, backupVars, lock, run, timer, boundVars>>

\* Ten good checks in a row, or five minutes since the last crash.
ForgetCrashes ==
    /\ guardian = "watching"
    /\ agent = "up"
    /\ downs > 0
    /\ downs' = 0
    /\ UNCHANGED <<programVars, backupVars, lock, run, timer, agent, guardian, boundVars>>

\* create_golden copies the directory of a running agent, which an update may
\* be writing to.
CreateGolden ==
    /\ guardian = "watching"
    /\ agent = "up"
    /\ golden = Absent
    /\ \/ golden' = disk["sync-agent"]
       \/ /\ \E u \in Update : Writes(u, "sync-agent")
          /\ golden' = Broken
    /\ UNCHANGED <<disk, release, backupVars, lock, run, processVars, boundVars>>

\* The steps that bring an execution to its end.
Execute(u) ==
    /\ Active(u)
    /\ \/ TakeLock(u) \/ Prepared(u) \/ BackUp(u) \/ Install(u) \/ Publish(u) \/ Verify(u)
       \/ Succeed(u) \/ LockFails(u) \/ Fail(u) \/ RollBack(u) \/ RollBackFails(u)
       \/ AnswerFailure(u) \/ MixedEnds(u)

Mixed(u) == MixedCopies(u) \/ MixedBackup(u) \/ MixedPublish(u) \/ MixedRestart(u)

Guardian == Boot \/ CountCrash \/ RestoreGolden \/ GoldenCopied

OtaNext ==
    \/ \E c \in Request : Begin(c)
    \/ \E u \in Update : Execute(u) \/ Mixed(u)
    \/ AgentDies \/ PowerFails \/ RestartFires \/ RebootFires \/ LockExpires
    \/ Guardian \/ ForgetCrashes \/ CreateGolden

OtaSpec == OtaInit /\ [][OtaNext]_otaVars

\* An execution is a sequence of awaited steps, each with a timeout, so that some
\* execution goes on while there is one; the guardian checks the agent every 30 s.
OtaFairness ==
    /\ WF_otaVars(\E u \in Update : Execute(u))
    /\ WF_otaVars(Guardian)

OtaFairSpec == OtaSpec /\ OtaFairness

Running == [u \in Update |-> IF Active(u) THEN run[u].command.version ELSE Absent]

Pi == INSTANCE PiUpdate WITH
        NoVersion <- Absent,
        Slot <- Update,
        running <- Running,
        alive <- (agent = "up"),
        begun <- (updates > 0)

-----------------------------------------------------------------------------
(* Properties *)

\* An update that no other overlaps is validated, and so reported as a success,
\* only when each directory its archive has holds the new release, whatever
\* failed on the way.
ValidatedMeansInstalled ==
    \A u \in Update :
        run[u].alone /\ run[u].phase \in {"publish", "verify", "validate"} =>
            \A i \in Archive[run[u].command.version] : disk[i] = run[u].command.version

\* When the rollback of an update that no other overlaps ends, the four
\* directories are what they were before it, provided the update had saved them
\* all and the guardian left no directory among the backups.
RollbackRestores ==
    \A u \in Update :
        run[u].alone /\ run[u].phase = "restored" /\ run[u].saved /\ ~crashed => disk = run[u].before

\* The guardian brings the agent back from whatever updates, rollbacks, deaths
\* or power failures left of its directory, if the snapshot is good.
AgentComesBack == agent = "down" /\ Starts(golden) ~> agent = "up"

\* The handler, the guardian and systemd together keep the promise of PiUpdate,
\* on which a deployment is built: no update begins with a recent lock, the
\* reported version changes only while one runs, and each of them ends, though
\* several may overlap.
ImplementsPi == Pi!PiFairSpec

\* Documented: when an update fails the Pi restores the previous version from
\* the local backup.
FailedUpdateUndone ==
    \A u \in Update : run[u].alone /\ run[u].phase = "restored" => disk = run[u].before
=============================================================================
