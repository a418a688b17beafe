------------------------- MODULE OtaInstall_proofs -------------------------
(***************************************************************************)
(* Proofs about OtaInstall, for every set of releases and of commands,     *)
(* every bound and every threshold: its types, what a validated update and *)
(* a rollback leave on the disk, and that every step, of overlapping       *)
(* executions too, is one that PiUpdate allows.                            *)
(***************************************************************************)
EXTENDS OtaInstall, TLAPS

Execution == [phase : Phase, at : 1..4, command : Request \cup {Absent}, from : Dir,
              before : [Item -> Saved], saved : BOOLEAN, alone : BOOLEAN]

\* Executions run in a living agent, and the guardian replaces a dead one.
ProcessInv ==
    /\ \A u \in Update : Active(u) =>
         agent = "up" /\ guardian = "watching" /\ run[u].command \in Request /\ u <= updates
    /\ guardian = "copying" => agent = "down" /\ golden # Absent

\* An execution that is alone is the only one.
AloneInv == \A u, w \in Update : Active(u) /\ Active(w) /\ run[u].alone => u = w

\* What of the program the backup of update u holds.
BackupInv(u) ==
    /\ run[u].phase \in {"check", "prepare"} => run[u].at = 1
    /\ run[u].phase \in {"check", "prepare", "backup"} => ~run[u].saved /\ run[u].before = disk
    /\ run[u].phase = "backup" =>
         newest = u /\ \A i \in 1..4 : i < run[u].at => backup[u][BackupOrder[i]] = disk[BackupOrder[i]]
    /\ run[u].saved => newest = u /\ backup[u] = run[u].before /\ run[u].before \in [Item -> Content]

Has(u, i) == i \in Archive[run[u].command.version] => disk[i] = run[u].command.version

\* The directories that the installation of u has copied.
InstallInv(u) ==
    /\ run[u].phase = "install" => \A i \in 1..4 : i < run[u].at => Has(u, InstallOrder[i])
    /\ run[u].phase \in {"publish", "verify", "validate"} => \A i \in Item : Has(u, i)

\* The directories that the rollback of u has restored.
RollbackInv(u) ==
    run[u].saved /\ ~crashed =>
        /\ run[u].phase = "rollback" =>
             run[u].from = u /\ \A i \in 1..4 : i < run[u].at => disk[BackupOrder[i]] = run[u].before[BackupOrder[i]]
        /\ run[u].phase = "restored" => disk = run[u].before

OwnInv(u) ==
    Active(u) /\ run[u].phase # "mixed" /\ run[u].alone => BackupInv(u) /\ InstallInv(u) /\ RollbackInv(u)

OtaInv == OtaTypeOK /\ ProcessInv /\ AloneInv /\ \A u \in Update : OwnInv(u)

\* Both orders go through the four directories.
LEMMA Orders ==
    /\ \A i \in 1..4 : BackupOrder[i] \in Item /\ InstallOrder[i] \in Item
    /\ \A x \in Item : (\E i \in 1..4 : BackupOrder[i] = x) /\ (\E i \in 1..4 : InstallOrder[i] = x)
<1>1. /\ BackupOrder[1] = "webapp" /\ BackupOrder[2] = "server"
      /\ BackupOrder[3] = "admin" /\ BackupOrder[4] = "sync-agent"
  BY DEF BackupOrder
<1>2. /\ InstallOrder[1] = "webapp" /\ InstallOrder[2] = "server"
      /\ InstallOrder[3] = "sync-agent" /\ InstallOrder[4] = "admin"
  BY DEF InstallOrder
<1>3. \A i \in 1..4 : i = 1 \/ i = 2 \/ i = 3 \/ i = 4
  OBVIOUS
<1> QED BY <1>1, <1>2, <1>3 DEF Item

\* Each order goes through a directory once.
LEMMA Places ==
    \A i, j \in 1..4 : (BackupOrder[i] = BackupOrder[j] => i = j) /\ (InstallOrder[i] = InstallOrder[j] => i = j)
<1>1. /\ BackupOrder[1] = "webapp" /\ BackupOrder[2] = "server"
      /\ BackupOrder[3] = "admin" /\ BackupOrder[4] = "sync-agent"
  BY DEF BackupOrder
<1>2. /\ InstallOrder[1] = "webapp" /\ InstallOrder[2] = "server"
      /\ InstallOrder[3] = "sync-agent" /\ InstallOrder[4] = "admin"
  BY DEF InstallOrder
<1>3. \A i \in 1..4 : i = 1 \/ i = 2 \/ i = 3 \/ i = 4
  OBVIOUS
<1> QED BY <1>1, <1>2, <1>3

-----------------------------------------------------------------------------
(* Types *)

ProgramType ==
    /\ disk \in [Item -> Content]
    /\ release \in Version
    /\ golden \in Saved

BackupType ==
    /\ backup \in [Dir -> [Item -> Saved]]
    /\ newest \in Dir
    /\ hasBackup \in BOOLEAN
    /\ crashed \in BOOLEAN

RunType == run \in [Update -> Execution]

ProcessType ==
    /\ timer \in {"none", "restart", "reboot"}
    /\ agent \in {"up", "down"}
    /\ downs \in 0..CrashThreshold
    /\ guardian \in {"watching", "copying"}

BoundType ==
    /\ lock \in BOOLEAN
    /\ updates \in 0..MaxUpdates
    /\ faults \in 0..MaxFaults

LEMMA TypeParts == OtaTypeOK <=> ProgramType /\ BackupType /\ RunType /\ ProcessType /\ BoundType
  BY DEF OtaTypeOK, ProgramType, BackupType, RunType, ProcessType, BoundType, Execution

LEMMA TypePartsNext == ProgramType' /\ BackupType' /\ RunType' /\ ProcessType' /\ BoundType' => OtaTypeOK'
  BY DEF OtaTypeOK, ProgramType, BackupType, RunType, ProcessType, BoundType, Execution

LEMMA Bounds == MaxUpdates \in Nat /\ MaxFaults \in Nat /\ CrashThreshold \in Nat /\ CrashThreshold > 0
  BY OtaAssumption

LEMMA UpdateDir == Update \subseteq Dir /\ Earlier \in Dir /\ CrashDir \in Dir /\ CrashDir \notin Update
  BY Bounds DEF Update, Dir, Earlier, CrashDir

LEMMA IdleType ==
    /\ Idle \in Execution
    /\ Idle.phase = "idle" /\ Idle.at = 1 /\ Idle.alone = TRUE /\ Idle.saved = FALSE
<1>1. All(Absent) \in [Item -> Saved]
  BY DEF All, Saved
<1> QED BY <1>1, UpdateDir DEF Idle, Execution, Phase

\* An active execution has a command, whose release is one of those deployed.
LEMMA ActiveCommand ==
    ASSUME ProcessInv, NEW u \in Update, Active(u)
    PROVE  run[u].command.version \in Offered /\ run[u].command.version \in Version
  BY OtaAssumption DEF ProcessInv

\* Going on keeps the position within the four directories, and the rest.
LEMMA AdvanceFacts ==
    ASSUME NEW r \in Execution, NEW p \in Phase
    PROVE  LET a == Advance(r, p) IN
           /\ a \in Execution
           /\ a.command = r.command /\ a.from = r.from /\ a.before = r.before
           /\ a.saved = r.saved /\ a.alone = r.alone
           /\ r.at < 4 => a.phase = r.phase /\ a.at = r.at + 1
           /\ r.at = 4 => a.phase = p /\ a.at = 1
<1>1. CASE r.at < 4
  <2>1. Advance(r, p) = [r EXCEPT !.at = r.at + 1]
    BY <1>1 DEF Advance
  <2>2. r.at + 1 \in 1..4
    BY <1>1 DEF Execution
  <2> QED BY <1>1, <2>1, <2>2 DEF Execution
<1>2. CASE r.at = 4
  <2>1. Advance(r, p) = [r EXCEPT !.at = 1, !.phase = p]
    BY <1>2 DEF Advance
  <2>2. 1 \in 1..4 /\ ~(r.at < 4)
    BY <1>2
  <2>3. Advance(r, p) \in Execution
    BY <2>1, <2>2 DEF Execution
  <2> QED BY <1>2, <2>1, <2>2, <2>3 DEF Execution
<1>3. r.at \in 1..4
  BY DEF Execution
<1> QED BY <1>1, <1>2, <1>3

LEMMA RollsBackFacts ==
    ASSUME NEW r \in Execution, NEW d \in Dir
    PROVE  LET a == RollsBackFrom(r, d) IN
           /\ a \in Execution
           /\ a.phase = "rollback" /\ a.at = 1 /\ a.from = d
           /\ a.command = r.command /\ a.before = r.before /\ a.saved = r.saved /\ a.alone = r.alone
<1> DEFINE a == [r EXCEPT !.phase = "rollback"]
<1>1. /\ a \in Execution /\ a.phase = "rollback"
      /\ a.command = r.command /\ a.before = r.before /\ a.saved = r.saved /\ a.alone = r.alone
  BY DEF Execution, Phase
<1> DEFINE b == [a EXCEPT !.at = 1]
           c == [b EXCEPT !.from = d]
<1>2. RollsBackFrom(r, d) = c
  BY DEF RollsBackFrom
<1> HIDE DEF a
<1>3. /\ b \in Execution /\ b.phase = a.phase /\ b.at = 1
      /\ b.command = a.command /\ b.before = a.before /\ b.saved = a.saved /\ b.alone = a.alone
  BY <1>1 DEF Execution
<1> HIDE DEF b
<1>4. /\ c \in Execution /\ c.phase = b.phase /\ c.at = b.at /\ c.from = d
      /\ c.command = b.command /\ c.before = b.before /\ c.saved = b.saved /\ c.alone = b.alone
  BY <1>3 DEF Execution
<1> QED BY <1>1, <1>2, <1>3, <1>4

\* An interrupted copy leaves directories and backups of their types.
LEMMA LeaveCopiesType ==
    ASSUME ProgramType, BackupType, NEW U \in SUBSET Update, LeaveCopies(U)
    PROVE  disk' \in [Item -> Content] /\ backup' \in [Dir -> [Item -> Saved]]
<1>1. disk' \in [Item -> Content]
  BY DEF LeaveCopies, ProgramType, Content
<1>2. PICK torn \in SUBSET {u \in U : run[u].phase = "backup"} :
        backup' = [d \in Dir |-> IF d \in torn THEN [backup[d] EXCEPT ![BackupOrder[run[d].at]] = Broken]
                                 ELSE backup[d]]
  BY DEF LeaveCopies
<1>3. ASSUME NEW d \in Dir
      PROVE  backup'[d] \in [Item -> Saved]
  BY <1>2, <1>3 DEF BackupType, Content, Saved
<1> QED BY <1>1, <1>2, <1>3

LEMMA ProgramStep == ASSUME OtaTypeOK, ProcessInv, OtaNext PROVE ProgramType'
<1>1. ProgramType /\ BackupType /\ RunType
  BY TypeParts
<1>2. CASE \E c \in Request : Begin(c)
  BY <1>1, <1>2 DEF Begin, ProgramType, programVars
<1>3. ASSUME NEW u \in Update,
             TakeLock(u) \/ Prepared(u) \/ BackUp(u) \/ Succeed(u) \/ LockFails(u) \/ AnswerFailure(u)
               \/ MixedBackup(u) \/ MixedRestart(u) \/ MixedEnds(u)
      PROVE  ProgramType'
  BY <1>1, <1>3 DEF TakeLock, Prepared, BackUp, Succeed, LockFails, AnswerFailure, MixedBackup, MixedRestart,
                    MixedEnds, ProgramType, programVars
<1>4. ASSUME NEW u \in Update, Install(u) PROVE ProgramType'
  <2>1. run[u].command.version \in Content /\ run[u].at \in 1..4
    BY <1>1, <1>4, ActiveCommand DEF Install, Active, Content, RunType, Execution
  <2>2. \A i \in Item : Copied(u, i) \in Content
    BY <1>1, <2>1 DEF Copied, Brings, ProgramType
  <2>3. InstallOrder[run[u].at] \in Item
    BY <2>1, Orders
  <2>4. disk' = [disk EXCEPT ![InstallOrder[run[u].at]] = Copied(u, InstallOrder[run[u].at])]
    BY <1>4 DEF Install
  <2>5. disk' \in [Item -> Content]
    BY <1>1, <2>2, <2>3, <2>4 DEF ProgramType
  <2>6. golden' \in Saved
    BY <1>1, <1>4 DEF Install, SaveGolden, ProgramType, Item, Content, Saved
  <2> QED BY <1>1, <1>4, <2>5, <2>6 DEF Install, ProgramType
<1>5. ASSUME NEW u \in Update, Publish(u) \/ Verify(u) PROVE ProgramType'
  <2>1. run[u].command.version \in Version
    BY <1>5, ActiveCommand DEF Publish, Verify, Active
  <2> QED BY <1>1, <1>5, <2>1 DEF Publish, Verify, WriteRelease, ProgramType
<1>6. ASSUME NEW u \in Update, Fail(u) \/ RollBackFails(u) PROVE ProgramType'
  <2>1. LeaveCopies({u}) /\ UNCHANGED <<release, golden>>
    BY <1>6 DEF Fail, RollBackFails
  <2> QED BY <1>1, <2>1, LeaveCopiesType DEF ProgramType
<1>7. ASSUME NEW u \in Update, RollBack(u) PROVE ProgramType'
  <2>1. run[u].at \in 1..4 /\ run[u].from \in Dir
    BY <1>1 DEF RunType, Execution
  <2>2. BackupOrder[run[u].at] \in Item
    BY <2>1, Orders
  <2>3. Restores(u, BackupOrder[run[u].at]) => backup[run[u].from][BackupOrder[run[u].at]] \in Content
    BY <1>1, <2>1, <2>2 DEF Restores, BackupType, Saved
  <2>4. disk' = IF Restores(u, BackupOrder[run[u].at])
                THEN [disk EXCEPT ![BackupOrder[run[u].at]] = backup[run[u].from][BackupOrder[run[u].at]]]
                ELSE disk
    BY <1>7 DEF RollBack
  <2> QED BY <1>1, <1>7, <2>2, <2>3, <2>4 DEF RollBack, ProgramType
<1>8. ASSUME NEW u \in Update, MixedCopies(u) PROVE ProgramType'
  <2>1. disk' \in [Item -> Content]
    BY <1>8 DEF MixedCopies, All, Content
  <2>2. golden' \in Saved
    BY <1>1, <1>8 DEF MixedCopies, SaveGolden, ProgramType, Item, Content, Saved
  <2> QED BY <1>1, <1>8, <2>1, <2>2 DEF MixedCopies, ProgramType
<1>9. ASSUME NEW u \in Update, MixedPublish(u) PROVE ProgramType'
  BY <1>1, <1>9, OtaAssumption DEF MixedPublish, ProgramType
<1>10. CASE Interrupted
  BY <1>1, <1>10, LeaveCopiesType DEF Interrupted, ProgramType
<1>11. CASE LockExpires \/ Boot \/ CountCrash \/ ForgetCrashes
  BY <1>1, <1>11 DEF LockExpires, Boot, CountCrash, ForgetCrashes, ProgramType, programVars
<1>12. CASE RestoreGolden
  BY <1>1, <1>12 DEF RestoreGolden, ProgramType, Content
<1>13. CASE GoldenCopied
  <2>1. golden \in Content
    BY <1>1, <1>13 DEF GoldenCopied, ProcessInv, ProgramType, Saved
  <2> QED BY <1>1, <1>13, <2>1 DEF GoldenCopied, ProgramType
<1>14. CASE CreateGolden
  BY <1>1, <1>14 DEF CreateGolden, ProgramType, Item, Content, Saved
<1> QED BY <1>2, <1>3, <1>4, <1>5, <1>6, <1>7, <1>8, <1>9, <1>10, <1>11, <1>12, <1>13, <1>14
        DEF OtaNext, Execute, Mixed, Guardian, AgentDies, PowerFails, RestartFires, RebootFires, Killed, Reboot

LEMMA BackupStep == ASSUME OtaTypeOK, ProcessInv, OtaNext PROVE BackupType'
<1>1. ProgramType /\ BackupType /\ RunType
  BY TypeParts
<1>2. CASE \E c \in Request : Begin(c)
  BY <1>1, <1>2 DEF Begin, BackupType, backupVars
<1>3. ASSUME NEW u \in Update,
             TakeLock(u) \/ Install(u) \/ Publish(u) \/ Verify(u) \/ Succeed(u) \/ LockFails(u) \/ RollBack(u)
               \/ AnswerFailure(u) \/ MixedCopies(u) \/ MixedPublish(u) \/ MixedRestart(u) \/ MixedEnds(u)
      PROVE  BackupType'
  BY <1>1, <1>3 DEF TakeLock, Install, Publish, Verify, Succeed, LockFails, RollBack, AnswerFailure, MixedCopies,
                    MixedPublish, MixedRestart, MixedEnds, BackupType, backupVars
<1>4. ASSUME NEW u \in Update, Prepared(u) PROVE BackupType'
  <2>1. backup' \in [Dir -> [Item -> Saved]]
    BY <1>1, <1>4 DEF Prepared, BackupType, All, Saved
  <2> QED BY <1>1, <1>4, <2>1, UpdateDir DEF Prepared, BackupType
<1>5. ASSUME NEW u \in Update, BackUp(u) PROVE BackupType'
  <2>1. BackupOrder[run[u].at] \in Item
    BY <1>1, Orders DEF RunType, Execution
  <2>2. disk[BackupOrder[run[u].at]] \in Saved
    BY <1>1, <2>1 DEF ProgramType, Saved
  <2>3. backup' = [backup EXCEPT ![u][BackupOrder[run[u].at]] = disk[BackupOrder[run[u].at]]]
    BY <1>5 DEF BackUp
  <2>4. backup' \in [Dir -> [Item -> Saved]]
    BY <1>1, <2>1, <2>2, <2>3, UpdateDir DEF BackupType
  <2> QED BY <1>1, <1>5, <2>4 DEF BackUp, BackupType
<1>6. ASSUME NEW u \in Update, Fail(u) \/ RollBackFails(u) PROVE BackupType'
  <2>1. LeaveCopies({u}) /\ UNCHANGED <<newest, hasBackup, crashed>>
    BY <1>6 DEF Fail, RollBackFails
  <2> QED BY <1>1, <2>1, LeaveCopiesType DEF BackupType
<1>7. ASSUME NEW u \in Update, MixedBackup(u) PROVE BackupType'
  <2>1. PICK x \in {disk["sync-agent"], Broken} :
          backup' = [d \in Dir |-> IF d = u THEN [All(Broken) EXCEPT !["sync-agent"] = x] ELSE All(Absent)]
    BY <1>7 DEF MixedBackup
  <2>2. x \in Saved
    BY <1>1 DEF ProgramType, Item, Content, Saved
  <2>3. backup' \in [Dir -> [Item -> Saved]]
    BY <2>1, <2>2 DEF All, Content, Saved
  <2> QED BY <1>1, <1>7, <2>3, UpdateDir DEF MixedBackup, BackupType
<1>8. CASE Interrupted
  BY <1>1, <1>8, LeaveCopiesType DEF Interrupted, BackupType
<1>9. CASE LockExpires \/ Boot \/ CountCrash \/ ForgetCrashes \/ GoldenCopied \/ CreateGolden
  BY <1>1, <1>9 DEF LockExpires, Boot, CountCrash, ForgetCrashes, GoldenCopied, CreateGolden, BackupType, backupVars
<1>10. CASE RestoreGolden
  BY <1>1, <1>10 DEF RestoreGolden, BackupType
<1> QED BY <1>2, <1>3, <1>4, <1>5, <1>6, <1>7, <1>8, <1>9, <1>10
        DEF OtaNext, Execute, Mixed, Guardian, AgentDies, PowerFails, RestartFires, RebootFires, Killed, Reboot

\* A step of an execution changes no other, and neither its command nor whether
\* it is alone until it ends.
LEMMA OwnStep ==
    ASSUME RunType, BackupType, NEW u \in Update, Execute(u)
    PROVE  /\ Active(u)
           /\ RunType'
           /\ \A w \in Update \ {u} : run'[w] = run[w]
           /\ run'[u].phase # "idle" =>
                run'[u].alone = run[u].alone /\ run'[u].command = run[u].command
<1>1. Active(u) /\ run[u] \in Execution
  BY DEF Execute, RunType
<1>2. SUFFICES \E r \in Execution :
                 /\ run' = [run EXCEPT ![u] = r]
                 /\ r.phase # "idle" => r.alone = run[u].alone /\ r.command = run[u].command
  <2>1. PICK r \in Execution :
          /\ run' = [run EXCEPT ![u] = r]
          /\ r.phase # "idle" => r.alone = run[u].alone /\ r.command = run[u].command
    BY <1>2
  <2>2. run'[u] = r /\ \A w \in Update \ {u} : run'[w] = run[w]
    BY <2>1 DEF RunType
  <2> QED BY <1>1, <2>1, <2>2 DEF RunType
<1>3. CASE TakeLock(u)
  <2> DEFINE r == [run[u] EXCEPT !.phase = IF run[u].alone THEN "prepare" ELSE "mixed"]
  <2>1. r \in Execution /\ r.alone = run[u].alone /\ r.command = run[u].command
    BY <1>1 DEF Execution, Phase
  <2>2. run' = [run EXCEPT ![u] = r]
    BY <1>3 DEF TakeLock
  <2> QED BY <2>1, <2>2
<1>4. CASE Prepared(u)
  <2> DEFINE r == [run[u] EXCEPT !.phase = "backup"]
  <2>1. r \in Execution /\ r.alone = run[u].alone /\ r.command = run[u].command
    BY <1>1 DEF Execution, Phase
  <2>2. run' = [run EXCEPT ![u] = r]
    BY <1>4 DEF Prepared
  <2> QED BY <2>1, <2>2
<1>5. CASE BackUp(u)
  <2> DEFINE a == Advance(run[u], "install")
             r == [a EXCEPT !.saved = (run[u].at = 4)]
  <2>1. a \in Execution /\ a.alone = run[u].alone /\ a.command = run[u].command
    BY <1>1, AdvanceFacts DEF Phase
  <2>2. r \in Execution /\ r.alone = a.alone /\ r.command = a.command
    BY <2>1 DEF Execution
  <2>3. run' = [run EXCEPT ![u] = r]
    BY <1>5 DEF BackUp
  <2> QED BY <2>1, <2>2, <2>3
<1>6. CASE Install(u) \/ RollBack(u)
  <2>1. PICK p \in {"publish", "restored"} : run' = [run EXCEPT ![u] = Advance(run[u], p)]
    BY <1>6 DEF Install, RollBack
  <2> DEFINE r == Advance(run[u], p)
  <2>2. p \in Phase
    BY <2>1 DEF Phase
  <2>3. r \in Execution /\ r.alone = run[u].alone /\ r.command = run[u].command
    BY <1>1, <2>2, AdvanceFacts
  <2>4. run' = [run EXCEPT ![u] = r]
    BY <2>1
  <2> QED BY <2>3, <2>4
<1>7. CASE Publish(u) \/ Verify(u)
  <2>1. PICK p \in {"verify", "validate"} : run' = [run EXCEPT ![u].phase = p]
    BY <1>7 DEF Publish, Verify
  <2> DEFINE r == [run[u] EXCEPT !.phase = p]
  <2>2. r \in Execution /\ r.alone = run[u].alone /\ r.command = run[u].command
    BY <1>1, <2>1 DEF Execution, Phase
  <2>3. run' = [run EXCEPT ![u] = r]
    BY <2>1
  <2> QED BY <2>2, <2>3
<1>8. CASE End(u)
  BY <1>8, IdleType DEF End
<1>9. CASE Fail(u) /\ CanRollBack(u)
  <2>1. PICK d \in Dir : run' = [run EXCEPT ![u] = RollsBackFrom(run[u], d)]
    BY <1>9, UpdateDir DEF Fail, BackupType
  <2> DEFINE r == RollsBackFrom(run[u], d)
  <2>2. r \in Execution /\ r.alone = run[u].alone /\ r.command = run[u].command
    BY <1>1, RollsBackFacts
  <2> QED BY <2>1, <2>2
<1>10. Succeed(u) \/ LockFails(u) \/ RollBackFails(u) \/ AnswerFailure(u) \/ MixedEnds(u)
         \/ (Fail(u) /\ ~CanRollBack(u)) => End(u)
  BY DEF Succeed, LockFails, RollBackFails, AnswerFailure, MixedEnds, Fail, Answer
<1> QED BY <1>3, <1>4, <1>5, <1>6, <1>7, <1>8, <1>9, <1>10 DEF Execute

\* The steps after which executions are as they were, or all at an end.
LEMMA RestStep ==
    ASSUME OtaNext, ~(\E c \in Request : Begin(c)), ~(\E u \in Update : Execute(u))
    PROVE  UNCHANGED run \/ Interrupted
  BY DEF OtaNext, Mixed, MixedCopies, MixedBackup, MixedPublish, MixedRestart, AgentDies, PowerFails, RestartFires,
         RebootFires, Killed, Reboot, LockExpires, Guardian, Boot, CountCrash, RestoreGolden, GoldenCopied,
         ForgetCrashes, CreateGolden

\* A new execution, and what it makes of the others.
LEMMA BeginFacts ==
    ASSUME RunType, ProgramType, ProcessInv, BoundType, NEW c \in Request, Begin(c)
    PROVE  LET n == updates + 1 IN
           /\ n \in Update /\ ~Active(n)
           /\ RunType'
           /\ run'[n].phase = "check" /\ run'[n].at = 1 /\ run'[n].command = c
           /\ run'[n].saved = FALSE /\ run'[n].alone = ~Busy
           /\ ~Busy => run'[n].before = disk
           /\ \A w \in Update \ {n} :
                /\ Active(w)' <=> Active(w)
                /\ Active(w) => run'[w].command = run[w].command /\ run'[w].alone = FALSE
<1> DEFINE n == updates + 1
           New == [Idle EXCEPT !.phase = "check", !.command = c,
                               !.before = IF Busy THEN @ ELSE disk, !.alone = ~Busy]
<1>1. n \in Update
  BY Bounds DEF Begin, BoundType, Update
<1>2. ~Active(n)
  <2>1. updates \in Nat
    BY Bounds DEF BoundType
  <2> QED BY <1>1, <2>1 DEF ProcessInv
<1>3. run' = [u \in Update |-> IF u = n THEN New ELSE IF Active(u) THEN Overlapped(run[u]) ELSE run[u]]
  BY DEF Begin, WithNext
<1>4. disk \in [Item -> Saved]
  BY DEF ProgramType, Saved
<1>5. Idle \in Execution /\ Busy \in BOOLEAN
  BY IdleType DEF Busy
<1>6. /\ New \in Execution
      /\ New.phase = "check" /\ New.at = 1 /\ New.command = c /\ New.saved = FALSE /\ New.alone = ~Busy
      /\ ~Busy => New.before = disk
  BY <1>4, <1>5, IdleType DEF Execution, Phase
<1>7. ASSUME NEW r \in Execution
      PROVE  /\ Overlapped(r) \in Execution /\ Overlapped(r).phase # "idle"
             /\ Overlapped(r).command = r.command /\ Overlapped(r).alone = FALSE
  BY <1>5, <1>7 DEF Overlapped, Execution, Phase
<1>8. \A u \in Update : run[u] \in Execution
  BY DEF RunType
<1>9. \A u \in Update : run'[u] \in Execution
  BY <1>3, <1>6, <1>7, <1>8
<1>10. RunType'
  BY <1>3, <1>9 DEF RunType
<1>11. run'[n] = New
  BY <1>1, <1>3
<1>12. ASSUME NEW w \in Update \ {n}
       PROVE  /\ Active(w)' <=> Active(w)
              /\ Active(w) => run'[w].command = run[w].command /\ run'[w].alone = FALSE
  <2>1. CASE Active(w)
    <3>1. run'[w] = Overlapped(run[w])
      BY <1>3, <2>1
    <3>2. /\ Overlapped(run[w]).phase # "idle"
          /\ Overlapped(run[w]).command = run[w].command /\ Overlapped(run[w]).alone = FALSE
      BY <1>7, <1>8
    <3> QED BY <2>1, <3>1, <3>2 DEF Active
  <2>2. CASE ~Active(w)
    BY <1>3, <2>2 DEF Active
  <2> QED BY <2>1, <2>2
<1> QED BY <1>1, <1>2, <1>6, <1>10, <1>11, <1>12

LEMMA RunStep == ASSUME OtaTypeOK, ProcessInv, OtaNext PROVE RunType'
<1>1. ProgramType /\ BackupType /\ RunType /\ BoundType
  BY TypeParts
<1>2. CASE \E c \in Request : Begin(c)
  BY <1>1, <1>2, BeginFacts
<1>3. CASE \E u \in Update : Execute(u)
  BY <1>1, <1>3, OwnStep
<1>4. CASE Interrupted
  BY <1>4, IdleType DEF Interrupted, RunType
<1>5. CASE UNCHANGED run
  BY <1>1, <1>5 DEF RunType
<1> QED BY <1>2, <1>3, <1>4, <1>5, RestStep

LEMMA ProcessTypeStep == ASSUME OtaTypeOK, OtaNext PROVE ProcessType'
<1>1. ProcessType
  BY TypeParts
<1>2. CASE \E c \in Request : Begin(c)
  BY <1>1, <1>2 DEF Begin, ProcessType, processVars
<1>3. ASSUME NEW u \in Update,
             TakeLock(u) \/ Prepared(u) \/ BackUp(u) \/ Install(u) \/ Publish(u) \/ LockFails(u) \/ Fail(u)
               \/ RollBackFails(u) \/ AnswerFailure(u) \/ MixedCopies(u) \/ MixedBackup(u) \/ MixedPublish(u)
      PROVE  ProcessType'
  BY <1>1, <1>3 DEF TakeLock, Prepared, BackUp, Install, Publish, LockFails, Fail, RollBackFails, AnswerFailure,
                    MixedCopies, MixedBackup, MixedPublish, ProcessType, processVars
<1>4. ASSUME NEW u \in Update, Verify(u) \/ Succeed(u) \/ RollBack(u) \/ MixedRestart(u) \/ MixedEnds(u)
      PROVE  ProcessType'
  BY <1>1, <1>4 DEF Verify, Succeed, RollBack, MixedRestart, MixedEnds, ScheduleRestart, ProcessType
<1>5. CASE Killed \/ Reboot
  BY <1>1, <1>5, Bounds DEF Killed, Reboot, Interrupted, ProcessType
<1>6. CASE LockExpires \/ CreateGolden
  BY <1>1, <1>6 DEF LockExpires, CreateGolden, ProcessType, processVars
<1>7. CASE Boot \/ CountCrash \/ RestoreGolden \/ GoldenCopied \/ ForgetCrashes
  BY <1>1, <1>7, Bounds DEF Boot, CountCrash, RestoreGolden, GoldenCopied, ForgetCrashes, ProcessType
<1> QED BY <1>2, <1>3, <1>4, <1>5, <1>6, <1>7
        DEF OtaNext, Execute, Mixed, Guardian, AgentDies, PowerFails, RestartFires, RebootFires

LEMMA BoundStep == ASSUME OtaTypeOK, OtaNext PROVE BoundType'
<1>1. BoundType
  BY TypeParts
<1>2. CASE \E c \in Request : Begin(c)
  BY <1>1, <1>2, Bounds DEF Begin, CountOverlap, CountFault, BoundType
<1>3. ASSUME NEW u \in Update, Execute(u) \/ Mixed(u) PROVE BoundType'
  BY <1>1, <1>3 DEF Execute, Mixed, TakeLock, Prepared, BackUp, Install, Publish, Verify, Succeed, LockFails, Fail,
                    RollBack, RollBackFails, AnswerFailure, MixedCopies, MixedBackup, MixedPublish, MixedRestart,
                    MixedEnds, Answer, BoundType, boundVars
<1>4. CASE AgentDies \/ RestartFires
  BY <1>1, <1>4, Bounds DEF AgentDies, RestartFires, Killed, CountFault, BoundType, boundVars
<1>6. CASE PowerFails
  <2>1. lock' = FALSE /\ updates' = updates /\ faults < MaxFaults /\ faults' = faults + 1
    BY <1>6 DEF PowerFails, Reboot, CountFault
  <2>2. faults' \in 0..MaxFaults
    BY <1>1, <2>1, Bounds DEF BoundType
  <2> QED BY <1>1, <2>1, <2>2 DEF BoundType
<1>7. CASE RebootFires
  BY <1>1, <1>7 DEF RebootFires, Reboot, BoundType, boundVars
<1>5. CASE LockExpires \/ ForgetCrashes \/ CreateGolden \/ Boot \/ CountCrash \/ RestoreGolden \/ GoldenCopied
  BY <1>1, <1>5 DEF LockExpires, ForgetCrashes, CreateGolden, Boot, CountCrash, RestoreGolden, GoldenCopied,
                    BoundType, boundVars
<1> QED BY <1>2, <1>3, <1>4, <1>5, <1>6, <1>7 DEF OtaNext, Guardian

LEMMA TypeStep == ASSUME OtaTypeOK, ProcessInv, OtaNext PROVE OtaTypeOK'
  BY ProgramStep, BackupStep, RunStep, ProcessTypeStep, BoundStep, TypePartsNext

-----------------------------------------------------------------------------
(* Processes *)

\* The agent and the guardian during a step of an execution.
LEMMA ExecuteProcess ==
    ASSUME NEW u \in Update, Execute(u) \/ Mixed(u)
    PROVE  UNCHANGED <<agent, guardian, updates>>
  BY DEF Execute, Mixed, TakeLock, Prepared, BackUp, Install, Publish, Verify, Succeed, LockFails, Fail, RollBack,
         RollBackFails, AnswerFailure, MixedCopies, MixedBackup, MixedPublish, MixedRestart, MixedEnds, processVars,
         boundVars

\* Only an installation makes a snapshot, and none removes it.
LEMMA SnapshotStays == ASSUME golden # Absent, ProgramType, OtaNext PROVE golden' # Absent
<1>1. ASSUME NEW u \in Update, Execute(u) \/ Mixed(u) PROVE golden' # Absent
  BY <1>1 DEF Execute, Mixed, TakeLock, Prepared, BackUp, Install, Publish, Verify, Succeed, LockFails, Fail, RollBack,
         RollBackFails, AnswerFailure, MixedCopies, MixedBackup, MixedPublish, MixedRestart, MixedEnds, SaveGolden,
         programVars
<1>2. CASE \E c \in Request : Begin(c)
  BY <1>2 DEF Begin, programVars
<1>3. CASE Killed \/ Reboot
  BY <1>3 DEF Killed, Reboot, Interrupted
<1>4. CASE LockExpires \/ ForgetCrashes \/ CreateGolden \/ Boot \/ CountCrash \/ RestoreGolden \/ GoldenCopied
  BY <1>4 DEF LockExpires, ForgetCrashes, CreateGolden, Boot, CountCrash, RestoreGolden, GoldenCopied, programVars
<1> QED BY <1>1, <1>2, <1>3, <1>4
        DEF OtaNext, Guardian, AgentDies, PowerFails, RestartFires, RebootFires

LEMMA ProcessStep == ASSUME OtaTypeOK, ProcessInv, AloneInv, OtaNext PROVE ProcessInv' /\ AloneInv'
<1>1. ProgramType /\ BackupType /\ RunType /\ BoundType
  BY TypeParts
<1>2. ASSUME NEW c \in Request, Begin(c) PROVE ProcessInv' /\ AloneInv'
  <2> DEFINE n == updates + 1
  <2>1. /\ n \in Update /\ ~Active(n)
        /\ run'[n].command = c /\ run'[n].alone = ~Busy
        /\ \A w \in Update \ {n} :
             /\ Active(w)' <=> Active(w)
             /\ Active(w) => run'[w].command = run[w].command /\ run'[w].alone = FALSE
    BY <1>1, <1>2, BeginFacts
  <2>2. agent = "up" /\ updates' = n /\ UNCHANGED <<golden, agent, guardian>>
    BY <1>2 DEF Begin, programVars, processVars
  <2>3. updates \in Nat
    BY <1>1, Bounds DEF BoundType
  <2>4. guardian = "watching"
    BY <2>2 DEF ProcessInv, OtaTypeOK
  <2>5. ProcessInv'
    <3>1. ASSUME NEW w \in Update, Active(w)'
          PROVE  run'[w].command \in Request /\ w <= updates'
      <4>1. CASE w = n
        BY <2>1, <2>2, <2>3, <4>1
      <4>2. CASE w # n
        <5>1. Active(w) /\ run'[w].command = run[w].command
          BY <2>1, <3>1, <4>2
        <5>2. w \in Nat /\ w <= updates /\ run[w].command \in Request
          BY <5>1 DEF ProcessInv, Update
        <5> QED BY <2>2, <2>3, <5>1, <5>2
      <4> QED BY <4>1, <4>2
    <3> QED BY <2>2, <2>4, <3>1 DEF ProcessInv
  <2>6. AloneInv'
    <3> SUFFICES ASSUME NEW u \in Update, NEW w \in Update, Active(u)', Active(w)', run'[u].alone
                 PROVE  u = w
      BY DEF AloneInv
    <3>1. u = n
      BY <2>1
    <3>2. ~Busy
      BY <2>1, <3>1
    <3>3. w = n
      BY <2>1, <3>2 DEF Busy
    <3> QED BY <3>1, <3>3
  <2> QED BY <2>5, <2>6
<1>3. ASSUME NEW u \in Update, Execute(u) PROVE ProcessInv' /\ AloneInv'
  <2>1. /\ Active(u)
        /\ \A w \in Update \ {u} : run'[w] = run[w]
        /\ run'[u].phase # "idle" =>
             run'[u].alone = run[u].alone /\ run'[u].command = run[u].command
    BY <1>1, <1>3, OwnStep
  <2>2. UNCHANGED <<agent, guardian, updates>>
    BY <1>3, ExecuteProcess
  <2>3. \A w \in Update : Active(w)' => Active(w) /\ run'[w].alone = run[w].alone /\ run'[w].command = run[w].command
    BY <2>1 DEF Active
  <2>4. golden # Absent => golden' # Absent
    BY <1>1, SnapshotStays
  <2> QED BY <2>2, <2>3, <2>4 DEF ProcessInv, AloneInv
<1>4. CASE Killed \/ Reboot
  <2>1. \A w \in Update : ~Active(w)'
    BY <1>4, IdleType DEF Killed, Reboot, Interrupted, Active
  <2>2. agent' = "down" /\ golden' = golden /\ guardian' \in {guardian, "watching"}
    BY <1>4 DEF Killed, Reboot, Interrupted
  <2> QED BY <2>1, <2>2 DEF ProcessInv, AloneInv
<1>5. ASSUME NEW u \in Update, Mixed(u) PROVE ProcessInv' /\ AloneInv'
  <2>1. UNCHANGED <<run, agent, guardian, updates>>
    BY <1>5, ExecuteProcess DEF Mixed, MixedCopies, MixedBackup, MixedPublish, MixedRestart
  <2>2. golden # Absent => golden' # Absent
    BY <1>1, SnapshotStays
  <2> QED BY <2>1, <2>2 DEF ProcessInv, AloneInv, Active
<1>6. CASE LockExpires \/ ForgetCrashes \/ CreateGolden
  <2>1. UNCHANGED <<run, agent, guardian, updates>>
    BY <1>6 DEF LockExpires, ForgetCrashes, CreateGolden, processVars, boundVars
  <2>2. golden # Absent => golden' # Absent
    BY <1>1, SnapshotStays
  <2> QED BY <2>1, <2>2 DEF ProcessInv, AloneInv, Active
<1>7. CASE Boot \/ CountCrash \/ RestoreGolden \/ GoldenCopied
  <2>1. agent = "down" /\ UNCHANGED <<run, updates, golden>>
    BY <1>7 DEF Boot, CountCrash, RestoreGolden, GoldenCopied, ProcessInv, programVars, boundVars
  <2>2. guardian' = "copying" => agent' = "down" /\ golden' # Absent
    BY <1>7 DEF Boot, CountCrash, RestoreGolden, GoldenCopied
  <2>3. \A w \in Update : ~Active(w)'
    BY <2>1 DEF ProcessInv, Active
  <2> QED BY <2>2, <2>3 DEF ProcessInv, AloneInv
<1> QED BY <1>2, <1>3, <1>4, <1>5, <1>6, <1>7
        DEF OtaNext, Guardian, AgentDies, PowerFails, RestartFires, RebootFires

-----------------------------------------------------------------------------
(* What updates leave on the disk *)

Own(u) == BackupInv(u) /\ InstallInv(u) /\ RollbackInv(u)

\* A field by field view of an execution that changes phase only.
LEMMA PhaseFacts ==
    ASSUME RunType, NEW u \in Update, NEW p \in Phase, run' = [run EXCEPT ![u].phase = p]
    PROVE  /\ run'[u].phase = p /\ run'[u].at = run[u].at /\ run'[u].command = run[u].command
           /\ run'[u].from = run[u].from /\ run'[u].before = run[u].before
           /\ run'[u].saved = run[u].saved /\ run'[u].alone = run[u].alone
  BY DEF RunType, Execution

LEMMA TakeLockKeeps ==
    ASSUME OtaTypeOK, NEW u \in Update, run[u].alone, Own(u), TakeLock(u)
    PROVE  Own(u)'
<1>1. run' = [run EXCEPT ![u].phase = "prepare"]
  BY DEF TakeLock
<1>2. /\ run'[u].phase = "prepare" /\ run'[u].at = run[u].at
      /\ run'[u].before = run[u].before /\ run'[u].saved = run[u].saved
  BY <1>1, TypeParts, PhaseFacts DEF Phase
<1>3. run[u].phase = "check" /\ disk' = disk
  BY DEF TakeLock, programVars
<1> QED BY <1>2, <1>3 DEF Own, BackupInv, InstallInv, RollbackInv

LEMMA PreparedKeeps ==
    ASSUME OtaTypeOK, NEW u \in Update, Own(u), Prepared(u)
    PROVE  Own(u)'
<1>1. run' = [run EXCEPT ![u].phase = "backup"]
  BY DEF Prepared
<1>2. /\ run'[u].phase = "backup" /\ run'[u].at = run[u].at
      /\ run'[u].before = run[u].before /\ run'[u].saved = run[u].saved
  BY <1>1, TypeParts, PhaseFacts DEF Phase
<1>3. run[u].phase = "prepare" /\ disk' = disk /\ newest' = u
  BY DEF Prepared, programVars
<1>4. run[u].at = 1 /\ ~run[u].saved /\ run[u].before = disk
  BY <1>3 DEF Own, BackupInv
<1> QED BY <1>2, <1>3, <1>4 DEF Own, BackupInv, InstallInv, RollbackInv

\* A backup that has gone through the directories is what the disk was.
LEMMA BackUpKeeps ==
    ASSUME OtaTypeOK, NEW u \in Update, Own(u), BackUp(u)
    PROVE  Own(u)'
<1>1. /\ run[u].phase = "backup" /\ run[u] \in Execution /\ run[u].at \in 1..4
      /\ disk \in [Item -> Content] /\ backup \in [Dir -> [Item -> Saved]] /\ u \in Dir
  BY TypeParts, UpdateDir DEF BackUp, RunType, Execution, ProgramType, BackupType
<1>2. /\ ~run[u].saved /\ run[u].before = disk /\ newest = u
      /\ \A i \in 1..4 : i < run[u].at => backup[u][BackupOrder[i]] = disk[BackupOrder[i]]
  BY <1>1 DEF Own, BackupInv
<1>3. /\ disk' = disk /\ newest' = u
      /\ backup' = [backup EXCEPT ![u][BackupOrder[run[u].at]] = disk[BackupOrder[run[u].at]]]
  BY <1>2 DEF BackUp, programVars
<1>4. \A i \in 1..4 : i <= run[u].at => backup'[u][BackupOrder[i]] = disk[BackupOrder[i]]
  <2> SUFFICES ASSUME NEW i \in 1..4, i <= run[u].at
               PROVE  backup'[u][BackupOrder[i]] = disk[BackupOrder[i]]
    OBVIOUS
  <2>1. CASE i = run[u].at
    BY <1>1, <1>3, <2>1, Orders
  <2>2. CASE i < run[u].at
    <3>1. BackupOrder[i] # BackupOrder[run[u].at]
      BY <1>1, <2>2, Places
    <3> QED BY <1>1, <1>2, <1>3, <2>2, <3>1, Orders
  <2> QED BY <1>1, <2>1, <2>2
<1> DEFINE a == Advance(run[u], "install")
<1>5. /\ a \in Execution /\ a.before = run[u].before
      /\ run[u].at < 4 => a.phase = run[u].phase /\ a.at = run[u].at + 1
      /\ run[u].at = 4 => a.phase = "install" /\ a.at = 1
  BY <1>1, AdvanceFacts DEF Phase
<1> HIDE DEF a
<1>6. run'[u] = [a EXCEPT !.saved = (run[u].at = 4)]
  BY TypeParts DEF BackUp, RunType, a
<1>7. /\ run'[u].before = disk /\ run'[u].phase = a.phase /\ run'[u].at = a.at
      /\ run'[u].saved = (run[u].at = 4)
  BY <1>2, <1>5, <1>6 DEF Execution
<1>8. CASE run[u].at < 4
  <2>1. run'[u].phase = "backup" /\ run'[u].at = run[u].at + 1 /\ run'[u].saved = FALSE
    BY <1>1, <1>5, <1>7, <1>8
  <2>2. \A i \in 1..4 : i < run'[u].at => backup'[u][BackupOrder[i]] = disk'[BackupOrder[i]]
    BY <1>1, <1>3, <1>4, <2>1
  <2> QED BY <1>3, <1>7, <2>1, <2>2 DEF Own, BackupInv, InstallInv, RollbackInv
<1>9. CASE run[u].at = 4
  <2>1. \A x \in Item : backup'[u][x] = disk[x]
    BY <1>1, <1>4, <1>9, Orders
  <2>2. backup'[u] = disk
    BY <1>1, <1>3, <2>1
  <2> QED BY <1>1, <1>3, <1>5, <1>7, <1>9, <2>2 DEF Own, BackupInv, InstallInv, RollbackInv
<1> QED BY <1>1, <1>8, <1>9

\* An installation that has gone through the directories has copied each.
LEMMA InstallKeeps ==
    ASSUME OtaTypeOK, NEW u \in Update, Own(u), Install(u)
    PROVE  Own(u)'
<1>1. /\ run[u].phase = "install" /\ run[u] \in Execution /\ run[u].at \in 1..4
      /\ disk \in [Item -> Content]
  BY TypeParts DEF Install, RunType, Execution, ProgramType
<1>2. \A i \in 1..4 : i < run[u].at => Has(u, InstallOrder[i])
  BY <1>1 DEF Own, InstallInv
<1>3. /\ disk' = [disk EXCEPT ![InstallOrder[run[u].at]] = Copied(u, InstallOrder[run[u].at])]
      /\ UNCHANGED <<backup, newest, crashed>>
  BY DEF Install, backupVars
<1>4. run'[u] = Advance(run[u], "publish")
  BY TypeParts DEF Install, RunType
<1>5. /\ run'[u].before = run[u].before /\ run'[u].saved = run[u].saved /\ run'[u].command = run[u].command
      /\ run[u].at < 4 => run'[u].phase = run[u].phase /\ run'[u].at = run[u].at + 1
      /\ run[u].at = 4 => run'[u].phase = "publish" /\ run'[u].at = 1
  BY <1>1, <1>4, AdvanceFacts DEF Phase
<1>6. \A i \in 1..4 : i <= run[u].at => Has(u, InstallOrder[i])'
  <2> SUFFICES ASSUME NEW i \in 1..4, i <= run[u].at
               PROVE  Has(u, InstallOrder[i])'
    OBVIOUS
  <2>1. CASE i = run[u].at
    BY <1>1, <1>3, <1>5, <2>1, Orders DEF Has, Copied, Brings
  <2>2. CASE i < run[u].at
    <3>1. InstallOrder[i] # InstallOrder[run[u].at]
      BY <1>1, <2>2, Places
    <3>2. disk'[InstallOrder[i]] = disk[InstallOrder[i]]
      BY <1>1, <1>3, <3>1, Orders
    <3> QED BY <1>2, <1>5, <2>2, <3>2 DEF Has
  <2> QED BY <1>1, <2>1, <2>2
<1>7. CASE run[u].at < 4
  BY <1>1, <1>3, <1>5, <1>6, <1>7 DEF Own, BackupInv, InstallInv, RollbackInv
<1>8. CASE run[u].at = 4
  <2>1. \A i \in Item : Has(u, i)'
    BY <1>1, <1>6, <1>8, Orders
  <2> QED BY <1>1, <1>3, <1>5, <1>8, <2>1 DEF Own, BackupInv, InstallInv, RollbackInv
<1> QED BY <1>1, <1>7, <1>8

\* A rollback that has gone through the directories has restored each.
LEMMA RollBackKeeps ==
    ASSUME OtaTypeOK, NEW u \in Update, Own(u), RollBack(u)
    PROVE  Own(u)'
<1>1. /\ run[u].phase = "rollback" /\ run[u] \in Execution /\ run[u].at \in 1..4
      /\ disk \in [Item -> Content]
  BY TypeParts DEF RollBack, RunType, Execution, ProgramType
<1>2. UNCHANGED <<backup, newest, crashed>>
  BY DEF RollBack, backupVars
<1>3. run'[u] = Advance(run[u], "restored")
  BY TypeParts DEF RollBack, RunType
<1>4. /\ run'[u].before = run[u].before /\ run'[u].saved = run[u].saved /\ run'[u].from = run[u].from
      /\ run[u].at < 4 => run'[u].phase = run[u].phase /\ run'[u].at = run[u].at + 1
      /\ run[u].at = 4 => run'[u].phase = "restored" /\ run'[u].at = 1
  BY <1>1, <1>3, AdvanceFacts DEF Phase
<1>5. run'[u].phase \in {"rollback", "restored"}
  BY <1>1, <1>4
<1>6. BackupInv(u)' /\ InstallInv(u)'
  BY <1>2, <1>4, <1>5 DEF Own, BackupInv, InstallInv
<1>7. ASSUME run[u].saved, ~crashed PROVE RollbackInv(u)'
  <2>1. /\ run[u].from = u /\ backup[u] = run[u].before /\ run[u].before \in [Item -> Content]
        /\ \A i \in 1..4 : i < run[u].at => disk[BackupOrder[i]] = run[u].before[BackupOrder[i]]
    BY <1>1, <1>7 DEF Own, BackupInv, RollbackInv
  <2>2. disk' = [disk EXCEPT ![BackupOrder[run[u].at]] = run[u].before[BackupOrder[run[u].at]]]
    <3>1. run[u].before[BackupOrder[run[u].at]] # Absent
      BY <1>1, <2>1, Orders, OtaAssumption DEF Content
    <3> QED BY <2>1, <3>1 DEF RollBack, Restores
  <2>3. \A i \in 1..4 : i <= run[u].at => disk'[BackupOrder[i]] = run[u].before[BackupOrder[i]]
    <3> SUFFICES ASSUME NEW i \in 1..4, i <= run[u].at
                 PROVE  disk'[BackupOrder[i]] = run[u].before[BackupOrder[i]]
      OBVIOUS
    <3>1. CASE i = run[u].at
      BY <1>1, <2>2, <3>1, Orders
    <3>2. CASE i < run[u].at
      <4>1. BackupOrder[i] # BackupOrder[run[u].at]
        BY <1>1, <3>2, Places
      <4> QED BY <1>1, <2>1, <2>2, <3>2, <4>1, Orders
    <3> QED BY <1>1, <3>1, <3>2
  <2>4. CASE run[u].at < 4
    BY <1>1, <1>4, <2>1, <2>3, <2>4 DEF RollbackInv
  <2>5. CASE run[u].at = 4
    <3>1. \A x \in Item : disk'[x] = run[u].before[x]
      BY <1>1, <2>3, <2>5, Orders
    <3>2. disk' = run[u].before
      BY <1>1, <2>1, <2>2, <3>1
    <3> QED BY <1>4, <2>5, <3>2 DEF RollbackInv
  <2> QED BY <1>1, <2>4, <2>5
<1>8. ASSUME ~(run[u].saved /\ ~crashed) PROVE RollbackInv(u)'
  BY <1>2, <1>4, <1>8 DEF RollbackInv
<1> QED BY <1>6, <1>7, <1>8 DEF Own

\* A failure starts the rollback at the first directory, from the backup of this
\* update if it has one.
LEMMA FailKeeps ==
    ASSUME OtaTypeOK, NEW u \in Update, Own(u), Fail(u), CanRollBack(u)
    PROVE  Own(u)'
<1>1. run[u] \in Execution /\ newest \in Dir /\ CrashDir \in Dir
  BY TypeParts, UpdateDir DEF RunType, BackupType
<1>2. run'[u] = RollsBackFrom(run[u], IF crashed THEN CrashDir ELSE newest)
  BY TypeParts DEF Fail, RunType
<1>3. /\ run'[u].phase = "rollback" /\ run'[u].at = 1
      /\ run'[u].from = (IF crashed THEN CrashDir ELSE newest)
      /\ run'[u].before = run[u].before /\ run'[u].saved = run[u].saved
  BY <1>1, <1>2, RollsBackFacts
<1>4. UNCHANGED <<newest, crashed>>
  BY DEF Fail
<1>5. run[u].saved => backup'[u] = backup[u]
  <2> SUFFICES ASSUME run[u].saved PROVE backup'[u] = backup[u]
    OBVIOUS
  <2>1. run[u].phase # "backup"
    BY DEF Own, BackupInv
  <2>2. PICK torn \in SUBSET {w \in {u} : run[w].phase = "backup"} :
          backup' = [d \in Dir |-> IF d \in torn THEN [backup[d] EXCEPT ![BackupOrder[run[d].at]] = Broken]
                                   ELSE backup[d]]
    BY DEF Fail, LeaveCopies
  <2>3. u \notin torn /\ u \in Dir
    BY <2>1, UpdateDir
  <2> QED BY <2>2, <2>3
<1> QED BY <1>3, <1>4, <1>5 DEF Own, BackupInv, InstallInv, RollbackInv

\* The other steps of an execution.
LEMMA RestKeeps ==
    ASSUME OtaTypeOK, NEW u \in Update, Own(u), Publish(u) \/ Verify(u)
    PROVE  Own(u)'
<1>1. PICK p \in {"verify", "validate"} : run' = [run EXCEPT ![u].phase = p]
  BY DEF Publish, Verify
<1>2. /\ run'[u].phase = p /\ run'[u].command = run[u].command
      /\ run'[u].before = run[u].before /\ run'[u].saved = run[u].saved
  BY <1>1, TypeParts, PhaseFacts DEF Phase
<1>3. run[u].phase \in {"publish", "verify"} /\ UNCHANGED <<disk, backup, newest, crashed>>
  BY DEF Publish, Verify, backupVars
<1> QED BY <1>2, <1>3 DEF Own, BackupInv, InstallInv, RollbackInv, Has

\* Executions that are at an end, and those beside others, promise nothing.
LEMMA OwnStepKeeps ==
    ASSUME OtaTypeOK, AloneInv, NEW u \in Update, Execute(u), \A w \in Update : OwnInv(w)
    PROVE  \A w \in Update : OwnInv(w)'
<1>1. /\ Active(u)
      /\ \A w \in Update \ {u} : run'[w] = run[w]
      /\ run'[u].phase # "idle" => run'[u].alone = run[u].alone /\ run'[u].command = run[u].command
  BY TypeParts, OwnStep
<1>2. \A w \in Update \ {u} : OwnInv(w)'
  BY <1>1 DEF AloneInv, OwnInv, Active
<1>3. SUFFICES ASSUME Active(u)', run[u].alone PROVE Own(u)'
  BY <1>1, <1>2 DEF OwnInv, Own, Active
<1>5. ~End(u)
  BY <1>3, TypeParts, IdleType DEF End, Active, RunType
<1>6. ~Succeed(u) /\ ~LockFails(u) /\ ~RollBackFails(u) /\ ~AnswerFailure(u) /\ ~MixedEnds(u)
  BY <1>5 DEF Succeed, LockFails, RollBackFails, AnswerFailure, MixedEnds, Answer
<1>8. run[u].phase # "mixed"
  BY <1>6 DEF Execute, TakeLock, Prepared, BackUp, Install, Publish, Verify, Fail, RollBack
<1>4. Own(u)
  BY <1>1, <1>3, <1>8 DEF OwnInv, Own
<1>7. CASE Fail(u)
  <2>1. CanRollBack(u)
    BY <1>5, <1>7 DEF Fail, Answer
  <2> QED BY <1>4, <1>7, <2>1, FailKeeps
<1> QED BY <1>3, <1>4, <1>6, <1>7, TakeLockKeeps, PreparedKeeps, BackUpKeeps, InstallKeeps, RollBackKeeps, RestKeeps
        DEF Execute

LEMMA OwnInvStep ==
    ASSUME OtaTypeOK, ProcessInv, AloneInv, OtaNext, \A w \in Update : OwnInv(w)
    PROVE  \A w \in Update : OwnInv(w)'
<1>1. CASE \E u \in Update : Execute(u)
  BY <1>1, OwnStepKeeps
<1>2. ASSUME NEW c \in Request, Begin(c)
      PROVE  \A w \in Update : OwnInv(w)'
  <2>1. PICK n \in Update :
        /\ run'[n].phase = "check" /\ run'[n].at = 1 /\ run'[n].saved = FALSE /\ run'[n].alone = ~Busy
        /\ ~Busy => run'[n].before = disk
        /\ \A w \in Update \ {n} :
             /\ Active(w)' <=> Active(w)
             /\ Active(w) => run'[w].alone = FALSE
    BY <1>2, TypeParts, BeginFacts
  <2>2. \A w \in Update \ {n} : OwnInv(w)'
    BY <2>1 DEF OwnInv
  <2>3. disk' = disk
    BY <1>2 DEF Begin, programVars
  <2>4. OwnInv(n)'
    BY <2>1, <2>3 DEF OwnInv, BackupInv, InstallInv, RollbackInv
  <2> QED BY <2>2, <2>4
<1>3. ASSUME NEW u \in Update, Mixed(u)
      PROVE  \A w \in Update : OwnInv(w)'
  <2>1. run[u].phase = "mixed" /\ run' = run
    BY <1>3 DEF Mixed, MixedCopies, MixedBackup, MixedPublish, MixedRestart
  <2>2. ASSUME NEW w \in Update, w # u, Active(w)
        PROVE  ~run[w].alone
    BY <2>1, <2>2 DEF AloneInv, Active
  <2> QED BY <2>1, <2>2 DEF OwnInv, Active
<1>4. CASE Killed \/ Reboot
  <2>1. \A w \in Update : ~Active(w)'
    BY <1>4, IdleType DEF Killed, Reboot, Interrupted, Active
  <2> QED BY <2>1 DEF OwnInv
<1>5. CASE LockExpires \/ ForgetCrashes \/ CreateGolden
  BY <1>5 DEF LockExpires, ForgetCrashes, CreateGolden, OwnInv, Active, BackupInv, InstallInv, RollbackInv, Has,
              programVars, backupVars
<1>6. CASE Boot \/ CountCrash \/ RestoreGolden \/ GoldenCopied
  <2>1. agent = "down" /\ run' = run
    BY <1>6 DEF Boot, CountCrash, RestoreGolden, GoldenCopied, ProcessInv
  <2>2. \A w \in Update : ~Active(w)'
    BY <2>1 DEF ProcessInv, Active
  <2> QED BY <2>2 DEF OwnInv
<1> QED BY <1>1, <1>2, <1>3, <1>4, <1>5, <1>6
        DEF OtaNext, Guardian, AgentDies, PowerFails, RestartFires, RebootFires

LEMMA OtaInitInv == OtaInit => OtaInv
<1> SUFFICES ASSUME OtaInit PROVE OtaInv
  OBVIOUS
<1>1. ProgramType
  BY OtaAssumption DEF OtaInit, ProgramType, All, Content, Saved
<1>2. BackupType
  <2>1. backup \in [Dir -> [Item -> Saved]]
    BY OtaAssumption DEF OtaInit, All, Content, Saved
  <2>2. hasBackup \in BOOLEAN /\ crashed \in BOOLEAN
    BY Zenon DEF OtaInit
  <2> QED BY <2>1, <2>2, UpdateDir DEF OtaInit, BackupType
<1>3. RunType /\ \A u \in Update : ~Active(u)
  BY IdleType DEF OtaInit, RunType, Active
<1>4. ProcessType
  BY Bounds DEF OtaInit, ProcessType
<1>5. BoundType
  <2>1. lock \in BOOLEAN
    BY Zenon DEF OtaInit
  <2> QED BY <2>1, Bounds DEF OtaInit, BoundType
<1>6. OtaTypeOK
  BY <1>1, <1>2, <1>3, <1>4, <1>5, TypeParts
<1>7. ProcessInv /\ AloneInv /\ \A u \in Update : OwnInv(u)
  BY <1>3 DEF OtaInit, ProcessInv, AloneInv, OwnInv
<1> QED BY <1>6, <1>7 DEF OtaInv

LEMMA StutterKeeps == ASSUME OtaInv, UNCHANGED otaVars PROVE OtaInv'
<1>1. UNCHANGED <<programVars, backupVars, lock, run, processVars, boundVars>>
  BY DEF otaVars
<1>2. OtaTypeOK'
  BY <1>1 DEF OtaInv, OtaTypeOK, programVars, backupVars, processVars, boundVars
<1>3. ProcessInv' /\ AloneInv'
  BY <1>1 DEF OtaInv, ProcessInv, AloneInv, Active, programVars, processVars, boundVars
<1>4. \A u \in Update : OwnInv(u)'
  BY <1>1 DEF OtaInv, OwnInv, Active, BackupInv, InstallInv, RollbackInv, Has, programVars, backupVars
<1> QED BY <1>2, <1>3, <1>4 DEF OtaInv

LEMMA OtaInvariant == OtaSpec => []OtaInv
<1>1. OtaInv /\ [OtaNext]_otaVars => OtaInv'
  <2> SUFFICES ASSUME OtaInv, [OtaNext]_otaVars PROVE OtaInv'
    OBVIOUS
  <2>1. CASE OtaNext
    BY <2>1, TypeStep, ProcessStep, OwnInvStep DEF OtaInv
  <2>2. CASE UNCHANGED otaVars
    BY <2>2, StutterKeeps
  <2> QED BY <2>1, <2>2
<1> QED BY <1>1, OtaInitInv, PTL DEF OtaSpec

\* Every variable keeps its type: update-software.js, executed any number of times
\* at once, and the guardian leave the disk, the backups and their own progress
\* in states they know.
THEOREM OtaTypesCorrect == OtaSpec => []OtaTypeOK
<1>1. OtaInv => OtaTypeOK
  BY DEF OtaInv
<1> QED BY <1>1, OtaInvariant, PTL

\* An update that no other overlaps is validated only with its release in each
\* directory that its archive has.
THEOREM ValidatedCorrect == OtaSpec => []ValidatedMeansInstalled
<1>1. OtaInv => ValidatedMeansInstalled
  <2> SUFFICES ASSUME OtaInv, NEW u \in Update, run[u].alone, run[u].phase \in {"publish", "verify", "validate"},
                      NEW i \in Archive[run[u].command.version]
               PROVE  disk[i] = run[u].command.version
    BY DEF ValidatedMeansInstalled
  <2>1. Active(u) /\ run[u].phase # "mixed"
    BY DEF Active
  <2>2. i \in Item
    BY <2>1, ActiveCommand, OtaAssumption DEF OtaInv
  <2>3. InstallInv(u)
    BY <2>1 DEF OtaInv, OwnInv
  <2> QED BY <2>2, <2>3 DEF InstallInv, Has
<1> QED BY <1>1, OtaInvariant, PTL

\* A rollback to a whole backup of its own update, which no other overlaps,
\* restores every directory.
THEOREM RollbackCorrect == OtaSpec => []RollbackRestores
<1>1. OtaInv => RollbackRestores
  BY DEF OtaInv, OwnInv, RollbackInv, RollbackRestores, Active
<1> QED BY <1>1, OtaInvariant, PTL

-----------------------------------------------------------------------------
(* The refinement *)

\* Nothing that the abstract Pi sees.
LEMMA SamePi ==
    ASSUME Running' = Running, UNCHANGED <<release, lock, agent, updates>>
    PROVE  UNCHANGED Pi!piVars
  BY DEF Pi!piVars

\* A step within an execution.
LEMMA WithinMaps ==
    ASSUME RunType, BackupType, NEW u \in Update, Execute(u), Active(u)'
    PROVE  Running' = Running
<1>1. /\ Active(u)
      /\ \A w \in Update \ {u} : run'[w] = run[w]
      /\ run'[u].phase # "idle" => run'[u].command = run[u].command
  BY OwnStep
<1>2. \A w \in Update : (Active(w)' <=> Active(w)) /\ (Active(w) => run'[w].command = run[w].command)
  BY <1>1 DEF Active
<1> QED BY <1>2 DEF Running

\* Runs are over where Absent is, which is the name of no release.
LEMMA RunningFacts ==
    ASSUME ProcessInv, NEW u \in Update
    PROVE  /\ Active(u) => Running[u] = run[u].command.version /\ Running[u] # Absent
           /\ ~Active(u) => Running[u] = Absent
           /\ Running = Pi!NoRuns <=> \A w \in Update : ~Active(w)
<1>1. \A w \in Update : /\ Active(w) => Running[w] = run[w].command.version /\ Running[w] # Absent
                        /\ ~Active(w) => Running[w] = Absent
  <2> SUFFICES ASSUME NEW w \in Update
               PROVE  /\ Active(w) => Running[w] = run[w].command.version /\ Running[w] # Absent
                      /\ ~Active(w) => Running[w] = Absent
    OBVIOUS
  <2>1. Running[w] = IF Active(w) THEN run[w].command.version ELSE Absent
    BY DEF Running
  <2>2. Active(w) => run[w].command.version \in Version
    BY ActiveCommand
  <2> QED BY <2>1, <2>2, OtaAssumption
<1>2. Running = [w \in Update |-> Running[w]]
  BY DEF Running
<1> QED BY <1>1, <1>2 DEF Pi!NoRuns

\* The end of an execution, with the lock or without.
LEMMA EndMaps ==
    ASSUME OtaInv, NEW u \in Update, Active(u), End(u), lock' \in {lock, FALSE},
           UNCHANGED <<release, agent, updates>>
    PROVE  Pi!PiNext
<1>1. Running[u] # Absent
  BY RunningFacts DEF OtaInv
<1>2. RunType
  BY TypeParts DEF OtaInv
<1>3. run' = [run EXCEPT ![u] = Idle]
  BY DEF End
<1>4. ~Active(u)' /\ \A w \in Update \ {u} : run'[w] = run[w]
  BY <1>2, <1>3, IdleType DEF RunType, Active
<1>5. Running' = [Running EXCEPT ![u] = Absent]
  BY <1>4 DEF Running, Active
<1>6. Pi!Ends(u)
  BY <1>1, <1>5 DEF Pi!Ends
<1> QED BY <1>6 DEF Pi!PiNext

\* Version files are written, or fail to be.
LEMMA PublishMaps ==
    ASSUME OtaInv, NEW u \in Update, Active(u), Running' = Running, release' \in {release} \cup Offered,
           UNCHANGED <<lock, agent, updates>>
    PROVE  [Pi!PiNext]_(Pi!piVars)
<1>1. CASE release' = release
  BY <1>1, SamePi
<1>2. CASE release' \in Offered
  <2>1. Running[u] # Absent
    BY RunningFacts DEF OtaInv
  <2>2. Pi!Publishes(u)
    BY <1>2, <2>1 DEF Pi!Publishes
  <2> QED BY <2>2 DEF Pi!PiNext
<1> QED BY <1>1, <1>2

\* The end of the process, or of the power, with the lock or without; a dead agent
\* has no execution to lose, but perhaps an old lock.
LEMMA DeathMaps ==
    ASSUME OtaInv, Interrupted, lock' \in {lock, FALSE}, UNCHANGED updates
    PROVE  [Pi!PiNext]_(Pi!piVars)
<1>1. /\ \A w \in Update : ~Active(w)'
      /\ agent' = "down" /\ release' = release
  BY IdleType DEF Interrupted, Active
<1>2. Running' = Pi!NoRuns
  BY <1>1 DEF Running, Pi!NoRuns
<1>3. CASE agent = "up"
  <2>1. Pi!Dies
    BY <1>1, <1>2, <1>3 DEF Pi!Dies
  <2> QED BY <2>1 DEF Pi!PiNext
<1>4. CASE agent = "down"
  <2>1. \A w \in Update : ~Active(w)
    BY <1>4 DEF OtaInv, ProcessInv
  <2>2. Running' = Running
    BY <1>2, <2>1 DEF Running, Pi!NoRuns
  <2>3. CASE lock' = lock
    BY <1>1, <1>4, <2>2, <2>3, SamePi
  <2>4. CASE lock /\ lock' = FALSE
    <3>1. Pi!LockOld
      BY <1>1, <1>4, <2>2, <2>4 DEF Pi!LockOld
    <3> QED BY <3>1 DEF Pi!PiNext
  <2>5. lock \in BOOLEAN
    BY DEF OtaInv, OtaTypeOK
  <2> QED BY <2>3, <2>4, <2>5
<1>5. agent \in {"up", "down"}
  BY DEF OtaInv, OtaTypeOK
<1> QED BY <1>3, <1>4, <1>5

\* A command that finds no recent lock.
LEMMA BeginMaps ==
    ASSUME OtaInv, NEW c \in Request, Begin(c)
    PROVE  Pi!PiNext
<1>1. ProgramType /\ RunType /\ ProcessInv /\ BoundType
  BY TypeParts DEF OtaInv
<1>2. PICK n \in Update :
        /\ n = updates + 1 /\ ~Active(n)
        /\ run'[n].phase = "check" /\ run'[n].command = c
        /\ \A w \in Update \ {n} :
             /\ Active(w)' <=> Active(w)
             /\ Active(w) => run'[w].command = run[w].command
  BY <1>1, BeginFacts
<1>3. Running[n] = Absent
  BY <1>1, <1>2, RunningFacts
<1>4. Running' = [Running EXCEPT ![n] = c.version]
  BY <1>2 DEF Running, Active
<1>5. agent = "up" /\ ~lock /\ updates' > 0 /\ UNCHANGED <<release, lock, agent>>
  BY <1>1, Bounds DEF Begin, BoundType, programVars, processVars
<1>6. c.version \in Offered
  BY OtaAssumption
<1>7. Pi!Accept(n, c.version)
  BY <1>3, <1>4, <1>5 DEF Pi!Accept
<1> QED BY <1>6, <1>7 DEF Pi!PiNext

\* The steps that do not end an execution.
LEMMA StaysActive ==
    ASSUME RunType, BackupType, NEW u \in Update,
           TakeLock(u) \/ Prepared(u) \/ BackUp(u) \/ Install(u) \/ Publish(u) \/ Verify(u)
             \/ (Fail(u) /\ CanRollBack(u)) \/ RollBack(u)
    PROVE  Active(u)'
<1>1. run[u] \in Execution
  BY DEF RunType
<1>2. CASE TakeLock(u) \/ Prepared(u) \/ Publish(u) \/ Verify(u)
  <2>1. PICK p \in {"prepare", "mixed", "backup", "verify", "validate"} : run' = [run EXCEPT ![u].phase = p]
    BY <1>2 DEF TakeLock, Prepared, Publish, Verify
  <2>2. run'[u].phase = p
    BY <2>1, PhaseFacts DEF Phase
  <2> QED BY <2>2 DEF Active
<1>3. CASE BackUp(u)
  <2> DEFINE a == Advance(run[u], "install")
  <2>1. a \in Execution /\ a.phase \in {run[u].phase, "install"}
    BY <1>1, AdvanceFacts DEF Phase, Execution
  <2>2. run'[u] = [a EXCEPT !.saved = (run[u].at = 4)]
    BY <1>3 DEF BackUp, RunType
  <2> HIDE DEF a
  <2>3. run'[u].phase = a.phase
    BY <2>1, <2>2 DEF Execution
  <2> QED BY <1>3, <2>1, <2>3 DEF BackUp, Active
<1>4. CASE Install(u) \/ RollBack(u)
  <2>1. PICK p \in {"publish", "restored"} : run'[u] = Advance(run[u], p)
    BY <1>4 DEF Install, RollBack, RunType
  <2>2. run'[u].phase \in {run[u].phase, p}
    BY <1>1, <2>1, AdvanceFacts DEF Phase, Execution
  <2> QED BY <1>4, <2>2 DEF Install, RollBack, Active
<1>5. CASE Fail(u) /\ CanRollBack(u)
  <2>1. PICK d \in Dir : run'[u] = RollsBackFrom(run[u], d)
    BY <1>5, UpdateDir DEF Fail, BackupType, RunType
  <2> QED BY <1>1, <2>1, RollsBackFacts DEF Active
<1> QED BY <1>2, <1>3, <1>4, <1>5

LEMMA ExecuteMaps ==
    ASSUME OtaInv, NEW u \in Update, Execute(u)
    PROVE  [Pi!PiNext]_(Pi!piVars)
<1>1. Active(u) /\ RunType /\ BackupType /\ ProcessInv
  BY TypeParts DEF OtaInv, Execute
<1>2. UNCHANGED <<agent, updates>>
  BY ExecuteProcess
<1>3. CASE Succeed(u) \/ LockFails(u) \/ RollBackFails(u) \/ AnswerFailure(u) \/ MixedEnds(u)
             \/ (Fail(u) /\ ~CanRollBack(u))
  <2>1. End(u) /\ lock' \in {lock, FALSE} /\ release' = release
    BY <1>3 DEF Succeed, LockFails, RollBackFails, AnswerFailure, MixedEnds, Fail, Answer, programVars
  <2> QED BY <1>1, <1>2, <2>1, EndMaps
<1>4. CASE TakeLock(u)
  <2>1. Running' = Running
    BY <1>1, <1>4, StaysActive, WithinMaps
  <2>2. lock' = TRUE /\ release' = release
    BY <1>4 DEF TakeLock, programVars
  <2>3. Running[u] # Absent
    BY <1>1, RunningFacts
  <2>4. Pi!Claim(u)
    BY <1>2, <2>1, <2>2, <2>3 DEF Pi!Claim
  <2> QED BY <2>4 DEF Pi!PiNext
<1>5. CASE Prepared(u) \/ BackUp(u) \/ Install(u) \/ RollBack(u) \/ (Fail(u) /\ CanRollBack(u))
  <2>1. Running' = Running
    BY <1>1, <1>5, StaysActive, WithinMaps
  <2>2. UNCHANGED <<release, lock>>
    BY <1>5 DEF Prepared, BackUp, Install, RollBack, Fail, programVars
  <2> QED BY <1>2, <2>1, <2>2, SamePi
<1>6. CASE Publish(u) \/ Verify(u)
  <2>1. Running' = Running
    BY <1>1, <1>6, StaysActive, WithinMaps
  <2>2. run[u].command.version \in Offered
    BY <1>1, ActiveCommand
  <2>3. lock' = lock /\ release' \in {release} \cup Offered
    BY <1>6, <2>2 DEF Publish, Verify, WriteRelease
  <2> QED BY <1>1, <1>2, <2>1, <2>3, PublishMaps
<1> QED BY <1>3, <1>4, <1>5, <1>6 DEF Execute

LEMMA MixedMaps ==
    ASSUME OtaInv, NEW u \in Update, Mixed(u)
    PROVE  [Pi!PiNext]_(Pi!piVars)
<1>1. Active(u) /\ UNCHANGED <<run, lock>>
  BY DEF Mixed, MixedCopies, MixedBackup, MixedPublish, MixedRestart, Active
<1>2. UNCHANGED <<agent, updates>>
  BY ExecuteProcess
<1>3. Running' = Running
  BY <1>1 DEF Running, Active
<1>4. release' \in {release} \cup Offered
  BY DEF Mixed, MixedCopies, MixedBackup, MixedPublish, MixedRestart, programVars
<1> QED BY <1>1, <1>2, <1>3, <1>4, PublishMaps

LEMMA OtaStepMaps == ASSUME OtaInv, OtaNext PROVE [Pi!PiNext]_(Pi!piVars)
<1>1. CASE \E c \in Request : Begin(c)
  BY <1>1, BeginMaps
<1>2. CASE \E u \in Update : Execute(u) \/ Mixed(u)
  BY <1>2, ExecuteMaps, MixedMaps
<1>3. CASE AgentDies \/ PowerFails \/ RestartFires \/ RebootFires
  <2>1. Interrupted /\ lock' \in {lock, FALSE} /\ updates' = updates
    BY <1>3 DEF AgentDies, PowerFails, RestartFires, RebootFires, Killed, Reboot, boundVars
  <2> QED BY <2>1, DeathMaps
<1>4. CASE LockExpires
  <2>1. lock /\ lock' = FALSE /\ UNCHANGED <<run, release, agent, updates>>
    BY <1>4 DEF LockExpires, programVars, processVars, boundVars
  <2>2. Running' = Running
    BY <2>1 DEF Running, Active
  <2>3. Pi!LockOld
    BY <2>1, <2>2 DEF Pi!LockOld
  <2> QED BY <2>3 DEF Pi!PiNext
<1>5. CASE Boot \/ CountCrash \/ RestoreGolden \/ GoldenCopied
  <2>1. agent = "down" /\ agent' \in {"up", "down"} /\ UNCHANGED <<run, release, lock, updates>>
    BY <1>5 DEF OtaInv, ProcessInv, Boot, CountCrash, RestoreGolden, GoldenCopied, programVars, boundVars
  <2>2. Running' = Running
    BY <2>1 DEF Running, Active
  <2>3. CASE agent' = "up"
    <3>1. Pi!Revive
      BY <2>1, <2>2, <2>3 DEF Pi!Revive
    <3> QED BY <3>1 DEF Pi!PiNext
  <2>4. CASE agent' = "down"
    BY <2>1, <2>2, <2>4, SamePi
  <2> QED BY <2>1, <2>3, <2>4
<1>6. CASE ForgetCrashes \/ CreateGolden
  <2>1. UNCHANGED <<run, release, lock, agent, updates>>
    BY <1>6 DEF ForgetCrashes, CreateGolden, programVars, processVars, boundVars
  <2>2. Running' = Running
    BY <2>1 DEF Running, Active
  <2> QED BY <2>1, <2>2, SamePi
<1> QED BY <1>1, <1>2, <1>3, <1>4, <1>5, <1>6 DEF OtaNext, Guardian

LEMMA OtaInitMaps == OtaInit => Pi!PiInit
<1> SUFFICES ASSUME OtaInit PROVE Pi!PiInit
  OBVIOUS
<1>1. Running = Pi!NoRuns
  BY IdleType DEF OtaInit, Running, Pi!NoRuns, Active
<1>2. (updates > 0) = FALSE
  BY DEF OtaInit
<1> QED BY <1>1, <1>2 DEF OtaInit, Pi!PiInit

\* The handler, executed any number of times at once, the guardian and systemd
\* implement the Pi of PiUpdate: every step of theirs is one of its steps, or none
\* that the server can see.  In particular no update begins with a recent lock,
\* and the version reported changes only in an update that has begun.
THEOREM OtaImplementsPi == OtaSpec => Pi!PiSpec
<1>1. OtaInv /\ [OtaNext]_otaVars => [Pi!PiNext]_(Pi!piVars)
  <2> SUFFICES ASSUME OtaInv, [OtaNext]_otaVars PROVE [Pi!PiNext]_(Pi!piVars)
    OBVIOUS
  <2>1. CASE OtaNext
    BY <2>1, OtaStepMaps
  <2>2. CASE UNCHANGED otaVars
    <3>1. UNCHANGED <<run, release, lock, agent, updates>>
      BY <2>2 DEF otaVars, programVars, processVars, boundVars
    <3>2. Running' = Running
      BY <3>1 DEF Running, Active
    <3> QED BY <3>1, <3>2, SamePi
  <2> QED BY <2>1, <2>2
<1> QED BY <1>1, OtaInitMaps, OtaInvariant, PTL DEF OtaSpec, Pi!PiSpec
=============================================================================
