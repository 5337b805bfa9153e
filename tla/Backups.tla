------------------------------ MODULE Backups ------------------------------
(***************************************************************************)
(* The backup scripts of a production host: the scheduled backup, the gate *)
(* that a release must pass (verify_release_backups.sh), and provisioning  *)
(* of an off-site repository beside them.                                  *)
(*                                                                         *)
(* Two locks are taken one after the other, one for dumps and one for the  *)
(* off-site copy; provisioning takes none.  A script may fail at any       *)
(* command (its trap cleans up) and the host may lose power (nothing does).*)
(* A repository is named by the version of the configuration that leads to *)
(* it, and opens with the password of that version.                        *)
(***************************************************************************)
EXTENDS Integers, Sequences, FiniteSets, SequencesExt, FiniteSetsExt

CONSTANTS
  RetentionDays, MaxBackupAge, MaxRestoreAge,
  Configs,     \* versions of configuration, password and binary that are provisioned
  MaxTime,     \* bound on the clock, in days
  MaxStarts    \* bound on the scripts that are started and the power cuts

ASSUME HostAssumption == Configs \subseteq Nat /\ MaxTime \in Nat /\ MaxStarts \in Nat

VARIABLES
  now,
  stamp,       \* the second of the latest dump: names sort by it
  manifest,    \* the digest of apps/api/migrations in the checkout
  files,       \* what BACKUP_DIR holds: dumps and partial dumps
  repository,  \* whether each repository is initialised, and its snapshots, oldest first
  evidence,    \* offsite-backup.status and offsite-restore.status
  installed,   \* config, password and restic binary below .offsite
  script,      \* the scheduled backup and the gate
  provision,   \* provision_offsite_backup.sh
  starts
hostVars == <<now, stamp, manifest, files, repository, evidence, installed, script, provision, starts>>

NotInstalled == 0
NoStatus == [time |-> -1]
Parts == <<"config", "password", "binary">>
Scripts == {"scheduled", "gate"}
Idle == [at |-> "idle", id |-> 0, began |-> 0, manifest |-> 0, config |-> NotInstalled,
         picked |-> 0, passed |-> FALSE]

-----------------------------------------------------------------------------
(* backup_postgres.sh                                                      *)

At(s, step) == script[s].at = step
Goes(s, step) == script' = [script EXCEPT ![s].at = step]
NobodyIn(steps) == \A s \in Scripts : script[s].at \notin steps

\* A dump is written beside its final name.
NameInPlace == "dump"
Name == "partial"

StartDump(s) ==
  /\ At(s, "started") /\ NobodyIn({"dumping", "dumped"})
  /\ stamp' = stamp + 1
  /\ files' = files \cup {[name |-> Name, stamp |-> stamp', day |-> now, whole |-> FALSE, by |-> s]}
  /\ Goes(s, "dumping")
  /\ UNCHANGED <<now, manifest, repository, evidence, installed, provision, starts>>

\* pg_dump ends and pg_restore --list can read what it wrote.
FinishDump(s) ==
  /\ At(s, "dumping")
  /\ files' = {IF f.by = s /\ ~f.whole THEN [f EXCEPT !.whole = TRUE] ELSE f : f \in files}
  /\ Goes(s, "dumped")
  /\ UNCHANGED <<now, stamp, manifest, repository, evidence, installed, provision, starts>>

\* mv to the final name, and find -mtime -delete.  run_backups.sh goes on to the
\* off-site copy only where one is configured.
Expired(f) == f.name = "dump" /\ now - f.day > RetentionDays
PublishDump(s) ==
  /\ At(s, "dumped")
  /\ LET own == {f \in files : f.by = s}
         kept == {f \in files \ own : ~Expired(f)}
     IN files' = kept \cup {[f EXCEPT !.name = "dump", !.by = "none"] : f \in own}
  /\ Goes(s, IF installed["config"] # NotInstalled THEN "copying" ELSE "ran")
  /\ UNCHANGED <<now, stamp, manifest, repository, evidence, installed, provision, starts>>

-----------------------------------------------------------------------------
(* backup_offsite.sh                                                       *)

Dumps == {f \in files : f.name = "dump"}
Selected == CHOOSE f \in Dumps : \A g \in Dumps : f.stamp >= g.stamp

\* The password file and the binary are read by each restic command anew.
Opens(config) == /\ config \in Configs /\ repository[config].ready
                 /\ installed["password"] = config /\ installed["binary"] # NotInstalled

SelectDump(s) ==
  /\ At(s, "copying") /\ NobodyIn({"selected", "appended"})
  /\ Dumps # {} /\ Opens(installed["config"])
  /\ script' = [script EXCEPT ![s].at = "selected", ![s].config = installed["config"],
                              ![s].picked = Selected.stamp]
  /\ UNCHANGED <<now, stamp, manifest, files, repository, evidence, installed, provision, starts>>

Picked(s) == {f \in Dumps : f.stamp = script[s].picked}

\* restic backup --skip-if-unchanged
AppendSnapshot(s) ==
  /\ At(s, "selected") /\ Picked(s) # {} /\ Opens(script[s].config)
  /\ \E f \in Picked(s) :
       LET snapshots == repository[script[s].config].snapshots
           added == [stamp |-> f.stamp, whole |-> f.whole]
       IN repository' = [repository EXCEPT ![script[s].config].snapshots =
                           IF snapshots # <<>> /\ Last(snapshots) = added THEN snapshots
                           ELSE Append(snapshots, added)]
  /\ Goes(s, "appended")
  /\ UNCHANGED <<now, stamp, manifest, files, evidence, installed, provision, starts>>

\* restic check, then the status file is replaced.
RecordBackup(s) ==
  /\ At(s, "appended") /\ Picked(s) # {} /\ Opens(script[s].config)
  /\ evidence' = [evidence EXCEPT !.backup = [time |-> now, id |-> script[s].id]]
  /\ Goes(s, "ran")
  /\ UNCHANGED <<now, stamp, manifest, files, repository, installed, provision, starts>>

-----------------------------------------------------------------------------
(* verify_release_backups.sh and verify_offsite_restore.sh                 *)

StartScheduled ==
  /\ At("scheduled", "idle") /\ starts < MaxStarts
  /\ script' = [script EXCEPT !["scheduled"] = [Idle EXCEPT !.at = "started"]]
  /\ starts' = starts + 1
  /\ UNCHANGED <<now, stamp, manifest, files, repository, evidence, installed, provision>>
EndScheduled ==
  /\ At("scheduled", "ran") /\ script' = [script EXCEPT !["scheduled"] = Idle]
  /\ UNCHANGED <<now, stamp, manifest, files, repository, evidence, installed, provision, starts>>

\* The run's identifier is a digest of manifest, second and process: nobody else's.
StartGate ==
  /\ At("gate", "idle") /\ starts < MaxStarts /\ installed["config"] # NotInstalled
  /\ starts' = starts + 1
  /\ script' = [script EXCEPT !["gate"] = [Idle EXCEPT !.at = "started", !.id = starts', !.began = stamp,
                                                       !.manifest = manifest]]
  /\ UNCHANGED <<now, stamp, manifest, files, repository, evidence, installed, provision>>

Fresh(record, limit) == record.time >= 0 /\ now - record.time <= limit
Covers(restore) == Fresh(restore, MaxRestoreAge) /\ restore.manifest = script["gate"].manifest

JudgeBackup ==
  /\ At("gate", "ran")
  /\ Fresh(evidence.backup, MaxBackupAge) /\ evidence.backup.id = script["gate"].id
  /\ Goes("gate", IF Covers(evidence.restore) THEN "restored" ELSE "restoring")
  /\ UNCHANGED <<now, stamp, manifest, files, repository, evidence, installed, provision, starts>>

\* A drill database is made of the restored dump; a torn one fails.
Restorable(snapshot) == snapshot.whole

\* restic restore latest
RestoreLatest ==
  /\ At("gate", "restoring") /\ Opens(installed["config"])
  /\ LET snapshots == repository[installed["config"]].snapshots
     IN /\ snapshots # <<>> /\ Restorable(Last(snapshots))
        /\ script' = [script EXCEPT !["gate"].at = "drilled", !["gate"].picked = Last(snapshots).stamp]
  /\ UNCHANGED <<now, stamp, manifest, files, repository, evidence, installed, provision, starts>>
RecordRestore ==
  /\ At("gate", "drilled")
  /\ evidence' = [evidence EXCEPT !.restore = [time |-> now, manifest |-> script["gate"].manifest,
                                           stamp |-> script["gate"].picked]]
  /\ Goes("gate", "restored")
  /\ UNCHANGED <<now, stamp, manifest, files, repository, installed, provision, starts>>

PassGate ==
  /\ At("gate", "restored") /\ Covers(evidence.restore)
  /\ script' = [script EXCEPT !["gate"] = [@ EXCEPT !.at = "idle", !.passed = TRUE]]
  /\ UNCHANGED <<now, stamp, manifest, files, repository, evidence, installed, provision, starts>>

-----------------------------------------------------------------------------
(* provision_offsite_backup.sh and init_offsite_backup.sh                  *)

NotProvisioning == [at |-> 0, config |-> NotInstalled, previous |-> [p \in Range(Parts) |-> NotInstalled]]

StartProvision ==
  /\ provision.at = 0 /\ starts < MaxStarts /\ starts' = starts + 1
  /\ \E config \in {installed["config"] + 1} \cap Configs : provision' = [at |-> 1, config |-> config, previous |-> installed]
  /\ UNCHANGED <<now, stamp, manifest, files, repository, evidence, installed, script>>
InstallPart ==
  /\ provision.at \in DOMAIN Parts
  /\ installed' = [installed EXCEPT ![Parts[provision.at]] = provision.config]
  /\ provision' = [provision EXCEPT !.at = @ + 1]
  /\ UNCHANGED <<now, stamp, manifest, files, repository, evidence, script, starts>>
\* Initialised before, or initialised now.
InitRepository ==
  /\ provision.at = Len(Parts) + 1
  /\ repository' = [repository EXCEPT ![provision.config].ready = TRUE]
  /\ provision' = NotProvisioning
  /\ UNCHANGED <<now, stamp, manifest, files, evidence, installed, script, starts>>
\* restic init may have succeeded when its check, or an earlier command, fails.
RollBack ==
  /\ provision.at # 0
  /\ installed' = provision.previous
  /\ \/ UNCHANGED repository
     \/ /\ provision.at = Len(Parts) + 1
        /\ repository' = [repository EXCEPT ![provision.config].ready = TRUE]
  /\ provision' = NotProvisioning
  /\ UNCHANGED <<now, stamp, manifest, files, evidence, script, starts>>

-----------------------------------------------------------------------------
(* Faults and the world                                                    *)

\* A command of the script fails, or it is told to stop: its trap removes what it
\* was writing.
Fails(s) ==
  /\ ~At(s, "idle")
  /\ files' = {f \in files : f.by # s}
  /\ script' = [script EXCEPT ![s] = Idle]
  /\ UNCHANGED <<now, stamp, manifest, repository, evidence, installed, provision, starts>>

\* Partial dumps stay for ever, and what was being provisioned stays as it is.
LosePower ==
  /\ starts < MaxStarts /\ starts' = starts + 1
  /\ \/ \E s \in Scripts : ~At(s, "idle")
     \/ provision.at # 0
  /\ files' = {[f EXCEPT !.by = "none"] : f \in files}
  /\ script' = [s \in Scripts |-> Idle]
  /\ provision' = NotProvisioning
  /\ UNCHANGED <<now, stamp, manifest, repository, evidence, installed>>

Release ==
  /\ At("gate", "idle") /\ manifest < 1 /\ manifest' = manifest + 1
  /\ UNCHANGED <<now, stamp, files, repository, evidence, installed, script, provision, starts>>
DayPasses ==
  /\ now < MaxTime /\ now' = now + 1
  /\ UNCHANGED <<stamp, manifest, files, repository, evidence, installed, script, provision, starts>>

\* A host that was never provisioned, or once.
HostInit ==
  \E config \in {NotInstalled, 1} :
    /\ now = 0 /\ stamp = 0 /\ manifest = 0 /\ files = {} /\ starts = 0
    /\ repository = [c \in Configs |-> [ready |-> c = config, snapshots |-> <<>>]]
    /\ evidence = [backup |-> NoStatus, restore |-> NoStatus]
    /\ installed = [p \in Range(Parts) |-> config]
    /\ script = [s \in Scripts |-> Idle] /\ provision = NotProvisioning
HostNext ==
  \/ StartScheduled \/ EndScheduled \/ StartGate
  \/ \E s \in Scripts : \/ StartDump(s) \/ FinishDump(s) \/ PublishDump(s)
                        \/ SelectDump(s) \/ AppendSnapshot(s) \/ RecordBackup(s) \/ Fails(s)
  \/ JudgeBackup \/ RestoreLatest \/ RecordRestore \/ PassGate
  \/ StartProvision \/ InstallPart \/ InitRepository \/ RollBack
  \/ LosePower \/ Release \/ DayPasses
HostSpec == HostInit /\ [][HostNext]_hostVars

-----------------------------------------------------------------------------
(* Properties.                                                             *)

Snapshots == UNION {Range(repository[c].snapshots) : c \in Configs}

\* When the gate lets a release through, a whole dump of the database taken since
\* the gate began is off the host, and the restore evidence for this release is of
\* a whole dump that is off the host too: whatever the scheduled backup did in
\* between, and however often either was killed.
GateTellsTheTruth ==
  script["gate"].passed =>
    /\ \E d \in Snapshots : d.whole /\ d.stamp > script["gate"].began
    /\ evidence.restore.manifest = script["gate"].manifest
    /\ \E d \in Snapshots : d.whole /\ d.stamp = evidence.restore.stamp
=============================================================================
