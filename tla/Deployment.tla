----------------------------- MODULE Deployment -----------------------------
(***************************************************************************)
(* A server is configured, upgraded, exported and taken over from another  *)
(* one by commands of its packaged program (installer/server_entry.py,     *)
(* database_ops.py), each a sequence of steps over the configuration, the  *)
(* database role, the database and its backups.  A step may fail, and the  *)
(* machine may stop between two.                                           *)
(*                                                                         *)
(* Credentials of integrations are encrypted in the database with the      *)
(* secret of the configuration: a database is followed as whose records it *)
(* holds, the secrets its credentials need, and its schema.                *)
(*                                                                         *)
(* Two scripts of a source installation restore without any of the care    *)
(* the packaged program takes.  Operators stop the service before they run *)
(* them, as the scripts ask; nothing enforces it.                          *)
(***************************************************************************)
EXTENDS Integers

CONSTANTS
  None,        \* no file, or no process
  MaxSecret,   \* bound on secrets this server generates
  MaxPassword, \* bound on passwords of the database role
  MaxRelease,  \* releases of the program
  MaxCommand,  \* bound on commands
  MaxCrash     \* bound on stops of the machine, also in the middle of a command

ASSUME DeploymentAssumption ==
  /\ MaxSecret \in Nat /\ MaxPassword \in Nat /\ MaxRelease \in Nat \ {0} /\ MaxCommand \in Nat /\ MaxCrash \in Nat
  /\ None \notin [secret : Nat, password : Nat]

VARIABLES
  env,      \* .env
  role,     \* password of the database role, 0 if there is none
  db,       \* the database
  backups,  \* verified backups
  packages, \* migration packages
  service,  \* the configuration the running service has read
  release,  \* the installed program
  op,       \* the command that is running
  broken,   \* the last command that configured the server or restored its database left it
            \* half done, because it failed or was interrupted where nothing cleans up, or
            \* restored what does not fit: another secret, or a database in that state
  left      \* commands and stops left, the bounds

config == <<env, role>>
vars == <<config, db, backups, packages, service, release, op, broken, left>>

OtherSecret == 0   \* the secret of the server that is replaced
Secret == 0 .. MaxSecret
Records == {"none", "admin", "own", "other"}   \* nothing, the bootstrap administrator, ...
Database == [records : Records, secrets : SUBSET Secret, schema : 0 .. MaxRelease, whole : BOOLEAN]
Package == [backup : Database, secret : Secret]

Scripted == {"restore", "restore package"}   \* restore and import-migration of database_ops

Idle == [cmd |-> "idle"]
Empty == [records |-> "none", secrets |-> {}, schema |-> 0, whole |-> TRUE]
OtherDatabase == [records |-> "other", secrets |-> {OtherSecret}, schema |-> 1, whole |-> TRUE]

TypeOK ==
  /\ env \in [secret : Secret, password : 1 .. MaxPassword] \cup {None}
  /\ role \in 0 .. MaxPassword
  /\ db \in Database /\ backups \subseteq Database /\ packages \subseteq Package
  /\ service \in [secret : Secret, password : 1 .. MaxPassword] \cup {None}
  /\ release \in 1 .. MaxRelease
  /\ op.cmd \in {"idle", "configure", "take over", "import", "upgrade"} \cup Scripted
  /\ broken \in BOOLEAN /\ left \in [commands : 0 .. MaxCommand, crashes : 0 .. MaxCrash]

Init ==
  /\ env = None /\ role = 0 /\ db = Empty
  /\ backups = {} /\ packages = {[backup |-> OtherDatabase, secret |-> OtherSecret]}
  /\ service = None /\ release = 1
  /\ op = Idle /\ broken = FALSE
  /\ left = [commands |-> MaxCommand, crashes |-> MaxCrash]

At(cmd, step) == op.cmd = cmd /\ op.step = step
GoTo(step) == op' = [op EXCEPT !.step = step]
\* A command begins when none runs.
Begins == op = Idle /\ left.commands > 0 /\ left' = [left EXCEPT !.commands = @ - 1]
Fits(p) == p.backup.secrets \subseteq {p.secret}

-----------------------------------------------------------------------------
(* configure-production, also with --restore-backup and the configuration  *)
(* of the other server ("take over").  Setup runs it when there is no      *)
(* configuration.                                                          *)

\* provision_postgresql: the role gets a new password, the database is made if it is missing.
Provision ==
  /\ Begins /\ env = None /\ role < MaxPassword
  /\ role' = role + 1
  /\ \/ op' = [cmd |-> "configure", step |-> "write"]
     \/ \E p \in packages : op' = [cmd |-> "take over", step |-> "write", package |-> p]
  /\ UNCHANGED <<env, db, backups, packages, service, release, broken>>

\* The secrets in use, also in what was stored: a generated one is none of them.
InUse ==
  UNION {d.secrets : d \in {db} \cup backups} \cup {p.secret : p \in packages} \cup {OtherSecret}
Generated == Secret \ InUse

\* Mutant of Written: the imported settings lose the secret.
WrittenFresh == Generated

\* imported_production_settings.
Written == IF op.cmd = "take over" THEN {op.package.secret} ELSE Generated

\* write_production_config.
WriteConfig ==
  /\ op.cmd \in {"configure", "take over"} /\ op.step = "write"
  /\ \E s \in Written : env' = [secret |-> s, password |-> role]
  /\ GoTo(IF op.cmd = "take over" THEN "restore" ELSE "migrate")
  /\ UNCHANGED <<role, db, backups, packages, service, release, broken, left>>

\* A failure of provisioning or of writing leaves what is there: the configuration too, if
\* only the Caddyfile could not be written.
WriteFails ==
  /\ op.cmd \in {"configure", "take over"} /\ op.step = "write"
  /\ env' = env \/ \E s \in Written : env' = [secret |-> s, password |-> role]
  /\ op' = Idle /\ broken' = TRUE
  /\ UNCHANGED <<role, db, backups, packages, service, release, left>>

\* Mutant of ConfigureFails: the configuration stays.
ConfigureFailsKeeping ==
  /\ op.cmd \in {"configure", "take over"} /\ op.step # "write"
  /\ op' = Idle
  /\ broken' = (broken \/ op.cmd = "take over")
  /\ UNCHANGED <<env, role, db, backups, packages, service, release, left>>

\* The configuration does not outlive a failure of what comes after it.
ConfigureFails ==
  /\ op.cmd \in {"configure", "take over"} /\ op.step # "write"
  /\ env' = None /\ op' = Idle
  /\ broken' = (broken \/ op.cmd = "take over")
  /\ UNCHANGED <<role, db, backups, packages, service, release, left>>

-----------------------------------------------------------------------------
(* import-migration, on a configured server whose tasks were ended.        *)

Connects == env # None /\ env.password = role

BeginImport ==
  /\ Begins /\ env # None
  /\ service' = None
  /\ \E p \in packages : op' = [cmd |-> "import", step |-> "backup", package |-> p]
  /\ UNCHANGED <<config, db, backups, packages, release, broken>>

\* Mutant of Backup: the import goes on without one.
BackupSkipped ==
  /\ op.cmd \in {"import", "upgrade"} /\ op.step = "backup" /\ Connects
  /\ GoTo(IF op.cmd = "import" THEN "restore" ELSE "migrate")
  /\ UNCHANGED <<config, db, backups, packages, service, release, broken, left>>

\* backup_existing_database, create_backup.
Backup ==
  /\ op.cmd \in {"import", "upgrade"} /\ op.step = "backup" /\ Connects
  /\ backups' = backups \cup {db}
  /\ GoTo(IF op.cmd = "import" THEN "restore" ELSE "migrate")
  /\ UNCHANGED <<config, db, packages, service, release, broken, left>>

\* restore_backup: pg_restore --clean is not one transaction.
RestoreBegins ==
  /\ op.cmd \in {"take over", "import"} \cup Scripted /\ op.step = "restore" /\ Connects
  /\ db' = [db EXCEPT !.whole = FALSE]
  /\ GoTo("restoring")
  /\ UNCHANGED <<config, backups, packages, service, release, broken, left>>

RestoreEnds ==
  /\ op.cmd \in {"take over", "import", "restore package"} /\ op.step = "restoring"
  /\ db' = op.package.backup
  /\ GoTo(IF op.cmd = "take over" THEN "migrate" ELSE "merge")
  /\ UNCHANGED <<config, backups, packages, service, release, broken, left>>

\* _merge_env_files: what is local stays, the secret comes with the package.
MergeConfig ==
  /\ At("import", "merge")
  /\ env' = [env EXCEPT !.secret = op.package.secret]
  /\ GoTo("migrate")
  /\ UNCHANGED <<role, db, backups, packages, service, release, broken, left>>

\* What has begun to restore, and is not undone.
HalfDone == op.cmd \in {"import"} \cup Scripted /\ op.step \notin {"backup", "restore"}

CommandFails ==
  /\ op.cmd \in {"import", "upgrade"} \cup Scripted
  /\ op' = Idle
  /\ broken' = (broken \/ HalfDone)
  /\ UNCHANGED <<config, db, backups, packages, service, release, left>>

-----------------------------------------------------------------------------
(* scripts/restore.ps1 and scripts/import-server-migration.ps1.  Neither   *)
(* makes a backup first, or migrates afterwards.                           *)

BeginScript ==
  /\ Begins /\ env # None
  /\ service' = None
  /\ \/ \E b \in backups :
          op' = [cmd |-> "restore", step |-> "restore", package |-> [backup |-> b, secret |-> env.secret]]
     \/ \E p \in packages : op' = [cmd |-> "restore package", step |-> "restore", package |-> p]
  /\ UNCHANGED <<config, db, backups, packages, release, broken>>

\* The last step: the restore itself, or the merge of the configuration.
ScriptEnds ==
  /\ \/ At("restore", "restoring") /\ db' = op.package.backup /\ env' = env
     \/ At("restore package", "merge") /\ env' = [env EXCEPT !.secret = op.package.secret] /\ db' = db
  /\ op' = Idle
  /\ broken' = ~(Fits(op.package) /\ op.package.backup.whole /\ op.package.backup.records # "none")
  /\ UNCHANGED <<role, backups, packages, service, release, left>>

-----------------------------------------------------------------------------
(* initialize: migrations, and the bootstrap administrator.                *)

\* seed_production, with the credentials of an administrator or without.
Seeded(d, withAdmin) ==
  CASE d.records = "none"  -> IF withAdmin THEN {"admin"} ELSE {}
    [] d.records = "admin" -> {"admin"}
    [] OTHER               -> IF withAdmin THEN {} ELSE {d.records}

\* A database that is not whole, or newer than the program, does not migrate.
Initialized(d, withAdmin) ==
  IF d.whole /\ d.schema <= release
  THEN {[d EXCEPT !.schema = release, !.records = r] : r \in Seeded(d, withAdmin)}
  ELSE {}

\* The last step of a command of the program.  Where it cannot be taken, the command fails.
Initialize ==
  /\ op.cmd \in {"configure", "take over", "import", "upgrade"} /\ op.step = "migrate" /\ Connects
  /\ db' \in Initialized(db, op.cmd = "configure")
  /\ op' = Idle
  /\ broken' = CASE op.cmd = "upgrade"   -> broken
                 [] op.cmd = "configure" -> FALSE
                 [] OTHER                -> ~Fits(op.package)
  /\ UNCHANGED <<config, backups, packages, service, release, left>>

-----------------------------------------------------------------------------
(* The service, and its operators.                                         *)

\* Mutant of Serve: without migrations.
ServeAtOnce ==
  /\ op = Idle /\ service = None /\ Connects
  /\ db.whole /\ db.records # "none"
  /\ service' = env
  /\ UNCHANGED <<config, db, backups, packages, release, op, broken, left>>

\* serve migrates before it answers.
Serve ==
  /\ op = Idle /\ service = None /\ Connects
  /\ db' \in Initialized(db, FALSE)
  /\ service' = env
  /\ UNCHANGED <<config, backups, packages, release, op, broken, left>>

\* wait-ready, what it looks at in the database.
Ready == Connects /\ db.schema = release

\* set_integration_secret.
StoreCredential ==
  /\ service # None
  /\ db' = [db EXCEPT !.secrets = @ \cup {service.secret}]
  /\ UNCHANGED <<config, backups, packages, service, release, op, broken, left>>

\* People and tickets come in.
Use ==
  /\ service # None /\ db.records = "admin"
  /\ db' = [db EXCEPT !.records = "own"]
  /\ UNCHANGED <<config, backups, packages, service, release, op, broken, left>>

\* export-migration: a backup made now or, with --backup-path, an earlier one, and the
\* configuration as it is.
ExportPackage ==
  /\ Begins /\ env # None
  /\ \E b \in backups \cup (IF Connects THEN {db} ELSE {}) :
       /\ packages' = packages \cup {[backup |-> b, secret |-> env.secret]}
       /\ backups' = backups \cup {b}
  /\ UNCHANGED <<config, db, service, release, op, broken>>

\* Setup over a configured server: the files are replaced, then backup and migrate.
BeginUpgrade ==
  /\ Begins /\ env # None
  /\ release' \in {release, release + 1} /\ release' <= MaxRelease
  /\ service' = None
  /\ op' = [cmd |-> "upgrade", step |-> "backup"]
  /\ UNCHANGED <<config, db, backups, packages, broken>>

\* The machine stops: files and database stay as they are.
Crash ==
  /\ op # Idle \/ service # None
  /\ left.crashes > 0
  /\ op' = Idle /\ service' = None
  /\ broken' = (broken \/ op.cmd \in {"configure", "take over"} \/ HalfDone)
  /\ left' = [left EXCEPT !.crashes = @ - 1]
  /\ UNCHANGED <<config, db, backups, packages, release>>

Next ==
  \/ Provision \/ WriteConfig \/ WriteFails \/ ConfigureFails
  \/ BeginImport \/ Backup \/ RestoreBegins \/ RestoreEnds \/ MergeConfig \/ CommandFails
  \/ BeginScript \/ ScriptEnds
  \/ Initialize
  \/ Serve \/ StoreCredential \/ Use
  \/ ExportPackage \/ BeginUpgrade \/ Crash

Spec == Init /\ [][Next]_vars

-----------------------------------------------------------------------------
(* Properties.                                                             *)

\* The configuration always has the password the role has: provisioning gives the role a
\* new one, and a configuration written for it replaces or removes the one before.
ConfigMatchesRole == env # None => env.password = role

\* A configured server has a database that is whole and has its administrator, unless the
\* last command that configured or restored it left it broken: a configuration that fails
\* after it was written is removed.  What is not cleaned up is a failure of provisioning or
\* of the Caddyfile, a restore or import that fails once it has begun, and an interruption.
ConfiguredIsUsable ==
  env # None /\ op = Idle /\ ~broken => db.whole /\ db.records # "none"

\* The credentials in the database can be read with the secret of the configuration,
\* through configuration, takeover, import, restore and upgrade, unless the server is
\* broken: the secret travels with the database.
CredentialsReadable ==
  env # None /\ op = Idle /\ ~broken => db.secrets \subseteq {env.secret}

\* The service runs on a whole database of its own release.
RunsOnItsSchema == service # None => db.whole /\ Ready

\* No command of the packaged program takes records of this server from a database, or
\* leaves it half restored, without a backup that has them.  The two scripts do: they
\* restore over the live database and back nothing up.
OwnRecordsBackedUp ==
  [][db.records = "own" /\ db.whole /\ ~(db'.records = "own" /\ db'.whole) /\ op.cmd \notin Scripted
       => \E b \in backups : b.records = "own" /\ b.whole /\ b.secrets = db.secrets]_vars
=============================================================================
