-------------------------- MODULE Deployment_proofs --------------------------
(***************************************************************************)
(* Proofs about Deployment, for any number of secrets, passwords, releases,*)
(* commands and stops: what the variables hold, that the service runs on   *)
(* the schema of its own release, that a configured server is usable, and  *)
(* that records of this server are backed up before the packaged program   *)
(* replaces them.                                                          *)
(***************************************************************************)
EXTENDS Deployment, TLAPS

Step == {"write", "backup", "restore", "restoring", "merge", "migrate"}
Plain == {"configure", "upgrade"}
WithPackage == {"take over", "import", "restore package"}
WithBackup == WithPackage \cup {"restore"}

\* What a command that is running remembers.  A package stays once it was made.
Running ==
  \/ op = Idle
  \/ op \in [cmd : Plain, step : Step]
  \/ op \in [cmd : WithPackage, step : Step, package : packages]
  \/ op \in [cmd : {"restore"}, step : Step, package : Package]

Types == TypeOK /\ Running

LEMMA Bounds ==
  /\ MaxSecret \in Nat /\ MaxPassword \in Nat /\ MaxRelease \in Nat /\ MaxRelease >= 1
  /\ MaxCommand \in Nat /\ MaxCrash \in Nat
  /\ \A c : c \in [secret : Secret, password : 1 .. MaxPassword] => c # None
BY DeploymentAssumption DEF DeploymentAssumption, Secret

LEMMA InitTypes == Init => Types
<1> SUFFICES ASSUME Init PROVE Types
  OBVIOUS
<1>1. Empty \in Database
  BY Bounds DEF Empty, Database, Secret, Records
<1>2. OtherDatabase \in Database /\ OtherSecret \in Secret
  BY Bounds DEF OtherDatabase, OtherSecret, Database, Secret, Records
<1>3. db \in Database /\ backups \subseteq Database /\ packages \subseteq Package
  BY <1>1, <1>2 DEF Init, Package
<1>4. op.cmd \in {"idle"} /\ Running
  BY DEF Init, Idle, Running
<1>5. left \in [commands : 0 .. MaxCommand, crashes : 0 .. MaxCrash]
  BY Bounds DEF Init
<1>6. role \in 0 .. MaxPassword /\ release \in 1 .. MaxRelease
  BY Bounds DEF Init
<1>8. broken \in BOOLEAN
  BY Zenon DEF Init
<1>7. env = None /\ service = None
  BY DEF Init
<1> QED BY <1>3, <1>4, <1>5, <1>6, <1>7, <1>8 DEF Types, TypeOK

\* A step of a running command changes only where it is.
LEMMA GoesTo ==
  ASSUME Running, op # Idle, NEW s \in Step, GoTo(s), packages \subseteq packages'
  PROVE  /\ Running' /\ op'.cmd = op.cmd /\ op'.step = s
         /\ op.cmd \in WithPackage => op.package \in packages /\ op'.package = op.package
         /\ op.cmd = "restore" => op'.package = op.package
         /\ op.cmd \in Plain \cup WithBackup
<1> USE DEF Plain, WithPackage, WithBackup
<1>1. CASE op \in [cmd : Plain, step : Step]
  BY <1>1 DEF GoTo, Running
<1>2. CASE op \in [cmd : WithPackage, step : Step, package : packages]
  BY <1>2 DEF GoTo, Running
<1>3. CASE op \in [cmd : {"restore"}, step : Step, package : Package]
  BY <1>3 DEF GoTo, Running
<1> QED BY <1>1, <1>2, <1>3 DEF Running

\* Where the command stays as it is, or ends.
LEMMA StaysRunning ==
  ASSUME Running, op' \in {op, Idle}, packages \subseteq packages'
  PROVE  Running'
BY DEF Running

\* What starts, and what is in hand, is one of the packages.
LEMMA Starts ==
  ASSUME NEW c \in Plain, NEW s \in Step, op' = [cmd |-> c, step |-> s]
  PROVE  Running' /\ op'.cmd = c /\ op'.step = s
BY DEF Running

LEMMA StartsWith ==
  ASSUME NEW c \in WithPackage, NEW s \in Step, NEW p \in packages,
         op' = [cmd |-> c, step |-> s, package |-> p], packages \subseteq packages'
  PROVE  Running' /\ op'.cmd = c /\ op'.step = s /\ op'.package = p
BY DEF Running

LEMMA Cmds == Running => op.cmd \in {"idle"} \cup Plain \cup WithBackup
<1>1. Idle.cmd = "idle"
  BY DEF Idle
<1>2. CASE op \in [cmd : Plain, step : Step]
  BY <1>2
<1>3. CASE op \in [cmd : WithPackage, step : Step, package : packages]
  BY <1>3 DEF WithBackup
<1>4. CASE op \in [cmd : {"restore"}, step : Step, package : Package]
  BY <1>4 DEF WithBackup
<1> QED BY <1>1, <1>2, <1>3, <1>4 DEF Running

LEMMA IdleCommand == Running /\ op.cmd = "idle" => op = Idle
<1>1. CASE op \in [cmd : Plain, step : Step]
  BY <1>1 DEF Plain
<1>2. CASE op \in [cmd : WithPackage, step : Step, package : packages]
  BY <1>2 DEF WithPackage
<1>3. CASE op \in [cmd : {"restore"}, step : Step, package : Package]
  BY <1>3
<1> QED BY <1>1, <1>2, <1>3 DEF Running

LEMMA NotIdle == op.cmd # "idle" => op # Idle
BY DEF Idle

LEMMA Carries ==
  ASSUME Running, op.cmd \in WithPackage
  PROVE  op # Idle /\ op.package \in packages
<1>1. Idle.cmd = "idle"
  BY DEF Idle
<1>2. op.cmd \notin {"idle"} \cup Plain
  BY DEF Plain, WithPackage
<1>3. /\ op \notin [cmd : Plain, step : Step] /\ op # Idle
      /\ op \notin [cmd : {"restore"}, step : Step, package : Package]
  BY <1>1, <1>2 DEF WithPackage
<1> QED BY <1>3 DEF Running

LEMMA CarriesOne ==
  ASSUME TypeOK, Running, op.cmd \in WithBackup
  PROVE  op # Idle /\ op.package \in Package
<1>1. CASE op.cmd \in WithPackage
  BY <1>1, Carries DEF TypeOK
<1>2. CASE op.cmd = "restore"
  <2>1. Idle.cmd = "idle"
    BY DEF Idle
  <2>2. /\ op \notin [cmd : Plain, step : Step] /\ op # Idle
        /\ op \notin [cmd : WithPackage, step : Step, package : packages]
    BY <1>2, <2>1 DEF Plain, WithPackage
  <2> QED BY <2>2 DEF Running
<1> QED BY <1>1, <1>2 DEF WithBackup

(* The inductive invariant.                                                *)

\* What a command may rely on at its steps: a configuration is written only where there
\* is none, for a role that has a password; an import and an upgrade have one; and the
\* service is stopped.
Commands ==
  /\ op.cmd \in {"configure", "take over"} => role > 0 /\ (op.step = "write" => env = None)
  /\ op.cmd \in {"import", "upgrade"} \cup Scripted => env # None
  /\ op # Idle => service = None

Inv == Types /\ Commands /\ ConfigMatchesRole /\ RunsOnItsSchema

\* The part of the types an action can disturb, one at a time.
Left == left \in [commands : 0 .. MaxCommand, crashes : 0 .. MaxCrash]
Config == [secret : Secret, password : 1 .. MaxPassword]

LEMMA LeftNext == Left /\ [Next]_vars => Left'
<1> SUFFICES ASSUME Left, [Next]_vars PROVE Left'
  OBVIOUS
<1>1. CASE Begins
  BY <1>1, Bounds DEF Begins, Left
<1>2. CASE Crash
  <2>1. left.crashes > 0 /\ left' = [left EXCEPT !.crashes = @ - 1]
    BY <1>2, Zenon DEF Crash
  <2> QED BY <2>1, Bounds DEF Left
<1>3. CASE UNCHANGED left
  BY <1>3 DEF Left
<1>4. Begins \/ Crash \/ UNCHANGED left
  BY DEF Next, vars, Provision, WriteConfig, WriteFails, ConfigureFails, BeginImport, Backup, RestoreBegins,
         RestoreEnds, MergeConfig, CommandFails, Initialize, Serve, StoreCredential, Use, ExportPackage,
         BeginUpgrade, BeginScript, ScriptEnds
<1> QED BY <1>1, <1>2, <1>3, <1>4

LEMMA BrokenNext == TypeOK /\ [Next]_vars => broken' \in BOOLEAN
<1> SUFFICES ASSUME TypeOK, [Next]_vars PROVE broken' \in BOOLEAN
  OBVIOUS
<1>1. broken \in BOOLEAN
  BY DEF TypeOK
<1>2. CASE Initialize
  BY <1>1, <1>2, Zenon DEF Initialize
<1>3. CASE WriteFails \/ ConfigureFails \/ CommandFails \/ Crash
  BY <1>1, <1>3, Zenon DEF WriteFails, ConfigureFails, CommandFails, Crash
<1>a. CASE ScriptEnds
  BY <1>a, Zenon DEF ScriptEnds
<1>4. CASE broken' = broken
  BY <1>1, <1>4
<1>5. Initialize \/ WriteFails \/ ConfigureFails \/ CommandFails \/ Crash \/ ScriptEnds \/ broken' = broken
  BY DEF Next, vars, Provision, WriteConfig, BeginImport, Backup, RestoreBegins, RestoreEnds, MergeConfig,
         Serve, StoreCredential, Use, ExportPackage, BeginUpgrade, BeginScript
<1> QED BY <1>2, <1>3, <1>a, <1>4, <1>5

LEMMA StoresNext ==
  ASSUME Types, [Next]_vars
  PROVE  /\ db' \in Database /\ backups' \subseteq Database /\ packages' \subseteq Package
         /\ packages \subseteq packages' /\ backups \subseteq backups'
<1>1. /\ db \in Database /\ backups \subseteq Database /\ packages \subseteq Package
      /\ service \in Config \cup {None} /\ env \in Config \cup {None} /\ release \in 1 .. MaxRelease
  BY DEF Types, TypeOK, Config
<1>2. CASE Backup
  BY <1>1, <1>2 DEF Backup, config
<1>3. CASE RestoreBegins
  BY <1>1, <1>3 DEF RestoreBegins, config, Database
<1>4. CASE RestoreEnds
  <2>1. op.package \in packages
    BY <1>4, Carries DEF Types, RestoreEnds, WithPackage
  <2> QED BY <1>1, <1>4, <2>1 DEF RestoreEnds, Package
<1>a. CASE ScriptEnds
  <2>1. db' = op.package.backup \/ db' = db
    BY <1>a DEF ScriptEnds
  <2>2. op.package \in Package
    BY <1>a, CarriesOne DEF ScriptEnds, At, WithBackup, WithPackage, Types
  <2> QED BY <1>1, <1>a, <2>1, <2>2 DEF ScriptEnds, Package
<1>5. ASSUME NEW b \in BOOLEAN, db' \in Initialized(db, b) PROVE db' \in Database
  <2>1. PICK r \in Seeded(db, b) : db' = [db EXCEPT !.schema = release, !.records = r]
    BY <1>5 DEF Initialized
  <2>2. r \in Records
    BY <1>1, <2>1 DEF Seeded, Database, Records
  <2>3. release \in 0 .. MaxRelease
    BY <1>1, Bounds
  <2> QED BY <1>1, <2>1, <2>2, <2>3 DEF Database
<1>6. CASE Initialize
  BY <1>1, <1>5, <1>6 DEF Initialize
<1>7. CASE Serve
  BY <1>1, <1>5, <1>7 DEF Serve
<1>8. CASE StoreCredential
  BY <1>1, <1>8 DEF StoreCredential, Database, Config
<1>9. CASE Use
  BY <1>1, <1>9 DEF Use, Database, Records
<1>10. CASE ExportPackage
  <2>1. PICK b \in backups \cup {db} :
           packages' = packages \cup {[backup |-> b, secret |-> env.secret]} /\ backups' = backups \cup {b}
    BY <1>10 DEF ExportPackage
  <2>2. env \in Config /\ db' = db
    BY <1>1, <1>10 DEF ExportPackage
  <2> QED BY <1>1, <2>1, <2>2 DEF Package, Config
<1>11. CASE UNCHANGED <<db, backups, packages>>
  BY <1>1, <1>11
<1>12. \/ Backup \/ RestoreBegins \/ RestoreEnds \/ Initialize \/ Serve \/ StoreCredential \/ Use \/ ExportPackage
       \/ ScriptEnds \/ UNCHANGED <<db, backups, packages>>
  BY DEF Next, vars, Provision, WriteConfig, WriteFails, ConfigureFails, BeginImport, MergeConfig, CommandFails,
         BeginUpgrade, BeginScript, Crash
<1> QED BY <1>2, <1>3, <1>4, <1>a, <1>6, <1>7, <1>8, <1>9, <1>10, <1>11, <1>12

LEMMA RoleHasPassword ==
  Inv /\ op.cmd \in {"configure", "take over"} => role \in 1 .. MaxPassword
<1>1. SUFFICES ASSUME Inv, op.cmd \in {"configure", "take over"} PROVE role \in 1 .. MaxPassword
  OBVIOUS
<1>2. role \in 0 .. MaxPassword
  BY <1>1 DEF Inv, Types, TypeOK
<1>3. role > 0
  BY <1>1 DEF Inv, Commands
<1>4. MaxPassword \in Nat
  BY Bounds
<1> QED BY <1>2, <1>3, <1>4

LEMMA WrittenConfig ==
  ASSUME Inv, op.cmd \in {"configure", "take over"}, NEW s \in Written
  PROVE  [secret |-> s, password |-> role] \in Config
<1>1. role \in 1 .. MaxPassword /\ packages \subseteq Package
  BY RoleHasPassword DEF Inv, Types, TypeOK
<1>2. s \in Secret
  <2>1. CASE op.cmd = "take over"
    <3>1. op.package \in packages
      BY <2>1, Carries DEF WithPackage, Inv, Types
    <3> QED BY <1>1, <2>1, <3>1 DEF Written, Package
  <2>2. CASE op.cmd = "configure"
    BY <2>2 DEF Written, Generated
  <2> QED BY <2>1, <2>2
<1> QED BY <1>1, <1>2 DEF Config

LEMMA ConfigNext ==
  ASSUME Inv, [Next]_vars
  PROVE  /\ env' \in Config \cup {None} /\ role' \in 0 .. MaxPassword
         /\ service' \in Config \cup {None} /\ release' \in 1 .. MaxRelease
<1>1. /\ env \in Config \cup {None} /\ role \in 0 .. MaxPassword
      /\ service \in Config \cup {None} /\ release \in 1 .. MaxRelease
      /\ packages \subseteq Package /\ db \in Database /\ backups \subseteq Database
  BY DEF Inv, Types, TypeOK, Config
<1>2. CASE Provision
  <2>1. role < MaxPassword /\ role' = role + 1 /\ UNCHANGED <<env, service, release>>
    BY <1>2, Zenon DEF Provision
  <2> QED BY <1>1, <2>1, Bounds
<1>4. CASE WriteConfig \/ WriteFails
  <2>1. op.cmd \in {"configure", "take over"} /\ UNCHANGED <<role, service, release>>
    BY <1>4 DEF WriteConfig, WriteFails
  <2>2. env' = env \/ \E s \in Written : env' = [secret |-> s, password |-> role]
    BY <1>4 DEF WriteConfig, WriteFails
  <2>3. env' \in Config \cup {None}
    BY <1>1, <2>1, <2>2, WrittenConfig
  <2> QED BY <1>1, <2>1, <2>3
<1>5. CASE MergeConfig
  <2>1. env \in Config /\ op.package \in packages
    BY <1>1, <1>5, Carries DEF MergeConfig, At, Inv, Types, Commands, WithPackage
  <2>2. env' \in Config
    BY <1>1, <1>5, <2>1 DEF MergeConfig, Config, Package
  <2> QED BY <1>1, <1>5, <2>2 DEF MergeConfig
<1>a. CASE ScriptEnds
  <2>1. env \in Config /\ op.package \in Package
    BY <1>1, <1>a, CarriesOne
       DEF ScriptEnds, At, Inv, Types, Commands, WithBackup, WithPackage, Scripted
  <2>2. env' = env \/ env' = [env EXCEPT !.secret = op.package.secret]
    BY <1>a DEF ScriptEnds
  <2>3. env' \in Config
    BY <2>1, <2>2 DEF Config, Package
  <2> QED BY <1>1, <1>a, <2>3 DEF ScriptEnds
<1>6. CASE ConfigureFails
  BY <1>1, <1>6 DEF ConfigureFails
<1>7. CASE BeginImport \/ BeginScript \/ Serve \/ Crash
  <2>1. service' \in {env, None} /\ UNCHANGED <<config, release>>
    BY <1>7 DEF BeginImport, BeginScript, Serve, Crash
  <2> QED BY <1>1, <2>1 DEF config
<1>8. CASE BeginUpgrade
  BY <1>1, <1>8, Bounds DEF BeginUpgrade, config
<1>9. CASE UNCHANGED <<config, service, release>>
  BY <1>1, <1>9 DEF config
<1>10. \/ Provision \/ WriteConfig \/ WriteFails \/ MergeConfig \/ ConfigureFails \/ BeginImport \/ Serve \/ Crash
       \/ BeginScript \/ ScriptEnds \/ BeginUpgrade \/ UNCHANGED <<config, service, release>>
  BY DEF Next, vars, Backup, RestoreBegins, RestoreEnds, CommandFails, Initialize, StoreCredential, Use,
         ExportPackage, BeginScript
<1> QED BY <1>2, <1>4, <1>5, <1>a, <1>6, <1>7, <1>8, <1>9, <1>10

\* Where a command goes: on, to its end, or it begins.
LEMMA CommandNext ==
  ASSUME Inv, [Next]_vars
  PROVE  /\ Running'
         /\ Commands'
<1> USE DEF Scripted
<1>1. Running /\ packages \subseteq packages'
  BY StoresNext DEF Inv, Types
<1>2. Commands /\ role \in 0 .. MaxPassword
  BY DEF Inv, Types, TypeOK
<1>3. CASE Provision
  <2>5. env = None /\ UNCHANGED <<env, packages, service>> /\ role' = role + 1
    BY <1>3, Zenon DEF Provision
  <2>1. env' = None /\ role' > 0 /\ packages' = packages
    BY <1>2, <2>5, Bounds
  <2>2. service' = None
    BY <2>5 DEF Inv, RunsOnItsSchema, Ready, Connects
  <2>3. CASE op' = [cmd |-> "configure", step |-> "write"]
    BY <2>1, <2>2, <2>3, Starts DEF Plain, Step, Commands
  <2>4. CASE \E p \in packages : op' = [cmd |-> "take over", step |-> "write", package |-> p]
    <3>1. PICK p \in packages : op' = [cmd |-> "take over", step |-> "write", package |-> p]
      BY <2>4
    <3>2. Running' /\ op'.cmd = "take over"
      BY <2>1, <3>1, StartsWith DEF WithPackage, Step
    <3> QED BY <2>1, <2>2, <3>2 DEF Commands
  <2> QED BY <1>3, <2>3, <2>4 DEF Provision
<1>4. CASE BeginImport
  <2>1. env' # None /\ service' = None /\ packages' = packages
    BY <1>4 DEF BeginImport, config
  <2>2. PICK p \in packages : op' = [cmd |-> "import", step |-> "backup", package |-> p]
    BY <1>4 DEF BeginImport
  <2>3. Running' /\ op'.cmd = "import"
    BY <2>1, <2>2, StartsWith DEF WithPackage, Step
  <2> QED BY <2>1, <2>3 DEF Commands
<1>5. CASE BeginUpgrade
  <2>1. env' # None /\ service' = None /\ op' = [cmd |-> "upgrade", step |-> "backup"]
    BY <1>5 DEF BeginUpgrade, config
  <2>2. Running' /\ op'.cmd = "upgrade"
    BY <2>1, Starts DEF Plain, Step
  <2> QED BY <2>1, <2>2 DEF Commands
<1>a. CASE BeginScript
  <2>1. env' # None /\ service' = None /\ packages' = packages
    BY <1>a DEF BeginScript, config
  <2>2. CASE \E p \in packages : op' = [cmd |-> "restore package", step |-> "restore", package |-> p]
    <3>1. PICK p \in packages : op' = [cmd |-> "restore package", step |-> "restore", package |-> p]
      BY <2>2
    <3>2. Running' /\ op'.cmd = "restore package"
      BY <2>1, <3>1, StartsWith DEF WithPackage, Step
    <3> QED BY <2>1, <3>2 DEF Commands
  <2>3. CASE \E b \in backups :
               op' = [cmd |-> "restore", step |-> "restore", package |-> [backup |-> b, secret |-> env.secret]]
    <3>1. PICK b \in backups :
            op' = [cmd |-> "restore", step |-> "restore", package |-> [backup |-> b, secret |-> env.secret]]
      BY <2>3
    <3>2. env \in Config /\ b \in Database
      BY <1>a DEF BeginScript, Inv, Types, TypeOK, Config
    <3>3. [backup |-> b, secret |-> env.secret] \in Package
      BY <3>2 DEF Package, Config
    <3>4. Running' /\ op'.cmd = "restore"
      BY <3>1, <3>3 DEF Running, Step
    <3> QED BY <2>1, <3>4 DEF Commands
  <2> QED BY <1>a, <2>2, <2>3 DEF BeginScript
<1>6. CASE op' = Idle
  <2>1. op'.cmd = "idle"
    BY <1>6 DEF Idle
  <2> QED BY <1>1, <1>6, <2>1, StaysRunning DEF Commands
<1>7. ASSUME op # Idle, NEW s \in Step \ {"write"}, GoTo(s), service' = service, role' = role,
             env # None => env' # None
      PROVE  Running' /\ Commands'
  <2>1. Running' /\ op'.cmd = op.cmd /\ op'.step = s
    BY <1>1, <1>7, GoesTo
  <2> QED BY <1>2, <1>7, <2>1 DEF Commands
<1>8. CASE UNCHANGED <<op, env, role>> /\ (op = Idle \/ service' = service)
  BY <1>1, <1>2, <1>8, StaysRunning DEF Commands
<1>9. CASE WriteConfig
  <2>1. op # Idle
    BY <1>9, NotIdle DEF WriteConfig
  <2>2. PICK s \in {"restore", "migrate"} : GoTo(s)
    BY <1>9 DEF WriteConfig
  <2>3. env' # None
    BY <1>9, Bounds, WrittenConfig DEF WriteConfig, Config
  <2> QED BY <1>7, <1>9, <2>1, <2>2, <2>3 DEF WriteConfig, Step
<1>10. CASE MergeConfig
  <2>1. op # Idle /\ op.cmd = "import" /\ GoTo("migrate") /\ UNCHANGED <<role, service>>
    BY <1>10 DEF MergeConfig, At, Idle
  <2>2. env \in Config /\ op.package \in packages /\ packages \subseteq Package
    BY <1>2, <2>1, Carries DEF Inv, Types, TypeOK, Commands, Config, WithPackage
  <2>3. env' # None
    BY <1>10, <2>2, Bounds DEF MergeConfig, Config, Package
  <2> QED BY <1>7, <2>1, <2>3 DEF Step
<1>11. CASE Backup \/ RestoreBegins \/ RestoreEnds
  <2>1. op # Idle /\ UNCHANGED <<env, role, service>>
    BY <1>11, NotIdle DEF Backup, RestoreBegins, RestoreEnds, config
  <2>2. PICK s \in Step \ {"write"} : GoTo(s)
    BY <1>11 DEF Backup, RestoreBegins, RestoreEnds, Step
  <2> QED BY <1>7, <2>1, <2>2
<1>12. CASE Serve
  BY <1>8, <1>12 DEF Serve, config
<1>13. CASE StoreCredential \/ Use \/ ExportPackage \/ UNCHANGED vars
  BY <1>8, <1>13 DEF StoreCredential, Use, ExportPackage, vars, config
<1>14. CASE WriteFails \/ ConfigureFails \/ CommandFails \/ ScriptEnds \/ Initialize \/ Crash
  BY <1>6, <1>14 DEF WriteFails, ConfigureFails, CommandFails, ScriptEnds, Initialize, Crash
<1> QED BY <1>3, <1>4, <1>5, <1>a, <1>9, <1>10, <1>11, <1>12, <1>13, <1>14 DEF Next

\* The configuration fits the role, and a service runs on the release's schema.
LEMMA MatchNext ==
  ASSUME Inv, [Next]_vars
  PROVE  ConfigMatchesRole'
<1>1. ConfigMatchesRole /\ env \in Config \cup {None}
  BY DEF Inv, Types, TypeOK, Config
<1>2. CASE env' = None
  BY <1>2 DEF ConfigMatchesRole
<1>3. CASE UNCHANGED config
  BY <1>1, <1>3 DEF ConfigMatchesRole, config
<1>4. CASE WriteConfig \/ WriteFails
  <2>1. role' = role /\ (env' = env \/ \E s \in Written : env' = [secret |-> s, password |-> role])
    BY <1>4 DEF WriteConfig, WriteFails
  <2> QED BY <1>1, <2>1 DEF ConfigMatchesRole
<1>5. CASE MergeConfig
  <2>1. op.cmd = "import" /\ role' = role /\ env' = [env EXCEPT !.secret = op.package.secret]
    BY <1>5 DEF MergeConfig, At
  <2>2. env # None
    BY <2>1 DEF Inv, Commands
  <2> QED BY <1>1, <2>1, <2>2 DEF ConfigMatchesRole, Config
<1>a. CASE ScriptEnds
  <2>1. /\ role' = role /\ env # None
        /\ env' = env \/ env' = [env EXCEPT !.secret = op.package.secret]
    BY <1>a DEF ScriptEnds, At, Inv, Commands, Scripted
  <2> QED BY <1>1, <2>1 DEF ConfigMatchesRole, Config
<1>6. CASE Provision
  BY <1>2, <1>6 DEF Provision
<1>7. CASE ConfigureFails
  BY <1>2, <1>7 DEF ConfigureFails
<1>8. \/ Provision \/ WriteConfig \/ WriteFails \/ MergeConfig \/ ConfigureFails \/ ScriptEnds \/ UNCHANGED config
  BY DEF Next, vars, Backup, RestoreBegins, RestoreEnds, CommandFails, Initialize, StoreCredential, Use,
         ExportPackage, BeginScript, BeginImport, BeginUpgrade, Serve, Crash
<1> QED BY <1>3, <1>4, <1>5, <1>a, <1>6, <1>7, <1>8

LEMMA RunsOnNext ==
  ASSUME Inv, [Next]_vars
  PROVE  RunsOnItsSchema'
<1> USE DEF RunsOnItsSchema, Ready
<1>1. RunsOnItsSchema /\ db \in Database /\ ConfigMatchesRole'
  BY MatchNext DEF Inv, Types, TypeOK
<1>2. op # Idle => service = None
  BY DEF Inv, Commands
<1>3. CASE service' = None
  BY <1>3
<1>4. CASE op # Idle /\ service' = service
  BY <1>2, <1>3, <1>4
<1>5. CASE Serve
  <2>1. PICK r \in Seeded(db, FALSE) : db.whole /\ db' = [db EXCEPT !.schema = release, !.records = r]
    BY <1>5 DEF Serve, Initialized
  <2>2. Connects /\ UNCHANGED <<env, role, release>>
    BY <1>5 DEF Serve, config
  <2> QED BY <1>1, <2>1, <2>2 DEF Database, Connects
<1>6. CASE StoreCredential \/ Use
  <2>1. UNCHANGED <<env, role, release, service>>
    BY <1>6 DEF StoreCredential, Use, config
  <2>2. db'.whole = db.whole /\ db'.schema = db.schema
    BY <1>1, <1>6 DEF StoreCredential, Use, Database
  <2> QED BY <1>1, <2>1, <2>2 DEF Connects
<1>7. CASE UNCHANGED <<config, service, release, db>>
  BY <1>1, <1>7 DEF Connects, config
<1>8. CASE Provision
  <2>1. env = None /\ service' = service
    BY <1>8, Zenon DEF Provision
  <2> QED BY <1>1, <1>3, <2>1 DEF Connects
<1>9. CASE BeginImport \/ BeginScript \/ BeginUpgrade \/ Crash
  BY <1>3, <1>9 DEF BeginImport, BeginScript, BeginUpgrade, Crash
<1>10. CASE ExportPackage \/ UNCHANGED vars
  BY <1>7, <1>10 DEF ExportPackage, vars
<1>11. CASE WriteConfig \/ WriteFails \/ ConfigureFails \/ Backup \/ RestoreBegins \/ RestoreEnds \/ MergeConfig
            \/ ScriptEnds \/ CommandFails \/ Initialize
  <2>1. op # Idle
    BY <1>11, NotIdle DEF WriteConfig, WriteFails, ConfigureFails, Backup, RestoreBegins, RestoreEnds,
         MergeConfig, At, ScriptEnds, CommandFails, Initialize, Scripted
  <2>2. service' = service
    BY <1>11 DEF WriteConfig, WriteFails, ConfigureFails, Backup, RestoreBegins, RestoreEnds, MergeConfig,
         ScriptEnds, CommandFails, Initialize
  <2> QED BY <1>4, <2>1, <2>2
<1> QED BY <1>5, <1>6, <1>8, <1>9, <1>10, <1>11 DEF Next

LEMMA InvInit == Init => Inv
<1> SUFFICES ASSUME Init PROVE Inv
  OBVIOUS
<1>1. Types
  BY InitTypes
<1>2. Commands
  BY DEF Init, Idle, Commands, Scripted
<1>3. ConfigMatchesRole /\ RunsOnItsSchema
  BY DEF Init, ConfigMatchesRole, RunsOnItsSchema
<1> QED BY <1>1, <1>2, <1>3 DEF Inv

LEMMA InvNext == Inv /\ [Next]_vars => Inv'
<1> SUFFICES ASSUME Inv, [Next]_vars PROVE Inv'
  OBVIOUS
<1>1. Types'
  <2>1. op'.cmd \in {"idle", "configure", "take over", "import", "upgrade"} \cup Scripted
    <3>1. Running'
      BY CommandNext
    <3>2. (op.cmd \in {"idle"} \cup Plain \cup WithBackup)'
      BY <3>1, Cmds, PTL
    <3> QED BY <3>2 DEF Plain, WithPackage, WithBackup, Scripted
  <2>2. Left'
    BY LeftNext DEF Inv, Types, TypeOK, Left
  <2>3. broken' \in BOOLEAN
    BY BrokenNext DEF Inv, Types
  <2>4. Running'
    BY CommandNext
  <2> QED BY <2>1, <2>2, <2>3, <2>4, ConfigNext, StoresNext DEF Inv, Types, TypeOK, Left, Config
<1> QED BY <1>1, CommandNext, MatchNext, RunsOnNext DEF Inv

\* The variables only ever hold what their commands write, for any bounds.
THEOREM TypeCorrect == Spec => []TypeOK
<1>1. Inv => TypeOK
  BY DEF Inv, Types
<1> QED BY <1>1, InvInit, InvNext, PTL DEF Spec

\* The configuration on disk always connects: it has the password the role has.
THEOREM ConfigurationConnects == Spec => []ConfigMatchesRole
<1>1. Inv => ConfigMatchesRole
  BY DEF Inv
<1> QED BY <1>1, InvInit, InvNext, PTL DEF Spec

\* A service that runs answers from a whole database of the schema of its release, whatever
\* was configured, replaced, restored or interrupted before it started.
THEOREM RunsOnSchema == Spec => []RunsOnItsSchema
<1>1. Inv => RunsOnItsSchema
  BY DEF Inv
<1> QED BY <1>1, InvInit, InvNext, PTL DEF Spec

-----------------------------------------------------------------------------
(* What a configured server has.                                           *)

\* The database can be answered from with configuration e.
Sound(d, e) == d.whole /\ d.records # "none" /\ d.secrets \subseteq {e.secret}

\* The command that runs has not touched the database.
Untouched ==
  \/ op = Idle \/ op.cmd = "upgrade"
  \/ op.cmd \in {"import"} \cup Scripted /\ op.step \in {"backup", "restore"}

Usable == env # None /\ Untouched /\ ~broken => Sound(db, env)

\* Between restore and migration the database is the package's, and the configuration has
\* its secret once it was written or merged; a backup is restored with the secret that is
\* there.
Replaced ==
  op.cmd \in WithPackage /\ op.step \in {"merge", "migrate"} => db = op.package.backup
Moved ==
  (op.cmd = "import" /\ op.step = "migrate") \/ (op.cmd = "take over" /\ op.step # "write") \/ op.cmd = "restore"
    => env # None /\ env.secret = op.package.secret

\* Before its first configuration is complete, a server has nothing of its own.
NotYetOwn ==
  env = None \/ op.cmd \in {"configure", "take over"}
    => /\ (db.records = "none" /\ db.secrets = {}) \/ db.records = "other"
       /\ \A p \in packages : p.backup.records = "other"

ServiceReads == service # None => service = env

Sane == Usable /\ Replaced /\ Moved /\ NotYetOwn /\ ServiceReads

LEMMA SaneInit == Init => Sane
<1> SUFFICES ASSUME Init PROVE Sane
  OBVIOUS
<1>1. env = None /\ service = None /\ op.cmd = "idle" /\ db = Empty
      /\ packages = {[backup |-> OtherDatabase, secret |-> OtherSecret]}
  BY DEF Init, Idle
<1>2. db.records = "none" /\ db.secrets = {} /\ \A p \in packages : p.backup.records = "other"
  BY <1>1 DEF Empty, OtherDatabase
<1> QED BY <1>1, <1>2 DEF Sane, Usable, Replaced, Moved, NotYetOwn, ServiceReads, WithPackage

\* What a restore does to the database.
LEMMA RestoreBeginsOn ==
  ASSUME Inv, RestoreBegins
  PROVE  db'.secrets = db.secrets /\ db'.records = db.records /\ ~db'.whole
<1>1. db \in Database
  BY DEF Inv, Types, TypeOK
<1> QED BY <1>1 DEF RestoreBegins, Database

LEMMA RestoreEndsWith ==
  ASSUME Inv, RestoreEnds
  PROVE  op.package \in packages /\ db' = op.package.backup /\ UNCHANGED <<backups, packages>>
<1>1. op.package \in packages
  BY Carries DEF RestoreEnds, WithPackage, Inv, Types
<1> QED BY <1>1 DEF RestoreEnds

\* How the command in hand goes on.
LEMMA CommandEnds ==
  ASSUME WriteFails \/ ConfigureFails \/ CommandFails \/ Initialize \/ Crash \/ ScriptEnds
  PROVE  op' = Idle /\ op'.cmd = "idle"
<1>1. op' = Idle
  BY Zenon DEF WriteFails, ConfigureFails, CommandFails, Initialize, Crash, ScriptEnds
<1> QED BY <1>1 DEF Idle

LEMMA CommandBegins ==
  ASSUME Provision \/ BeginImport \/ BeginUpgrade \/ BeginScript
  PROVE  /\ op = Idle /\ op.cmd = "idle" /\ db' = db /\ env' = env /\ packages' = packages /\ broken' = broken
         /\ \/ Provision /\ env = None /\ op'.cmd \in {"configure", "take over"} /\ op'.step = "write"
            \/ env # None /\ op'.cmd = "import" /\ op'.step = "backup"
            \/ env # None /\ op'.cmd = "upgrade"
            \/ env # None /\ op'.cmd = "restore package" /\ op'.step = "restore"
            \/ env # None /\ op'.cmd = "restore" /\ op'.step = "restore" /\ op'.package.secret = env.secret
<1>0. op = Idle
  BY Zenon DEF Provision, BeginImport, BeginUpgrade, BeginScript, Begins
<1>1. op = Idle /\ op.cmd = "idle"
  BY <1>0 DEF Idle
<1>2. CASE Provision
  <2>1. env = None /\ UNCHANGED <<env, db, packages, broken>>
    BY <1>2, Zenon DEF Provision
  <2>2. \/ op' = [cmd |-> "configure", step |-> "write"]
        \/ \E p \in packages : op' = [cmd |-> "take over", step |-> "write", package |-> p]
    BY <1>2, Zenon DEF Provision
  <2>3. op'.cmd \in {"configure", "take over"} /\ op'.step = "write"
    <3>1. CASE op' = [cmd |-> "configure", step |-> "write"]
      BY <3>1
    <3>2. CASE \E p \in packages : op' = [cmd |-> "take over", step |-> "write", package |-> p]
      <4>1. PICK p \in packages : op' = [cmd |-> "take over", step |-> "write", package |-> p]
        BY <3>2
      <4> QED BY <4>1
    <3> QED BY <2>2, <3>1, <3>2
  <2> QED BY <1>1, <1>2, <2>1, <2>3
<1>3. CASE BeginImport
  <2>1. env # None /\ UNCHANGED <<env, db, packages, broken>>
    BY <1>3, Zenon DEF BeginImport, config
  <2>2. op'.cmd = "import" /\ op'.step = "backup"
    BY <1>3 DEF BeginImport
  <2> QED BY <1>1, <2>1, <2>2
<1>4. CASE BeginUpgrade
  <2>1. env # None /\ UNCHANGED <<env, db, packages, broken>>
    BY <1>4, Zenon DEF BeginUpgrade, config
  <2>2. op'.cmd = "upgrade"
    BY <1>4 DEF BeginUpgrade
  <2> QED BY <1>1, <2>1, <2>2
<1>5. CASE BeginScript
  <2>1. env # None /\ UNCHANGED <<env, db, packages, broken>>
    BY <1>5, Zenon DEF BeginScript, config
  <2>2. \/ op'.cmd = "restore package" /\ op'.step = "restore"
        \/ op'.cmd = "restore" /\ op'.step = "restore" /\ op'.package.secret = env.secret
    <3>1. CASE \E p \in packages : op' = [cmd |-> "restore package", step |-> "restore", package |-> p]
      <4>1. PICK p \in packages : op' = [cmd |-> "restore package", step |-> "restore", package |-> p]
        BY <3>1
      <4> QED BY <4>1
    <3>2. CASE \E b \in backups :
                 op' = [cmd |-> "restore", step |-> "restore", package |-> [backup |-> b, secret |-> env.secret]]
      BY <3>2
    <3> QED BY <1>5, <3>1, <3>2 DEF BeginScript
  <2> QED BY <1>1, <2>1, <2>2
<1> QED BY <1>2, <1>3, <1>4, <1>5

LEMMA CommandGoesOn ==
  ASSUME Inv, WriteConfig \/ Backup \/ RestoreBegins \/ RestoreEnds \/ MergeConfig
  PROVE  /\ op'.cmd = op.cmd /\ op.cmd \in Plain \cup WithBackup /\ UNCHANGED <<packages, service, broken>>
         /\ op.cmd \in WithPackage => op.package \in packages /\ op'.package = op.package
         /\ op.cmd = "restore" => op'.package = op.package
         /\ WriteConfig => op'.step = (IF op.cmd = "take over" THEN "restore" ELSE "migrate")
         /\ Backup => op'.step = (IF op.cmd = "import" THEN "restore" ELSE "migrate")
         /\ RestoreBegins => op'.step = "restoring"
         /\ RestoreEnds => op'.step = (IF op.cmd = "take over" THEN "migrate" ELSE "merge")
         /\ MergeConfig => op'.step = "migrate"
<1>1. op # Idle /\ UNCHANGED <<packages, service, broken>>
  BY NotIdle DEF WriteConfig, Backup, RestoreBegins, RestoreEnds, MergeConfig, At, Scripted
<1>2. Running
  BY DEF Inv, Types
<1>3. PICK s \in Step :
        /\ GoTo(s)
        /\ WriteConfig => s = (IF op.cmd = "take over" THEN "restore" ELSE "migrate")
        /\ Backup => s = (IF op.cmd = "import" THEN "restore" ELSE "migrate")
        /\ RestoreBegins => s = "restoring"
        /\ RestoreEnds => s = (IF op.cmd = "take over" THEN "migrate" ELSE "merge")
        /\ MergeConfig => s = "migrate"
  BY DEF WriteConfig, Backup, RestoreBegins, RestoreEnds, MergeConfig, At, Step
<1>4. /\ op'.cmd = op.cmd /\ op'.step = s /\ op.cmd \in Plain \cup WithBackup
      /\ op.cmd \in WithPackage => op.package \in packages /\ op'.package = op.package
      /\ op.cmd = "restore" => op'.package = op.package
  BY <1>1, <1>2, <1>3, GoesTo
<1> QED BY <1>1, <1>3, <1>4

\* With no command at work, and only then, the service runs.
LEMMA NoCommand ==
  ASSUME Inv, Serve \/ StoreCredential \/ Use \/ ExportPackage
  PROVE  op = Idle /\ op' = Idle /\ op'.cmd = "idle" /\ env # None /\ UNCHANGED <<config, op, broken>>
<1>1. Idle.cmd = "idle"
  BY DEF Idle
<1>2. CASE Serve \/ ExportPackage
  BY <1>1, <1>2 DEF Serve, ExportPackage, Begins, Connects
<1>3. CASE StoreCredential \/ Use
  <2>1. service # None /\ UNCHANGED <<config, op, broken>>
    BY <1>3 DEF StoreCredential, Use
  <2>2. op = Idle /\ env # None
    BY <2>1 DEF Inv, Commands, RunsOnItsSchema, Ready, Connects
  <2> QED BY <1>1, <2>1, <2>2
<1> QED BY <1>2, <1>3

LEMMA ReplacedNext == ASSUME Inv, Replaced, [Next]_vars PROVE Replaced'
<1> USE DEF Replaced, WithPackage
<1>1. CASE WriteFails \/ ConfigureFails \/ CommandFails \/ Initialize \/ Crash \/ ScriptEnds
  BY <1>1, CommandEnds
<1>2. CASE Provision \/ BeginImport \/ BeginUpgrade \/ BeginScript
  BY <1>2, CommandBegins
<1>3. CASE Serve \/ StoreCredential \/ Use \/ ExportPackage
  BY <1>3, NoCommand
<1>4. CASE WriteConfig
  <2>1. op.cmd \in {"configure", "take over"}
    BY <1>4 DEF WriteConfig
  <2> QED BY <1>4, <2>1, CommandGoesOn
<1>5. CASE Backup
  <2>1. op.cmd \in {"import", "upgrade"}
    BY <1>5 DEF Backup
  <2> QED BY <1>5, <2>1, CommandGoesOn
<1>6. CASE RestoreBegins
  BY <1>6, CommandGoesOn
<1>7. CASE RestoreEnds
  BY <1>7, CommandGoesOn, RestoreEndsWith
<1>8. CASE MergeConfig
  <2>1. op.cmd = "import" /\ op.step = "merge" /\ db' = db
    BY <1>8 DEF MergeConfig, At
  <2> QED BY <1>8, <2>1, CommandGoesOn
<1>9. CASE UNCHANGED vars
  BY <1>9 DEF vars
<1> QED BY <1>1, <1>2, <1>3, <1>4, <1>5, <1>6, <1>7, <1>8, <1>9 DEF Next

LEMMA MovedNext == ASSUME Inv, Moved, [Next]_vars PROVE Moved'
<1> USE DEF Moved
<1>0. env \in Config \cup {None} /\ packages \subseteq Package
  BY DEF Inv, Types, TypeOK, Config
<1>1. CASE WriteFails \/ ConfigureFails \/ CommandFails \/ Initialize \/ Crash \/ ScriptEnds
  BY <1>1, CommandEnds
<1>2. CASE Provision \/ BeginImport \/ BeginUpgrade \/ BeginScript
  BY <1>2, CommandBegins
<1>3. CASE Serve \/ StoreCredential \/ Use \/ ExportPackage
  BY <1>3, NoCommand
<1>4. CASE WriteConfig
  <2>1. op.cmd \in {"configure", "take over"}
    BY <1>4 DEF WriteConfig
  <2>2. PICK s \in Written : env' = [secret |-> s, password |-> role]
    BY <1>4 DEF WriteConfig
  <2>3. env' # None
    BY <2>1, <2>2, WrittenConfig, Bounds DEF Config
  <2>4. CASE op.cmd = "take over"
    <3>1. s = op.package.secret /\ op'.package = op.package
      BY <1>4, <2>2, <2>4, CommandGoesOn DEF Written, WithPackage
    <3> QED BY <2>2, <2>3, <3>1
  <2> QED BY <1>4, <2>1, <2>4, CommandGoesOn
<1>5. CASE Backup
  <2>1. op.cmd \in {"import", "upgrade"}
    BY <1>5 DEF Backup
  <2> QED BY <1>5, <2>1, CommandGoesOn
<1>6. CASE RestoreBegins \/ RestoreEnds
  <2>1. op.cmd \in WithBackup /\ op.step \in {"restore", "restoring"} /\ env' = env
    BY <1>6 DEF RestoreBegins, RestoreEnds, WithPackage, WithBackup, Scripted, config
  <2>2. op'.cmd = op.cmd /\ op'.package = op.package /\ (op.cmd = "import" => op'.step # "migrate")
    BY <1>6, <2>1, CommandGoesOn DEF WithBackup
  <2> QED BY <2>1, <2>2
<1>8. CASE MergeConfig
  <2>1. op.cmd = "import" /\ env' = [env EXCEPT !.secret = op.package.secret]
    BY <1>8 DEF MergeConfig, At
  <2>2. env \in Config /\ op.package \in packages /\ op'.package = op.package /\ op'.cmd = "import"
    BY <1>0, <1>8, <2>1, CommandGoesOn DEF Inv, Commands, WithPackage
  <2>3. env' \in Config /\ env'.secret = op.package.secret
    BY <1>0, <2>1, <2>2 DEF Config, Package
  <2> QED BY <2>2, <2>3, Bounds DEF Config
<1>9. CASE UNCHANGED vars
  BY <1>9 DEF vars, config
<1> QED BY <1>1, <1>2, <1>3, <1>4, <1>5, <1>6, <1>8, <1>9 DEF Next

LEMMA ServiceReadsNext == ASSUME Inv, ServiceReads, [Next]_vars PROVE ServiceReads'
<1> USE DEF ServiceReads
<1>1. op # Idle => service = None
  BY DEF Inv, Commands
<1>2. CASE BeginImport \/ BeginScript \/ BeginUpgrade \/ Crash
  BY <1>2 DEF BeginImport, BeginScript, BeginUpgrade, Crash
<1>3. CASE Serve
  BY <1>3 DEF Serve, config
<1>4. CASE Provision \/ StoreCredential \/ Use \/ ExportPackage \/ UNCHANGED vars
  <2>1. UNCHANGED <<env, service>>
    BY <1>4, Zenon DEF Provision, StoreCredential, Use, ExportPackage, vars, config
  <2> QED BY <2>1
<1>5. CASE \/ WriteConfig \/ WriteFails \/ ConfigureFails \/ Backup \/ RestoreBegins \/ RestoreEnds \/ MergeConfig
           \/ ScriptEnds \/ CommandFails \/ Initialize
  <2>1. op # Idle
    BY <1>5, NotIdle DEF WriteConfig, WriteFails, ConfigureFails, Backup, RestoreBegins, RestoreEnds,
         MergeConfig, At, ScriptEnds, CommandFails, Initialize, Scripted
  <2>2. service' = service
    BY <1>5 DEF WriteConfig, WriteFails, ConfigureFails, Backup, RestoreBegins, RestoreEnds, MergeConfig,
         ScriptEnds, CommandFails, Initialize
  <2> QED BY <1>1, <2>1, <2>2
<1> QED BY <1>2, <1>3, <1>4, <1>5 DEF Next

LEMMA NotYetOwnNext ==
  ASSUME Inv, Replaced, NotYetOwn, [Next]_vars
  PROVE  NotYetOwn'
<1> USE DEF NotYetOwn
<1> DEFINE Open == env = None \/ op.cmd \in {"configure", "take over"}
<1>0. db \in Database
  BY DEF Inv, Types, TypeOK
<1>1. CASE db' = db /\ packages' = packages /\ (Open' => Open)
  BY <1>1
<1>2. CASE WriteFails \/ ConfigureFails \/ CommandFails \/ Crash
  <2>1. db' = db /\ packages' = packages /\ op'.cmd = "idle"
    BY <1>2, CommandEnds DEF WriteFails, ConfigureFails, CommandFails, Crash
  <2>2. WriteFails \/ ConfigureFails \/ env' = env
    BY <1>2 DEF CommandFails, Crash, config
  <2>3. WriteFails \/ ConfigureFails => Open
    BY DEF WriteFails, ConfigureFails
  <2> QED BY <1>1, <2>1, <2>2, <2>3
<1>a. CASE ScriptEnds
  <2>1. op.cmd \in Scripted
    BY <1>a DEF ScriptEnds, At, Scripted
  <2>2. op'.cmd = "idle" /\ env' # None
    <3>1. env \in Config /\ op.package \in Package
      BY <2>1, CarriesOne
         DEF Inv, Types, TypeOK, Commands, Config, WithBackup, WithPackage, Scripted
    <3>2. env' = env \/ env' = [env EXCEPT !.secret = op.package.secret]
      BY <1>a DEF ScriptEnds
    <3>3. env' \in Config
      BY <3>1, <3>2 DEF Config, Package
    <3> QED BY <1>a, <3>3, CommandEnds, Bounds DEF Config
  <2> QED BY <2>2
<1>3. CASE Provision \/ BeginImport \/ BeginUpgrade \/ BeginScript
  BY <1>1, <1>3, CommandBegins
<1>4. CASE Serve \/ StoreCredential \/ Use \/ ExportPackage \/ Initialize
  <2>1. env' # None /\ op'.cmd = "idle"
    BY <1>4, NoCommand, CommandEnds DEF Initialize, Connects, config
  <2> QED BY <2>1
<1>5. CASE WriteConfig
  <2>1. Open /\ db' = db
    BY <1>5 DEF WriteConfig
  <2> QED BY <1>1, <1>5, <2>1, CommandGoesOn
<1>6. CASE Backup \/ MergeConfig
  <2>1. op.cmd \in {"import", "upgrade"} /\ db' = db /\ Running'
    BY <1>6, CommandNext DEF Backup, MergeConfig, At
  <2>2. env' # None
    BY <2>1, <1>6, CommandNext, CommandGoesOn DEF Commands
  <2> QED BY <1>6, <2>1, <2>2, CommandGoesOn
<1>7. CASE RestoreBegins
  <2>1. db'.records = db.records /\ db'.secrets = db.secrets /\ env' = env
    BY <1>7, RestoreBeginsOn DEF RestoreBegins, config
  <2> QED BY <1>7, <2>1, CommandGoesOn
<1>8. CASE RestoreEnds
  <2>1. op.package \in packages /\ db' = op.package.backup /\ env' = env
    BY <1>8, RestoreEndsWith DEF RestoreEnds, config
  <2> QED BY <1>8, <2>1, CommandGoesOn
<1>9. CASE UNCHANGED vars
  BY <1>9 DEF vars, config
<1> QED BY <1>2, <1>a, <1>3, <1>4, <1>5, <1>6, <1>7, <1>8, <1>9 DEF Next

\* Where initialization succeeds, the database is whole and has an administrator.
LEMMA InitializedIs ==
  ASSUME Inv, NEW w \in BOOLEAN, db' \in Initialized(db, w)
  PROVE  /\ db.whole /\ db'.whole /\ db'.secrets = db.secrets /\ db'.records # "none"
         /\ w => db.records \in {"none", "admin"}
<1>1. db \in Database
  BY DEF Inv, Types, TypeOK
<1>2. PICK r \in Seeded(db, w) : db.whole /\ db' = [db EXCEPT !.schema = release, !.records = r]
  BY DEF Initialized
<1>3. r # "none" /\ (w => db.records \in {"none", "admin"})
  BY <1>1, <1>2 DEF Seeded, Database, Records
<1> QED BY <1>1, <1>2, <1>3 DEF Database

LEMMA UsableNext ==
  ASSUME Inv, Sane, [Next]_vars
  PROVE  Usable'
<1> USE DEF Usable, Untouched, Scripted
<1>0. db \in Database /\ Usable
  BY DEF Inv, Types, TypeOK, Sane
<1>1. CASE WriteFails \/ ConfigureFails
  BY <1>1 DEF WriteFails, ConfigureFails
<1>2. CASE CommandFails \/ Crash
  <2>1. UNCHANGED <<env, db>>
    BY <1>2 DEF CommandFails, Crash, config
  <2>2. ~broken' => ~broken
    BY <1>2, Zenon DEF CommandFails, Crash
  <2>3. ~broken' => Untouched
    <3>1. op.cmd \in {"idle", "configure", "upgrade", "take over", "import", "restore", "restore package"}
      BY Cmds DEF Inv, Types, Plain, WithPackage, WithBackup
    <3>2. op.cmd = "idle" => op = Idle
      BY IdleCommand DEF Inv, Types
    <3> QED BY <1>2, <3>1, <3>2, Zenon DEF CommandFails, Crash, HalfDone
  <2> QED BY <1>0, <2>1, <2>2, <2>3 DEF Sound
<1>a. CASE ScriptEnds
  <2>1. op.cmd \in {"restore", "restore package"} /\ broken' = ~(Fits(op.package) /\ op.package.backup.whole /\ op.package.backup.records # "none")
    BY <1>a DEF ScriptEnds, At
  <2>2. env \in Config /\ op.package \in Package
    BY <2>1, CarriesOne
       DEF Inv, Types, TypeOK, Commands, Config, WithBackup, WithPackage
  <2>3. db' = op.package.backup /\ env'.secret = op.package.secret
    <3>1. CASE At("restore", "restoring") /\ db' = op.package.backup /\ env' = env
      BY <3>1 DEF At, Sane, Moved
    <3>2. CASE At("restore package", "merge") /\ env' = [env EXCEPT !.secret = op.package.secret] /\ db' = db
      BY <2>2, <3>2 DEF At, Sane, Replaced, WithPackage, Config
    <3> QED BY <1>a, <3>1, <3>2 DEF ScriptEnds
  <2> QED BY <2>1, <2>3 DEF Sound, Fits
<1>3. CASE Provision \/ BeginImport \/ BeginUpgrade \/ BeginScript
  BY <1>0, <1>3, CommandBegins DEF Sound
<1>4. CASE WriteConfig \/ MergeConfig \/ RestoreBegins \/ RestoreEnds
  <2>1. \/ op'.cmd \in {"configure", "take over"}
        \/ op'.cmd \in {"import"} \cup Scripted /\ op'.step \notin {"backup", "restore"}
    <3>1. CASE WriteConfig
      <4>1. op.cmd \in {"configure", "take over"}
        BY <3>1 DEF WriteConfig
      <4> QED BY <3>1, <4>1, CommandGoesOn
    <3>2. CASE MergeConfig \/ RestoreBegins \/ RestoreEnds
      <4>1. op.cmd \in {"take over", "import"} \cup Scripted
        BY <3>2 DEF MergeConfig, At, RestoreBegins, RestoreEnds
      <4> QED BY <3>2, <4>1, CommandGoesOn
    <3> QED BY <1>4, <3>1, <3>2
  <2>2. Idle.cmd = "idle"
    BY DEF Idle
  <2> QED BY <2>1, <2>2
<1>5. CASE Backup
  <2>1. op.cmd \in {"import", "upgrade"} /\ op.step = "backup" /\ UNCHANGED <<env, db, broken>>
    BY <1>5 DEF Backup, config
  <2> QED BY <1>0, <2>1 DEF Sound
<1>6. CASE Initialize
  <2>1. PICK w \in BOOLEAN : w = (op.cmd = "configure") /\ db' \in Initialized(db, w)
    BY <1>6 DEF Initialize
  <2>2. /\ db.whole /\ db'.whole /\ db'.secrets = db.secrets /\ db'.records # "none"
        /\ w => db.records \in {"none", "admin"}
    BY <2>1, InitializedIs
  <2>3. op.step = "migrate" /\ env' = env /\ env # None
    BY <1>6 DEF Initialize, Connects, config
  <2>4. ASSUME ~broken' PROVE db.secrets \subseteq {env.secret}
    <3>1. op.cmd \in {"configure", "upgrade", "take over", "import"}
      BY <1>6 DEF Initialize
    <3>2. CASE op.cmd = "configure"
      <4>1. db.records \in {"none", "admin"}
        BY <2>1, <2>2, <3>2, Zenon
      <4>2. db.secrets = {}
        BY <3>2, <4>1 DEF Sane, NotYetOwn
      <4> QED BY <4>2
    <3>3. CASE op.cmd = "upgrade"
      <4>1. ~broken
        BY <1>6, <2>4, <3>3 DEF Initialize
      <4> QED BY <1>0, <2>3, <3>3, <4>1 DEF Sound
    <3>4. CASE op.cmd \in {"take over", "import"}
      <4>1. Fits(op.package)
        BY <1>6, <2>4, <3>4 DEF Initialize, WithPackage
      <4>2. db = op.package.backup /\ env.secret = op.package.secret
        <5>1. Replaced /\ Moved
          BY DEF Sane
        <5> QED BY <2>3, <3>4, <5>1 DEF Replaced, Moved, WithPackage
      <4> QED BY <4>1, <4>2 DEF Fits
    <3> QED BY <3>1, <3>2, <3>3, <3>4
  <2>5. env' # None /\ ~broken' => Sound(db', env')
    BY <2>2, <2>3, <2>4, Zenon DEF Sound
  <2> QED BY <2>5
<1>7. CASE Serve
  <2>1. op = Idle /\ env # None /\ UNCHANGED <<env, broken>>
    BY <1>7 DEF Serve, Connects, config
  <2>3. PICK w \in BOOLEAN : db' \in Initialized(db, w)
    BY <1>7 DEF Serve
  <2>2. db'.whole /\ db'.secrets = db.secrets /\ db'.records # "none"
    BY <2>3, InitializedIs
  <2> QED BY <1>0, <2>1, <2>2 DEF Sound
<1>8. CASE StoreCredential \/ Use
  <2>1. op = Idle /\ env # None /\ UNCHANGED <<env, broken>>
    BY <1>8, NoCommand DEF config
  <2>2. service = env
    BY <1>8 DEF StoreCredential, Use, Sane, ServiceReads
  <2>3. db'.whole = db.whole /\ db'.secrets \subseteq db.secrets \cup {env.secret}
        /\ (db.records # "none" => db'.records # "none")
    BY <1>0, <1>8, <2>2 DEF StoreCredential, Use, Database
  <2> QED BY <1>0, <2>1, <2>3 DEF Sound
<1>9. CASE ExportPackage \/ UNCHANGED vars
  BY <1>0, <1>9 DEF ExportPackage, vars, config, Sound
<1> QED BY <1>1, <1>2, <1>a, <1>3, <1>4, <1>5, <1>6, <1>7, <1>8, <1>9 DEF Next

LEMMA SaneNext == Inv /\ Sane /\ [Next]_vars => Sane'
BY UsableNext, ReplacedNext, MovedNext, NotYetOwnNext, ServiceReadsNext DEF Sane

\* A server that has a configuration has a whole database with its administrator, whatever
\* was configured, taken over, imported, restored or upgraded, unless a failure or an
\* interruption that nothing cleans up has left it broken.
THEOREM ConfiguredWorks == Spec => []ConfiguredIsUsable
<1>1. Sane => ConfiguredIsUsable
  BY DEF Sane, Usable, Untouched, Sound, ConfiguredIsUsable
<1> QED BY <1>1, InvInit, InvNext, SaneInit, SaneNext, PTL DEF Spec

\* The credentials in its database can be read with the secret of its configuration.
THEOREM SecretTravels == Spec => []CredentialsReadable
<1>1. Sane => CredentialsReadable
  BY DEF Sane, Usable, Untouched, Sound, CredentialsReadable
<1> QED BY <1>1, InvInit, InvNext, SaneInit, SaneNext, PTL DEF Spec
-----------------------------------------------------------------------------
(* Records of this server.                                                 *)

\* What an import is about to restore over is in a backup.  A database that is being
\* restored is no longer whole.
BackedUp ==
  op.cmd = "import" => /\ op.step = "restore" => db \in backups
                       /\ op.step = "restoring" => ~db.whole

\* Migrations, the service and its users keep what is there.
LEMMA OthersKeep ==
  ASSUME Inv, Initialize \/ Serve \/ StoreCredential \/ Use, db.records = "own"
  PROVE  db'.records = "own" /\ db'.whole
<1>1. db \in Database
  BY DEF Inv, Types, TypeOK
<1>2. ASSUME NEW w \in BOOLEAN, db' \in Initialized(db, w)
      PROVE  db'.records = "own" /\ db'.whole
  <2>1. PICK r \in Seeded(db, w) : db.whole /\ db' = [db EXCEPT !.schema = release, !.records = r]
    BY <1>2 DEF Initialized
  <2>2. r = "own"
    BY <1>1, <2>1 DEF Seeded, Database, Records
  <2> QED BY <1>1, <2>1, <2>2 DEF Database
<1>3. CASE Initialize \/ Serve
  BY <1>2, <1>3 DEF Initialize, Serve
<1>4. CASE StoreCredential \/ Use
  <2>1. db.whole
    BY <1>4 DEF StoreCredential, Use, Inv, RunsOnItsSchema
  <2> QED BY <1>1, <1>4, <2>1 DEF StoreCredential, Use, Database
<1> QED BY <1>3, <1>4

LEMMA BackedUpNext == ASSUME Inv, BackedUp, [Next]_vars PROVE BackedUp'
<1> USE DEF BackedUp
<1>1. CASE WriteFails \/ ConfigureFails \/ CommandFails \/ Initialize \/ Crash \/ ScriptEnds
  BY <1>1, CommandEnds
<1>2. CASE Provision \/ BeginImport \/ BeginUpgrade \/ BeginScript
  BY <1>2, CommandBegins
<1>3. CASE Serve \/ StoreCredential \/ Use \/ ExportPackage
  BY <1>3, NoCommand
<1>4. CASE WriteConfig
  BY <1>4, CommandGoesOn DEF WriteConfig
<1>5. CASE Backup
  BY <1>5, CommandGoesOn DEF Backup
<1>6. CASE RestoreBegins
  BY <1>6, CommandGoesOn, RestoreBeginsOn
<1>7. CASE RestoreEnds
  BY <1>7, CommandGoesOn
<1>8. CASE MergeConfig
  BY <1>8, CommandGoesOn
<1>9. CASE UNCHANGED vars
  BY <1>9 DEF vars
<1> QED BY <1>1, <1>2, <1>3, <1>4, <1>5, <1>6, <1>7, <1>8, <1>9 DEF Next

\* Before a command of the packaged program takes whole records of this server, or leaves
\* them half restored, a backup has them with the credentials they need: an import makes
\* one, and a takeover begins where there is nothing of this server.
THEOREM RecordsBackedUp == Spec => OwnRecordsBackedUp
<1> DEFINE Taken == db.records = "own" /\ db.whole /\ ~(db'.records = "own" /\ db'.whole) /\ op.cmd \notin Scripted
           Had == \E b \in backups : b.records = "own" /\ b.whole /\ b.secrets = db.secrets
<1>1. Init => BackedUp
  BY DEF Init, Idle, BackedUp
<1>2. Inv /\ Sane /\ BackedUp /\ [Next]_vars => (Taken => Had)
  <2> SUFFICES ASSUME Inv, Sane, BackedUp, [Next]_vars, Taken PROVE Had
    OBVIOUS
  <2>1. ~(Initialize \/ Serve \/ StoreCredential \/ Use) /\ db' # db
    BY OthersKeep
  <2>2. RestoreBegins \/ RestoreEnds
    <3>1. ~ScriptEnds
      BY DEF ScriptEnds, At, Scripted
    <3> QED BY <2>1, <3>1 DEF Next, vars, Provision, WriteConfig, WriteFails, ConfigureFails, BeginImport, Backup,
         MergeConfig, CommandFails, BeginScript, ExportPackage, BeginUpgrade, Crash
  <2>3. op.cmd # "take over"
    BY DEF Sane, NotYetOwn
  <2>4. op.cmd = "import" /\ op.step \in {"restore", "restoring"}
    BY <2>2, <2>3 DEF RestoreBegins, RestoreEnds, Scripted
  <2>5. db \in backups
    BY <2>4 DEF BackedUp
  <2> QED BY <2>5
<1>3. Spec => [](Inv /\ Sane /\ BackedUp)
  BY <1>1, InvInit, InvNext, SaneInit, SaneNext, BackedUpNext, PTL DEF Spec
<1>4. Spec => [][Taken => Had]_vars
  BY <1>2, <1>3, PTL DEF Spec
<1> QED BY <1>4 DEF OwnRecordsBackedUp
=============================================================================
