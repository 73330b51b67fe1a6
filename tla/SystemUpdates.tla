---------------------------- MODULE SystemUpdates ----------------------------
(***************************************************************************)
(* Signed offline updates: update_api.py, system_updates.py, the script    *)
(* apply-update.cmd that launch_installer writes, and the Windows task     *)
(* that runs it.  A release is uploaded, staged in a directory of its own  *)
(* and recorded; an install request backs the database up, marks the row   *)
(* Installing and starts the task, which (unless the release is a          *)
(* component update) stops the very server that started it.  Whoever opens *)
(* the list of updates reconciles Installing rows with what the installer  *)
(* left behind: exit-code.txt, installation.log and the running version.   *)
(***************************************************************************)
EXTENDS Integers, FiniteSets

CONSTANTS
  Package,       \* signed releases offered to the server
  VersionOf,     \* the version each package declares
  Component,     \* the packages that declare component_update
  FirstVersion,  \* the version the server runs at first
  Request,       \* request threads of the server
  Patience       \* 30 minutes, in clock ticks

ASSUME UpdateAssumption ==
  /\ VersionOf \in [Package -> Nat]
  /\ Component \subseteq Package
  /\ FirstVersion \in Nat
  /\ Patience \in Nat

VARIABLES
  status,     \* of each package's row, "none" before it is recorded
  age,        \* ticks since installation_started_at
  backup,     \* packages whose row names a verified backup
  staged,     \* packages whose release directory exists
  exitFile,   \* what exit-code.txt of each release directory says
  exitLog,    \* the last exit code in installation.log
  task,       \* the Windows task of each release
  applied,    \* packages whose payload the installer put in place
  up,         \* the server process runs
  running,    \* its __version__
  installed,  \* the version of the files it would start from
  req         \* the requests in progress

rows == <<status, age, backup>>
files == <<staged, exitFile, exitLog>>
server == <<up, running, installed>>
vars == <<rows, files, task, applied, server, req>>

Status == {"none", "Validated", "Installing", "Failed", "Installed"}
ExitCode == {"absent", "zero", "nonzero"}
TaskState == {"idle", "waiting", "installing", "succeeded", "failed"}
NoPackage == "noPackage"
Idle == [op |-> "idle", pkg |-> NoPackage]
RequestStep == {"verified", "staged", "checked", "marked"}

TypeOK ==
  /\ status \in [Package -> Status]
  /\ age \in [Package -> 0 .. Patience + 1]
  /\ backup \subseteq Package
  /\ staged \subseteq Package
  /\ exitFile \in [Package -> ExitCode]
  /\ exitLog \in [Package -> ExitCode]
  /\ task \in [Package -> TaskState]
  /\ applied \subseteq Package
  /\ up \in BOOLEAN
  /\ running \in Nat
  /\ installed \in Nat
  /\ req \in [Request -> [op : RequestStep, pkg : Package] \cup {Idle}]

Init ==
  /\ status = [p \in Package |-> "none"]
  /\ age = [p \in Package |-> 0]
  /\ backup = {}
  /\ staged = {}
  /\ exitFile = [p \in Package |-> "absent"]
  /\ exitLog = [p \in Package |-> "absent"]
  /\ task = [p \in Package |-> "idle"]
  /\ applied = {}
  /\ up = TRUE
  /\ running = FirstVersion
  /\ installed = FirstVersion
  /\ req = [r \in Request |-> Idle]

-----------------------------------------------------------------------------
(* Requests run in threads of the server and end with it.                  *)

At(r, op, p) == up /\ req[r] = [op |-> op, pkg |-> p]
GoTo(r, op, p) == req' = [req EXCEPT ![r] = [op |-> op, pkg |-> p]]
Return(r) == req' = [req EXCEPT ![r] = Idle]
AllKilled == [r \in Request |-> Idle]

\* The rows with this version or package: both columns are unique.
Recorded(p) == \E q \in Package : status[q] # "none" /\ VersionOf[q] = VersionOf[p]

\* upload_update: stream_to_staging, verify_package and the look for a row.
BeginUpload(r, p) ==
  /\ up /\ req[r] = Idle
  /\ VersionOf[p] > running
  /\ ~Recorded(p)
  /\ GoTo(r, "verified", p)
  /\ UNCHANGED <<rows, files, task, applied, server>>

\* finalize_staging: an existing release directory is left alone.
StageRelease(r, p) ==
  /\ At(r, "verified", p)
  /\ p \notin staged
  /\ staged' = staged \cup {p}
  /\ GoTo(r, "staged", p)
  /\ UNCHANGED <<rows, exitFile, exitLog, task, applied, server>>

\* It is refused when the directory exists, and undone when the extraction fails.
StagingRefused(r, p) ==
  /\ At(r, "verified", p)
  /\ Return(r)
  /\ UNCHANGED <<rows, files, task, applied, server>>

\* The insert, or the IntegrityError of whoever comes second.
CommitUpload(r, p) ==
  /\ At(r, "staged", p)
  /\ status' = IF Recorded(p) THEN status ELSE [status EXCEPT ![p] = "Validated"]
  /\ Return(r)
  /\ UNCHANGED <<age, backup, files, task, applied, server>>

-----------------------------------------------------------------------------
(* install_update.                                                         *)

\* Mutant of Installable: no version check.
InstallableAnyVersion(p) == status[p] \in {"Validated", "Failed"}

Installable(p) == status[p] \in {"Validated", "Failed"} /\ VersionOf[p] > running

BeginInstall(r, p) ==
  /\ up /\ req[r] = Idle
  /\ Installable(p)
  /\ GoTo(r, "checked", p)
  /\ UNCHANGED <<rows, files, task, applied, server>>

\* create_backup has taken its time; then the row is marked and committed.
MarkInstalling(r, p) ==
  /\ At(r, "checked", p)
  /\ p \in staged
  /\ status' = [status EXCEPT ![p] = "Installing"]
  /\ age' = [age EXCEPT ![p] = 0]
  /\ backup' = backup \cup {p}
  /\ GoTo(r, "marked", p)
  /\ UNCHANGED <<files, task, applied, server>>

\* Mutant of Launch: the installer is started before the backup was taken.
LaunchUnmarked(r, p) ==
  /\ At(r, "checked", p) \/ At(r, "marked", p)
  /\ task' = [task EXCEPT ![p] = IF @ = "idle" THEN "waiting" ELSE @]
  /\ exitLog' = [exitLog EXCEPT ![p] = "absent"]
  /\ Return(r)
  /\ UNCHANGED <<rows, staged, exitFile, applied, server>>

\* launch_installer: schtasks /Create /F and /Run.  A task that is running is
\* not started twice.  The script truncates installation.log, not exit-code.txt.
Launch(r, p) ==
  /\ At(r, "marked", p)
  /\ IF task[p] = "idle"
     THEN /\ task' = [task EXCEPT ![p] = "waiting"]
          /\ exitLog' = [exitLog EXCEPT ![p] = "absent"]
     ELSE UNCHANGED <<task, exitLog>>
  /\ Return(r)
  /\ UNCHANGED <<rows, staged, exitFile, applied, server>>

\* UpdateValidationError or RuntimeError: in the checks, the backup or schtasks.
InstallRefused(r, p) ==
  /\ At(r, "checked", p) \/ At(r, "marked", p)
  /\ status' = [status EXCEPT ![p] = "Failed"]
  /\ Return(r)
  /\ UNCHANGED <<age, backup, files, task, applied, server>>

-----------------------------------------------------------------------------
(* apply-update.cmd and the installer it starts.                           *)

\* After 8 seconds the tasks are ended and the processes killed, except for a
\* component update.
BeginPayload(p) ==
  /\ task[p] = "waiting"
  /\ task' = [task EXCEPT ![p] = "installing"]
  /\ up' = (up /\ p \in Component)
  /\ req' = IF p \in Component THEN req ELSE AllKilled
  /\ UNCHANGED <<rows, files, applied, running, installed>>

\* The installer compares no versions: it replaces what is there, and starts
\* the server again.
PayloadApplied(p) ==
  /\ task[p] = "installing"
  /\ task' = [task EXCEPT ![p] = "succeeded"]
  /\ applied' = applied \cup {p}
  /\ IF p \in Component
     THEN UNCHANGED <<server, req>>
     ELSE /\ up' = TRUE
          /\ running' = VersionOf[p]
          /\ installed' = VersionOf[p]
          /\ req' = AllKilled
  /\ UNCHANGED <<rows, files>>

\* It gives up, with the new files in place or not; nothing starts the server.
PayloadFails(p) ==
  /\ task[p] = "installing"
  /\ task' = [task EXCEPT ![p] = "failed"]
  /\ \/ UNCHANGED <<applied, installed>>
     \/ /\ applied' = applied \cup {p}
        /\ installed' = IF p \in Component THEN installed ELSE VersionOf[p]
  /\ UNCHANGED <<rows, files, up, running, req>>

\* The exit code is written to exit-code.txt, which older scripts left empty,
\* and to installation.log.
ScriptEnds(p) ==
  /\ task[p] \in {"succeeded", "failed"}
  /\ LET code == IF task[p] = "succeeded" THEN "zero" ELSE "nonzero"
     IN  /\ \E written \in {code, "absent"} : exitFile' = [exitFile EXCEPT ![p] = written]
         /\ exitLog' = [exitLog EXCEPT ![p] = code]
  /\ task' = [task EXCEPT ![p] = "idle"]
  /\ UNCHANGED <<rows, staged, applied, server, req>>

\* The ONSTART task, or an operator, starts the server that an installer left stopped.
StartServer ==
  /\ ~up
  /\ up' = TRUE
  /\ running' = installed
  /\ UNCHANGED <<rows, files, task, applied, installed, req>>

\* The machine restarts: tasks and requests are gone, the server comes back.
Reboot ==
  /\ up' = TRUE
  /\ running' = installed
  /\ task' = [p \in Package |-> "idle"]
  /\ req' = AllKilled
  /\ UNCHANGED <<rows, files, applied, installed>>

-----------------------------------------------------------------------------
(* reconcile_installations, run by every GET of the list.                  *)

\* exit-code.txt if it holds a number, else the last code in installation.log.
LastCode(p) == IF exitFile[p] # "absent" THEN exitFile[p] ELSE exitLog[p]

\* Mutant of Overdue: no time limit.
OverdueNever(p) == FALSE

Overdue(p) == age[p] > Patience

\* Mutant of Reconciled: a missing exit code counts as success.
ReconciledOptimistic(p) ==
  IF LastCode(p) = "nonzero" THEN "Failed"
  ELSE IF p \in Component THEN "Installed"
  ELSE IF running >= VersionOf[p] THEN "Installed"
  ELSE IF Overdue(p) THEN "Failed"
  ELSE "Installing"

Reconciled(p) ==
  IF LastCode(p) = "nonzero" THEN "Failed"
  ELSE IF LastCode(p) = "zero" /\ p \in Component THEN "Installed"
  ELSE IF running >= VersionOf[p] THEN "Installed"
  ELSE IF Overdue(p) THEN "Failed"
  ELSE "Installing"

ListUpdates ==
  /\ up
  /\ status' = [p \in Package |-> IF status[p] = "Installing" THEN Reconciled(p) ELSE status[p]]
  /\ UNCHANGED <<age, backup, files, task, applied, server, req>>

Tick ==
  /\ \E p \in Package : status[p] = "Installing" /\ age[p] <= Patience
  /\ age' = [p \in Package |->
               IF status[p] = "Installing" /\ age[p] <= Patience THEN age[p] + 1 ELSE age[p]]
  /\ UNCHANGED <<status, backup, files, task, applied, server, req>>

-----------------------------------------------------------------------------
RequestStepOf(r) ==
  \E p \in Package :
    \/ BeginUpload(r, p) \/ StageRelease(r, p) \/ StagingRefused(r, p) \/ CommitUpload(r, p)
    \/ BeginInstall(r, p) \/ MarkInstalling(r, p) \/ Launch(r, p) \/ InstallRefused(r, p)

TaskStep(p) == BeginPayload(p) \/ PayloadApplied(p) \/ PayloadFails(p) \/ ScriptEnds(p)

Next ==
  \/ \E r \in Request : RequestStepOf(r)
  \/ \E p \in Package : TaskStep(p)
  \/ StartServer \/ Reboot \/ ListUpdates \/ Tick

Spec == Init /\ [][Next]_vars

\* Time passes, an operator starts a stopped server, and an administrator
\* opens the list again and again.
LiveSpec == Spec /\ WF_vars(Tick) /\ WF_vars(StartServer) /\ SF_vars(ListUpdates)

-----------------------------------------------------------------------------
(* Properties.                                                             *)

\* "Installed" is never claimed on the word of a missing or stale marker alone:
\* the payload of that release, or of a later one, was put in place.
InstalledMeansApplied ==
  \A p \in Package : status[p] = "Installed" =>
    \E q \in applied : VersionOf[q] >= VersionOf[p]

\* No installer runs, and no payload is in place, without a verified backup
\* that the row of that release names.
BackupBeforeInstall ==
  \A p \in Package : task[p] # "idle" \/ p \in applied => p \in backup

\* The version compared at the start of install_update is still the running one
\* when the row is marked: a restart in between ends the request.
OnlyNewerIsInstalled ==
  [][\A p \in Package :
       status[p] # "Installing" /\ status'[p] = "Installing" => VersionOf[p] > running]_vars

\* An installation that hangs, dies or loses its server does not leave its row
\* at Installing, as long as somebody looks at the list.
InstallingIsSettled ==
  \A p \in Package : status[p] = "Installing" ~> status[p] # "Installing"

=============================================================================
