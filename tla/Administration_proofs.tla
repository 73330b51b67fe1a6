------------------------ MODULE Administration_proofs ------------------------
(***************************************************************************)
(* Proofs about what administrators install and whom they let in:          *)
(* SystemUpdates, for any number of releases and overlapping requests, and *)
(* Accounts, for any number of people, roles, identities and transactions. *)
(*                                                                         *)
(* Updates: the row of a release says what was done with it, wherever the  *)
(* server stops.  Accounts: a transaction of an account that no other one  *)
(* overlaps has read what is still there when it commits; and an           *)
(* administrator stays whose access nobody in flight is about to take.     *)
(***************************************************************************)
EXTENDS SystemUpdates, Accounts, TLAPS

(* SystemUpdates.                                                          *)

Busy == [op : RequestStep, pkg : Package]

LEMMA Constants == VersionOf \in [Package -> Nat] /\ Component \subseteq Package /\ FirstVersion \in Nat /\ Patience \in Nat
BY UpdateAssumption DEF UpdateAssumption

LEMMA BusyIsNot == \A b \in Busy : b # Idle
BY DEF Busy, Idle, RequestStep

(* The inductive invariant.                                                *)

\* A release in hand: recorded, asked for, being installed or in place.
InHand(p) ==
  \/ status[p] # "none" \/ task[p] # "idle" \/ p \in applied
  \/ \E r \in Request : req[r] # Idle /\ req[r].pkg = p

\* Every release in hand is newer than the program the server was installed with, and the
\* running files are those, or of a release that was put in place.
Versions ==
  /\ \A p \in Package : InHand(p) => VersionOf[p] > FirstVersion
  /\ \A v \in {running, installed} : v = FirstVersion \/ \E q \in applied : VersionOf[q] = v

\* What a request knows stays true: a server that does not run has none, and one that runs
\* keeps its version.
Requests ==
  \A r \in Request : req[r] # Idle =>
    /\ up
    /\ req[r].op = "checked" => VersionOf[req[r].pkg] > running
    /\ req[r].op = "marked" => req[r].pkg \in backup

\* A success is written only of a payload that is in place.
Markers ==
  \A p \in Package :
    task[p] = "succeeded" \/ exitFile[p] = "zero" \/ exitLog[p] = "zero" => p \in applied

Inv == TypeOK /\ Versions /\ Requests /\ Markers /\ BackupBeforeInstall /\ InstalledMeansApplied

LEMMA InitInv == Init => Inv
<1> SUFFICES ASSUME Init PROVE Inv
  OBVIOUS
<1> USE Constants DEF Init
<1>1. TypeOK
  BY DEF TypeOK, Status, ExitCode, TaskState
<1>2. Versions
  BY DEF Versions, InHand
<1>3. Requests /\ Markers /\ BackupBeforeInstall /\ InstalledMeansApplied
  BY DEF Requests, Markers, BackupBeforeInstall, InstalledMeansApplied
<1> QED BY <1>1, <1>2, <1>3 DEF Inv

(* Types.                                                                  *)

\* What a request does to req.
LEMMA ReqType ==
  ASSUME TypeOK, NEW r \in Request, NEW p \in Package, NEW op \in RequestStep,
         GoTo(r, op, p) \/ Return(r)
  PROVE  req' \in [Request -> Busy \cup {Idle}]
BY DEF TypeOK, GoTo, Return, Busy

LEMMA TypeNext == TypeOK /\ [Next]_vars => TypeOK'
<1> SUFFICES ASSUME TypeOK, [Next]_vars PROVE TypeOK'
  OBVIOUS
<1> USE Constants
<1>1. ASSUME NEW r \in Request, RequestStepOf(r) PROVE TypeOK'
  <2> PICK p \in Package :
        \/ BeginUpload(r, p) \/ StageRelease(r, p) \/ StagingRefused(r, p) \/ CommitUpload(r, p)
        \/ BeginInstall(r, p) \/ MarkInstalling(r, p) \/ Launch(r, p) \/ InstallRefused(r, p)
    BY <1>1 DEF RequestStepOf
  <2>1. req' \in [Request -> Busy \cup {Idle}]
    <3>1. \E op \in RequestStep : GoTo(r, op, p) \/ Return(r)
      BY DEF BeginUpload, StageRelease, StagingRefused, CommitUpload, BeginInstall, MarkInstalling, Launch,
             InstallRefused, RequestStep
    <3> QED BY <3>1, ReqType
  <2>2. CASE BeginUpload(r, p) \/ StagingRefused(r, p) \/ BeginInstall(r, p)
    BY <2>1, <2>2 DEF BeginUpload, StagingRefused, BeginInstall, TypeOK, rows, files, server, Busy
  <2>3. CASE StageRelease(r, p)
    BY <2>1, <2>3 DEF StageRelease, TypeOK, rows, server, Busy
  <2>4. CASE CommitUpload(r, p)
    BY <2>1, <2>4 DEF CommitUpload, TypeOK, Status, files, server, Busy
  <2>5. CASE MarkInstalling(r, p)
    BY <2>1, <2>5 DEF MarkInstalling, TypeOK, Status, files, server, Busy
  <2>6. CASE Launch(r, p)
    BY <2>1, <2>6 DEF Launch, TypeOK, TaskState, ExitCode, rows, server, Busy
  <2>7. CASE InstallRefused(r, p)
    BY <2>1, <2>7 DEF InstallRefused, TypeOK, Status, files, server, Busy
  <2> QED BY <2>2, <2>3, <2>4, <2>5, <2>6, <2>7
<1>2. AllKilled \in [Request -> Busy \cup {Idle}]
  BY DEF AllKilled
<1>3. ASSUME NEW p \in Package, TaskStep(p) PROVE TypeOK'
  <2>1. CASE BeginPayload(p)
    <3>1. req' \in [Request -> Busy \cup {Idle}]
      BY <1>2, <2>1 DEF BeginPayload, TypeOK, Busy
    <3>2. up' \in BOOLEAN
      BY <2>1, Zenon DEF BeginPayload
    <3>3. task' \in [Package -> TaskState]
      BY <2>1 DEF BeginPayload, TypeOK, TaskState
    <3> QED BY <2>1, <3>1, <3>2, <3>3 DEF BeginPayload, TypeOK, rows, files, Busy
  <2>2. CASE PayloadApplied(p)
    <3>1. req' \in [Request -> Busy \cup {Idle}] /\ running' \in Nat /\ installed' \in Nat
      BY <1>2, <2>2 DEF PayloadApplied, TypeOK, server, Busy
    <3>2. up' \in BOOLEAN
      BY <2>2 DEF PayloadApplied, TypeOK, server
    <3>3. task' \in [Package -> TaskState] /\ applied' \subseteq Package
      BY <2>2 DEF PayloadApplied, TypeOK, TaskState
    <3> QED BY <2>2, <3>1, <3>2, <3>3 DEF PayloadApplied, TypeOK, rows, files, Busy
  <2>3. CASE PayloadFails(p)
    <3>1. task' \in [Package -> TaskState] /\ applied' \subseteq Package /\ installed' \in Nat
      BY <2>3 DEF PayloadFails, TypeOK, TaskState
    <3> QED BY <2>3, <3>1 DEF PayloadFails, TypeOK, rows, files, Busy
  <2>4. CASE ScriptEnds(p)
    BY <2>4 DEF ScriptEnds, TypeOK, TaskState, ExitCode, rows, server, Busy
  <2> QED BY <1>3, <2>1, <2>2, <2>3, <2>4 DEF TaskStep
<1>4. CASE StartServer \/ Reboot
  BY <1>2, <1>4 DEF StartServer, Reboot, TypeOK, TaskState, rows, files, Busy
<1>5. CASE ListUpdates
  BY <1>5 DEF ListUpdates, TypeOK, Status, Reconciled, files, server
<1>6. CASE Tick
  <2>1. age' \in [Package -> 0 .. Patience + 1]
    BY <1>6 DEF Tick, TypeOK
  <2> QED BY <1>6, <2>1 DEF Tick, TypeOK, files, server
<1>7. CASE UNCHANGED vars
  BY <1>7 DEF TypeOK, vars, rows, files, server
<1> QED BY <1>1, <1>3, <1>4, <1>5, <1>6, <1>7 DEF Next

(* The steps, as the parts of the invariant see them.                      *)

\* The requests after a step of r are those before it, but for r.
LEMMA OtherRequests ==
  ASSUME TypeOK, NEW r \in Request, NEW p \in Package, NEW op \in RequestStep, GoTo(r, op, p)
  PROVE  /\ \A k \in Request : k # r => req'[k] = req[k]
         /\ req'[r].op = op /\ req'[r].pkg = p
BY DEF TypeOK, GoTo

LEMMA EndedRequest ==
  ASSUME TypeOK, NEW r \in Request, Return(r)
  PROVE  /\ \A k \in Request : k # r => req'[k] = req[k]
         /\ req'[r] = Idle
BY DEF TypeOK, Return

LEMMA AtIs ==
  ASSUME NEW r \in Request, NEW op, NEW p \in Package, At(r, op, p), op # "idle"
  PROVE  up /\ req[r] # Idle /\ req[r].op = op /\ req[r].pkg = p
BY DEF At, Idle

LEMMA RequestsNext ==
  ASSUME Inv, [Next]_vars
  PROVE  Requests'
<1>1. TypeOK /\ Requests
  BY DEF Inv
<1>2. ASSUME NEW r \in Request, RequestStepOf(r) PROVE Requests'
  <2> PICK p \in Package :
        \/ BeginUpload(r, p) \/ StageRelease(r, p) \/ StagingRefused(r, p) \/ CommitUpload(r, p)
        \/ BeginInstall(r, p) \/ MarkInstalling(r, p) \/ Launch(r, p) \/ InstallRefused(r, p)
    BY <1>2 DEF RequestStepOf
  <2>1. up /\ up' = up /\ running' = running /\ backup \subseteq backup'
    BY DEF BeginUpload, StageRelease, StagingRefused, CommitUpload, BeginInstall, MarkInstalling, Launch,
           InstallRefused, At, rows, server
  <2>2. CASE Return(r)
    BY <1>1, <2>1, <2>2, EndedRequest DEF Requests
  <2>3. CASE BeginUpload(r, p) \/ StageRelease(r, p)
    <3>1. PICK op \in {"verified", "staged"} : GoTo(r, op, p)
      BY <2>3 DEF BeginUpload, StageRelease
    <3>2. (\A k \in Request : k # r => req'[k] = req[k]) /\ req'[r].op = op
      BY <1>1, <3>1, OtherRequests DEF RequestStep
    <3> QED BY <1>1, <2>1, <3>2 DEF Requests
  <2>4. CASE BeginInstall(r, p)
    <3>1. GoTo(r, "checked", p) /\ VersionOf[p] > running
      BY <2>4 DEF BeginInstall, Installable
    <3>2. (\A k \in Request : k # r => req'[k] = req[k]) /\ req'[r].op = "checked" /\ req'[r].pkg = p
      BY <1>1, <3>1, OtherRequests DEF RequestStep
    <3> QED BY <1>1, <2>1, <3>1, <3>2 DEF Requests
  <2>5. CASE MarkInstalling(r, p)
    <3>1. GoTo(r, "marked", p) /\ p \in backup'
      BY <2>5 DEF MarkInstalling
    <3>2. (\A k \in Request : k # r => req'[k] = req[k]) /\ req'[r].op = "marked" /\ req'[r].pkg = p
      BY <1>1, <3>1, OtherRequests DEF RequestStep
    <3> QED BY <1>1, <2>1, <3>1, <3>2 DEF Requests
  <2> QED BY <2>2, <2>3, <2>4, <2>5 DEF StagingRefused, CommitUpload, Launch, InstallRefused
<1>3. CASE req' = AllKilled
  BY <1>3 DEF Requests, AllKilled
<1>4. CASE UNCHANGED <<req, up, running, backup>>
  BY <1>1, <1>4 DEF Requests
<1>5. ASSUME NEW p \in Package, TaskStep(p) PROVE Requests'
  <2>1. CASE BeginPayload(p)
    <3>1. CASE p \in Component
      <4>1. UNCHANGED <<req, running, backup>> /\ (up => up')
        BY <2>1, <3>1 DEF BeginPayload, rows
      <4> QED BY <1>1, <4>1 DEF Requests
    <3>2. CASE p \notin Component
      BY <1>3, <2>1, <3>2 DEF BeginPayload
    <3> QED BY <3>1, <3>2
  <2>2. CASE PayloadApplied(p)
    BY <1>3, <1>4, <2>2 DEF PayloadApplied, server, rows
  <2>3. CASE PayloadFails(p) \/ ScriptEnds(p)
    BY <1>4, <2>3 DEF PayloadFails, ScriptEnds, server, rows
  <2> QED BY <1>5, <2>1, <2>2, <2>3 DEF TaskStep
<1>6. CASE StartServer
  <2>1. ~up /\ UNCHANGED req
    BY <1>6 DEF StartServer
  <2> QED BY <1>1, <2>1 DEF Requests
<1>7. CASE Reboot
  BY <1>3, <1>7 DEF Reboot
<1>8. CASE ListUpdates \/ Tick \/ UNCHANGED vars
  BY <1>4, <1>8 DEF ListUpdates, Tick, vars, rows, server
<1> QED BY <1>2, <1>5, <1>6, <1>7, <1>8 DEF Next

\* A release comes in hand only where it is newer than what runs.
LEMMA VersionsNext ==
  ASSUME Inv, [Next]_vars
  PROVE  Versions'
<1>1. TypeOK /\ Versions /\ Requests
  BY DEF Inv
<1>2. running >= FirstVersion /\ running \in Nat /\ VersionOf \in [Package -> Nat]
  <2>1. \A q \in applied : q \in Package /\ VersionOf[q] > FirstVersion
    BY <1>1 DEF Versions, InHand, TypeOK
  <2> QED BY <1>1, <2>1, Constants DEF Versions, TypeOK
<1>3. ASSUME \A p \in Package : InHand(p)' => InHand(p) \/ VersionOf[p] > running
      PROVE  \A p \in Package : InHand(p)' => VersionOf[p] > FirstVersion
  BY <1>1, <1>2, <1>3, Constants DEF Versions
<1>4. ASSUME applied \subseteq applied',
             \A v \in {running', installed'} :
               v \in {running, installed} \/ \E q \in applied' : VersionOf[q] = v
      PROVE  \A v \in {running', installed'} : v = FirstVersion \/ \E q \in applied' : VersionOf[q] = v
  BY <1>1, <1>4 DEF Versions
<1>5. ASSUME NEW r \in Request, RequestStepOf(r) PROVE Versions'
  <2> PICK p \in Package :
        \/ BeginUpload(r, p) \/ StageRelease(r, p) \/ StagingRefused(r, p) \/ CommitUpload(r, p)
        \/ BeginInstall(r, p) \/ MarkInstalling(r, p) \/ Launch(r, p) \/ InstallRefused(r, p)
    BY <1>5 DEF RequestStepOf
  <2>1. UNCHANGED <<applied, running, installed>>
    BY DEF BeginUpload, StageRelease, StagingRefused, CommitUpload, BeginInstall, MarkInstalling, Launch,
           InstallRefused, server
  <2>2. VersionOf[p] > running \/ InHand(p)
    BY AtIs DEF BeginUpload, StageRelease, StagingRefused, CommitUpload, BeginInstall, MarkInstalling, Launch,
                InstallRefused, Installable, InHand
  <2>3. \A q \in Package \ {p} : status'[q] = status[q] /\ task'[q] = task[q]
    BY <1>1 DEF TypeOK, BeginUpload, StageRelease, StagingRefused, CommitUpload, BeginInstall, MarkInstalling,
           Launch, InstallRefused, rows
  <2>4. \A k \in Request : req'[k] = Idle \/ req'[k] = req[k] \/ req'[k].pkg = p
    <3>1. CASE Return(r)
      BY <1>1, <3>1, EndedRequest
    <3>2. CASE \E op \in RequestStep : GoTo(r, op, p)
      BY <1>1, <3>2, OtherRequests
    <3> QED BY <3>1, <3>2 DEF BeginUpload, StageRelease, StagingRefused, CommitUpload, BeginInstall,
                MarkInstalling, Launch, InstallRefused, RequestStep
  <2>5. \A q \in Package : InHand(q)' => InHand(q) \/ q = p
    BY <2>1, <2>3, <2>4 DEF InHand
  <2> QED BY <1>3, <1>4, <2>1, <2>2, <2>5 DEF Versions
<1>6. ASSUME NEW p \in Package, TaskStep(p) PROVE Versions'
  <2>1. InHand(p) /\ task[p] # "idle"
    BY <1>6 DEF TaskStep, BeginPayload, PayloadApplied, PayloadFails, ScriptEnds, InHand
  <2>2. UNCHANGED status /\ applied' \in {applied, applied \cup {p}}
    BY <1>6 DEF TaskStep, BeginPayload, PayloadApplied, PayloadFails, ScriptEnds, rows
  <2>3. \A q \in Package \ {p} : task'[q] = task[q]
    BY <1>1, <1>6 DEF TypeOK, TaskStep, BeginPayload, PayloadApplied, PayloadFails, ScriptEnds
  <2>4. req' = req \/ req' = AllKilled
    BY <1>6 DEF TaskStep, BeginPayload, PayloadApplied, PayloadFails, ScriptEnds
  <2>5. \A q \in Package : InHand(q)' => InHand(q) \/ q = p
    BY <2>2, <2>3, <2>4 DEF InHand, AllKilled
  <2>6. \A v \in {running', installed'} : v \in {running, installed} \/ \E q \in applied' : VersionOf[q] = v
    BY <1>6 DEF TaskStep, BeginPayload, PayloadApplied, PayloadFails, ScriptEnds, server
  <2> QED BY <1>3, <1>4, <2>1, <2>2, <2>5, <2>6 DEF Versions
<1>7. CASE StartServer \/ Reboot
  <2>1. /\ UNCHANGED <<status, applied, installed>> /\ running' = installed
        /\ task' = task \/ task' = [p \in Package |-> "idle"]
        /\ req' = req \/ req' = AllKilled
    BY <1>7 DEF StartServer, Reboot, rows
  <2>2. \A q \in Package : InHand(q)' => InHand(q)
    BY <2>1 DEF InHand, AllKilled
  <2> QED BY <1>3, <1>4, <2>1, <2>2 DEF Versions
<1>8. CASE ListUpdates \/ Tick \/ UNCHANGED vars
  <2>1. UNCHANGED <<applied, installed, running, task, req>>
    BY <1>8 DEF ListUpdates, Tick, vars, server
  <2>2. \A p \in Package : status'[p] # "none" => status[p] # "none"
    BY <1>8 DEF ListUpdates, Tick, vars, rows
  <2>3. \A q \in Package : InHand(q)' => InHand(q)
    BY <2>1, <2>2 DEF InHand
  <2> QED BY <1>3, <1>4, <2>1, <2>3 DEF Versions
<1> QED BY <1>5, <1>6, <1>7, <1>8 DEF Next

LEMMA MarkersNext ==
  ASSUME Inv, [Next]_vars
  PROVE  Markers' /\ applied \subseteq applied'
<1>1. TypeOK /\ Markers
  BY DEF Inv
<1>2. CASE UNCHANGED <<task, exitFile, exitLog, applied>>
  BY <1>1, <1>2 DEF Markers
<1>3. ASSUME NEW r \in Request, RequestStepOf(r) PROVE Markers' /\ applied \subseteq applied'
  <2> PICK p \in Package :
        \/ BeginUpload(r, p) \/ StageRelease(r, p) \/ StagingRefused(r, p) \/ CommitUpload(r, p)
        \/ BeginInstall(r, p) \/ MarkInstalling(r, p) \/ Launch(r, p) \/ InstallRefused(r, p)
    BY <1>3 DEF RequestStepOf
  <2>1. CASE Launch(r, p)
    BY <1>1, <2>1 DEF Launch, Markers, TypeOK
  <2>2. CASE ~Launch(r, p)
    <3>1. UNCHANGED <<task, exitFile, exitLog, applied>>
      BY <2>2 DEF BeginUpload, StageRelease, StagingRefused, CommitUpload, BeginInstall, MarkInstalling,
             InstallRefused, files
    <3> QED BY <1>2, <3>1
  <2> QED BY <2>1, <2>2
<1>4. ASSUME NEW p \in Package, TaskStep(p) PROVE Markers' /\ applied \subseteq applied'
  <2>1. CASE BeginPayload(p)
    BY <1>1, <2>1 DEF BeginPayload, Markers, TypeOK, files
  <2>2. CASE PayloadApplied(p)
    BY <1>1, <2>2 DEF PayloadApplied, Markers, TypeOK, files
  <2>3. CASE PayloadFails(p)
    BY <1>1, <2>3 DEF PayloadFails, Markers, TypeOK, files
  <2>4. CASE ScriptEnds(p)
    BY <1>1, <2>4 DEF ScriptEnds, Markers, TypeOK
  <2> QED BY <1>4, <2>1, <2>2, <2>3, <2>4 DEF TaskStep
<1>5. CASE Reboot
  BY <1>1, <1>5 DEF Reboot, Markers, files
<1>6. CASE StartServer \/ ListUpdates \/ Tick \/ UNCHANGED vars
  BY <1>2, <1>6 DEF StartServer, ListUpdates, Tick, vars, files
<1> QED BY <1>3, <1>4, <1>5, <1>6 DEF Next

LEMMA BackupNext ==
  ASSUME Inv, [Next]_vars
  PROVE  BackupBeforeInstall'
<1>1. TypeOK /\ Requests /\ BackupBeforeInstall
  BY DEF Inv
<1>2. CASE UNCHANGED <<task, applied>> /\ backup \subseteq backup'
  BY <1>1, <1>2 DEF BackupBeforeInstall
<1>3. ASSUME NEW r \in Request, RequestStepOf(r) PROVE BackupBeforeInstall'
  <2> PICK p \in Package :
        \/ BeginUpload(r, p) \/ StageRelease(r, p) \/ StagingRefused(r, p) \/ CommitUpload(r, p)
        \/ BeginInstall(r, p) \/ MarkInstalling(r, p) \/ Launch(r, p) \/ InstallRefused(r, p)
    BY <1>3 DEF RequestStepOf
  <2>1. CASE Launch(r, p)
    <3>1. p \in backup /\ UNCHANGED <<backup, applied>>
      BY <1>1, <2>1, AtIs DEF Launch, Requests, rows
    <3> QED BY <1>1, <2>1, <3>1 DEF Launch, BackupBeforeInstall, TypeOK
  <2>2. CASE ~Launch(r, p)
    BY <1>2, <2>2 DEF BeginUpload, StageRelease, StagingRefused, CommitUpload, BeginInstall, MarkInstalling,
           InstallRefused, rows
  <2> QED BY <2>1, <2>2
<1>4. ASSUME NEW p \in Package, TaskStep(p) PROVE BackupBeforeInstall'
  <2>1. task[p] # "idle" /\ UNCHANGED backup /\ applied' \in {applied, applied \cup {p}}
    BY <1>4 DEF TaskStep, BeginPayload, PayloadApplied, PayloadFails, ScriptEnds, rows
  <2>2. \A q \in Package \ {p} : task'[q] = task[q]
    BY <1>1, <1>4 DEF TypeOK, TaskStep, BeginPayload, PayloadApplied, PayloadFails, ScriptEnds
  <2> QED BY <1>1, <2>1, <2>2 DEF BackupBeforeInstall
<1>5. CASE Reboot
  BY <1>1, <1>5 DEF Reboot, BackupBeforeInstall, rows
<1>6. CASE StartServer \/ ListUpdates \/ Tick \/ UNCHANGED vars
  BY <1>2, <1>6 DEF StartServer, ListUpdates, Tick, vars, rows
<1> QED BY <1>3, <1>4, <1>5, <1>6 DEF Next

LEMMA InstalledNext ==
  ASSUME Inv, [Next]_vars
  PROVE  InstalledMeansApplied'
<1>1. TypeOK /\ Versions /\ Markers /\ InstalledMeansApplied /\ applied \subseteq applied'
  BY MarkersNext DEF Inv
<1>2. CASE \A p \in Package : status'[p] = "Installed" => status[p] = "Installed"
  BY <1>1, <1>2 DEF InstalledMeansApplied
<1>3. CASE ListUpdates
  <2>1. SUFFICES ASSUME NEW p \in Package, status'[p] = "Installed", status[p] # "Installed"
                 PROVE  \E q \in applied : VersionOf[q] >= VersionOf[p]
    BY <1>1 DEF InstalledMeansApplied
  <2>2. status[p] = "Installing" /\ Reconciled(p) = "Installed"
    BY <1>3, <2>1 DEF ListUpdates
  <2>3. LastCode(p) = "zero" \/ running >= VersionOf[p]
    BY <2>2 DEF Reconciled
  <2>4. CASE LastCode(p) = "zero"
    <3>1. p \in applied
      BY <1>1, <2>4 DEF LastCode, Markers
    <3> QED BY <3>1, Constants
  <2>5. CASE running >= VersionOf[p]
    <3>1. VersionOf[p] > FirstVersion
      BY <1>1, <2>2 DEF Versions, InHand
    <3>2. running # FirstVersion
      BY <2>5, <3>1, Constants DEF TypeOK
    <3>3. \E q \in applied : VersionOf[q] = running
      BY <1>1, <3>2 DEF Versions
    <3> QED BY <2>5, <3>3
  <2> QED BY <2>3, <2>4, <2>5
<1>4. ASSUME NEW r \in Request, RequestStepOf(r)
      PROVE  \A p \in Package : status'[p] = "Installed" => status[p] = "Installed"
  BY <1>1, <1>4 DEF TypeOK, RequestStepOf, BeginUpload, StageRelease, StagingRefused, CommitUpload,
     BeginInstall, MarkInstalling, Launch, InstallRefused, rows
<1>5. ASSUME NEW p \in Package, TaskStep(p) PROVE UNCHANGED status
  BY <1>5 DEF TaskStep, BeginPayload, PayloadApplied, PayloadFails, ScriptEnds, rows
<1>6. CASE StartServer \/ Reboot \/ Tick \/ UNCHANGED vars
  BY <1>2, <1>6 DEF StartServer, Reboot, Tick, vars, rows
<1> QED BY <1>2, <1>3, <1>4, <1>5, <1>6 DEF Next

LEMMA InvNext == Inv /\ [Next]_vars => Inv'
BY TypeNext, VersionsNext, RequestsNext, MarkersNext, BackupNext, InstalledNext DEF Inv

LEMMA Invariance == Spec => []Inv
BY InitInv, InvNext, PTL DEF Spec

\* Rows, directories, markers, tasks and requests hold only what the code gives them.
THEOREM UpdatesTypeCorrect == Spec => []TypeOK
<1>1. Inv => TypeOK
  BY DEF Inv
<1> QED BY <1>1, Invariance, PTL

\* No installer runs, and no payload is in place, without a backup of its own, whatever
\* requests overlapped and wherever the machine was restarted.
THEOREM BackedUpFirst == Spec => []BackupBeforeInstall
<1>1. Inv => BackupBeforeInstall
  BY DEF Inv
<1> QED BY <1>1, Invariance, PTL

\* A row says Installed only of a release that is in place, or was replaced by a newer one,
\* whichever exit codes were lost, kept from an earlier attempt, or never written.
THEOREM InstalledIsTrue == Spec => []InstalledMeansApplied
<1>1. Inv => InstalledMeansApplied
  BY DEF Inv
<1> QED BY <1>1, Invariance, PTL

\* A row is marked Installing only while its release is newer than what runs: the check
\* is made before the backup, and a server that was restarted in between has no request.
THEOREM NewerOnly == Spec => OnlyNewerIsInstalled
<1> DEFINE Newer == \A p \in Package :
                      status[p] # "Installing" /\ status'[p] = "Installing" => VersionOf[p] > running
<1>1. Inv /\ [Next]_vars => Newer
  <2> SUFFICES ASSUME Inv, [Next]_vars, NEW p \in Package, status[p] # "Installing", status'[p] = "Installing"
               PROVE  VersionOf[p] > running
    OBVIOUS
  <2>1. TypeOK /\ Requests
    BY DEF Inv
  <2>2. PICK r \in Request, q \in Package : MarkInstalling(r, q)
    BY <2>1 DEF Next, TypeOK, RequestStepOf, BeginUpload, StageRelease, StagingRefused, CommitUpload,
       BeginInstall, Launch, InstallRefused, TaskStep, BeginPayload, PayloadApplied, PayloadFails, ScriptEnds,
       StartServer, Reboot, ListUpdates, Tick, Reconciled, vars, rows
  <2>3. p = q
    BY <2>1, <2>2 DEF MarkInstalling, TypeOK
  <2> QED BY <2>1, <2>2, <2>3, AtIs DEF MarkInstalling, Requests
<1>2. Spec => [][Newer]_vars
  BY <1>1, Invariance, PTL DEF Spec
<1> QED BY <1>2 DEF OnlyNewerIsInstalled

-----------------------------------------------------------------------------
(* Accounts: for any number of people, roles, identities and transactions. *)

Used == MaxRequest - left.requests

\* As many versions as requests have begun.
Within(row) == row.version <= Used + 1

\* What a transaction read of the account, and what it makes of it.
Intends(t, old, new) ==
  /\ t.writes = Changed(old, new) /\ new.role # "none" /\ (t.creates => old.role = "none")
  /\ old.version <= new.version

\* Role and access do not change without a new version, and a form showed what was read.
Announced(t, old, new) ==
  /\ (new.role = old.role /\ new.active = old.active) \/ t.creates \/ new.version = old.version + 1
  /\ t.form # None => t.form.role = old.role /\ t.form.active = old.active

\* Nothing but the end of a lock happened to the account since.
Same(row, old) == row.role = old.role /\ row.active = old.active /\ row.version = old.version

\* A transaction of an account without an overlap has read what is still there.
Planned(t) ==
  /\ t.user \in Users /\ t.issues \subseteq Links
  /\ \A l \in t.issues : l[1] = t.user /\ ~t.creates
  /\ t.creates \/ Exists(t.user)
  /\ \E old, new \in Account :
       /\ Intends(t, old, new) /\ Within(new)
       /\ t.user \notin raced => Same(account[t.user], old) /\ Announced(t, old, new)

Entered == \A u \in Users : Within(account[u])

Owned ==
  /\ \A s \in sessions : Exists(s.user)
  /\ \A l \in links : Exists(l[1])
  /\ \A f \in forms : Exists(f.user)

\* Two transactions of an account in flight have raced.
Alone == \A t, o \in inflight : t.user = o.user => t = o \/ t.user \in raced

\* A session is as old as the resets it followed, and a reset that began after it is about
\* to delete it.
Ending ==
  /\ \A u \in Users : resets[u].done <= resets[u].begun /\ resets[u].begun <= Used
  /\ \A s \in sessions : s.after <= resets[s.user].begun
  /\ \A t \in inflight :
       /\ t.reset \in Nat /\ t.reset <= resets[t.user].begun
       /\ \A s \in sessions : s.user = t.user /\ s.after < t.reset => s \in t.drops

\* An account that changed has a later version than its form.
Versioned ==
  \A f \in forms :
    \/ f.user \in raced \/ f.version < account[f.user].version
    \/ f.version = account[f.user].version /\ account[f.user].role = f.role /\ account[f.user].active = f.active

AccountsInv ==
  /\ AccountsTypeOK /\ Entered /\ Owned /\ Alone /\ Versioned /\ Ending
  /\ SessionsEndWithPassword
  /\ \A t \in inflight : Planned(t)

\* Rows and what is written to them.
LEMMA RowWritten ==
  ASSUME NEW old \in Account, NEW new \in Account, NEW row \in Account
  PROVE  LET w == Changed(old, new)
         IN  /\ Written(row, w) \in Account
             /\ Written(row, w).role = IF new.role # old.role THEN new.role ELSE row.role
             /\ Written(row, w).active = IF new.active # old.active THEN new.active ELSE row.active
             /\ Written(row, w).version = IF new.version # old.version THEN new.version ELSE row.version
             /\ ("role" \in DOMAIN w <=> new.role # old.role) /\ (new.role # old.role => w.role = new.role)
             /\ ("active" \in DOMAIN w <=> new.active # old.active) /\ (new.active # old.active => w.active = new.active)
<1> DEFINE w == Changed(old, new)
<1>1. w = [f \in {c \in DOMAIN old : new[c] # old[c]} |-> new[f]]
  BY DEF Changed
<1>2. DOMAIN old = {"role", "active", "roles", "source", "entra", "password", "failed", "locked", "version"}
  BY DEF Account
<1>3. DOMAIN row = DOMAIN old
  BY DEF Account
<1>4. Written(row, w) = [f \in DOMAIN row |-> IF f \in DOMAIN w THEN w[f] ELSE row[f]]
  BY DEF Written
<1>5. \A f \in DOMAIN old : Written(row, w)[f] = IF new[f] # old[f] THEN new[f] ELSE row[f]
  BY <1>1, <1>2, <1>3, <1>4
<1>6. Written(row, w) \in Account
  BY <1>2, <1>3, <1>4, <1>5 DEF Account
<1> QED BY <1>1, <1>2, <1>5, <1>6

LEMMA RowChanged ==
  ASSUME NEW old \in Account, NEW new \in Account
  PROVE  LET w == Changed(old, new)
         IN  /\ ("role" \in DOMAIN w <=> new.role # old.role) /\ (new.role # old.role => w.role = new.role)
             /\ ("active" \in DOMAIN w <=> new.active # old.active) /\ (new.active # old.active => w.active = new.active)
<1>1. "role" \in DOMAIN old /\ "active" \in DOMAIN old
  BY DEF Account
<1> QED BY <1>1 DEF Changed

LEMMA RowNumbers ==
  ASSUME NEW row \in Account
  PROVE  /\ row.version \in Nat /\ row.failed \in Nat
         /\ row.active \in BOOLEAN /\ row.role \in {"none", "end_user", "admin"}
BY AccountsAssumption DEF Account, AccountsAssumption

LEMMA UnlockedRow ==
  ASSUME NEW row \in Account
  PROVE  /\ Unlocked(row) \in Account
         /\ Unlocked(row).role = row.role /\ Unlocked(row).active = row.active /\ Unlocked(row).version = row.version
<1>1. 0 \in 0 .. Attempts
  BY AccountsAssumption DEF AccountsAssumption
<1> QED BY <1>1 DEF Unlocked, Account

\* A transaction joins those in flight.
Adds(t) ==
  /\ inflight' = inflight \cup {t} /\ UNCHANGED <<account, sessions, links, role, approved>>
  /\ resets' = Counted(t)
  /\ left.requests > 0 /\ left' = [left EXCEPT !.requests = @ - 1]
  /\ raced \subseteq raced' /\ raced' \subseteq raced \cup {t.user}
  /\ (\E o \in inflight : o.user = t.user) => t.user \in raced'
  /\ removals' \in BOOLEAN

\* It is of one account, has links of that account only, and as a reset it is the next one
\* and deletes the sessions.
OfOne(t) ==
  /\ t.user \in Users /\ t.issues \subseteq Links
  /\ \/ t.reset = 0
     \/ t.reset = resets[t.user].begun + 1 /\ \A s \in sessions : s.user = t.user => s \in t.drops
  /\ t.creates = ~Exists(t.user) /\ \A l \in t.issues : l[1] = t.user /\ ~t.creates

\* A reset that begins is about to delete every session of the account.
LEMMA Resettings ==
  ASSUME AccountsInv, NEW t, Adds(t), OfOne(t), Used' = Used + 1, Used \in Nat, Used' <= MaxRequest
  PROVE  /\ resets' \in [Users -> Resetting] /\ Ending'
         /\ \A u \in Users : resets'[u].done = resets[u].done
<1> DEFINE u == t.user
<1>1. /\ u \in Users /\ inflight' = inflight \cup {t} /\ sessions' = sessions
      /\ resets' = [resets EXCEPT ![u].begun = IF t.reset = 0 THEN @ ELSE t.reset]
      /\ \/ t.reset = 0
         \/ t.reset = resets[u].begun + 1 /\ \A s \in sessions : s.user = u => s \in t.drops
  BY DEF Adds, OfOne, Counted
<1>2. /\ resets \in [Users -> Resetting] /\ MaxRequest \in Nat
      /\ \A s \in sessions : s.user \in Users /\ s.after \in Nat
  BY AccountsAssumption DEF AccountsInv, AccountsTypeOK, Session, AccountsAssumption
<1>3. \A v \in Users :
        /\ resets[v].done \in Nat /\ resets[v].begun \in Nat
        /\ resets[v].done <= resets[v].begun /\ resets[v].begun <= Used
  BY <1>2 DEF AccountsInv, Ending, Resetting
<1>4. /\ resets' \in [Users -> Resetting]
      /\ \A v \in Users : /\ resets'[v].done = resets[v].done
                          /\ resets[v].begun <= resets'[v].begun /\ resets'[v].begun <= Used + 1
      /\ t.reset \in Nat /\ t.reset <= resets'[u].begun
  <2> DEFINE n == IF t.reset = 0 THEN resets[u].begun ELSE t.reset
  <2>1. n \in Nat /\ t.reset \in Nat /\ resets[u].begun <= n /\ n <= Used + 1 /\ t.reset <= n
    BY <1>1, <1>3
  <2>2. resets' = [resets EXCEPT ![u] = [resets[u] EXCEPT !.begun = n]]
    BY <1>1, <1>2
  <2>3. resets[u] \in Resetting /\ n \in 0 .. MaxRequest
    BY <1>1, <1>2, <2>1
  <2> HIDE DEF n
  <2>4. /\ [resets[u] EXCEPT !.begun = n] \in Resetting
        /\ [resets[u] EXCEPT !.begun = n].begun = n /\ [resets[u] EXCEPT !.begun = n].done = resets[u].done
    BY <2>3 DEF Resetting
  <2> QED BY <1>1, <1>2, <1>3, <2>1, <2>2, <2>4
<1>5. \A o \in inflight : o.user \in Users
  BY DEF AccountsInv, Planned
<1>6. \A s \in sessions : s.after <= resets'[s.user].begun
  BY <1>2, <1>3, <1>4 DEF AccountsInv, Ending, Resetting
<1>7. ASSUME NEW o \in inflight'
      PROVE  /\ o.reset \in Nat /\ o.reset <= resets'[o.user].begun
             /\ \A s \in sessions : s.user = o.user /\ s.after < o.reset => s \in o.drops
  <2>1. CASE o \in inflight
    BY <1>3, <1>4, <1>5, <2>1 DEF AccountsInv, Ending, Resetting
  <2>2. CASE o = t
    BY <1>1, <1>2, <1>4, <2>2
  <2> QED BY <1>1, <2>1, <2>2
<1>8. \A v \in Users : resets'[v].done <= resets'[v].begun /\ resets'[v].begun <= Used'
  BY <1>3, <1>4 DEF Resetting
<1> QED BY <1>1, <1>4, <1>6, <1>7, <1>8 DEF Ending

\* One that is committed has deleted those that were put on record before it began.
LEMMA Endings ==
  ASSUME AccountsInv, NEW t \in inflight, UNCHANGED left, inflight' \subseteq inflight,
         sessions' = (sessions \ t.drops)
                     \cup (IF t.opens THEN {[user |-> t.user, after |-> resets[t.user].begun]} ELSE {}),
         resets' = [resets EXCEPT ![t.user].done = IF @ < t.reset THEN t.reset ELSE @]
  PROVE  /\ resets' \in [Users -> Resetting] /\ sessions' \subseteq Session /\ Ending'
         /\ SessionsEndWithPassword'
<1> DEFINE u == t.user
           n == IF resets[u].done < t.reset THEN t.reset ELSE resets[u].done
           late == [user |-> u, after |-> resets[u].begun]
<1>1. /\ u \in Users /\ MaxRequest \in Nat /\ Used' = Used
      /\ resets \in [Users -> Resetting] /\ sessions \subseteq Session
  BY AccountsAssumption DEF AccountsInv, AccountsTypeOK, Planned, AccountsAssumption, Used
<1>2. \A v \in Users :
        /\ resets[v].done \in Nat /\ resets[v].begun \in 0 .. MaxRequest
        /\ resets[v].done <= resets[v].begun /\ resets[v].begun <= Used
  BY <1>1 DEF AccountsInv, Ending, Resetting
<1>3. /\ t.reset \in Nat /\ t.reset <= resets[u].begun
      /\ \A s \in sessions : s.user = u /\ s.after < t.reset => s \in t.drops
  BY DEF AccountsInv, Ending
<1>4. n \in 0 .. MaxRequest /\ n <= resets[u].begun /\ t.reset <= n /\ (n = t.reset \/ n = resets[u].done)
  BY <1>1, <1>2, <1>3
<1>5. resets' = [resets EXCEPT ![u] = [resets[u] EXCEPT !.done = n]]
  BY <1>1
<1> HIDE DEF n
<1>6. /\ [resets[u] EXCEPT !.done = n] \in Resetting
      /\ [resets[u] EXCEPT !.done = n].done = n /\ [resets[u] EXCEPT !.done = n].begun = resets[u].begun
  BY <1>1, <1>4 DEF Resetting
<1>7. /\ resets' \in [Users -> Resetting] /\ resets'[u].done = n
      /\ \A v \in Users : resets'[v].begun = resets[v].begun /\ (v # u => resets'[v].done = resets[v].done)
  BY <1>1, <1>5, <1>6
<1>8. late \in Session /\ late.user = u /\ late.after = resets[u].begun
  BY <1>1, <1>2 DEF Session
<1> HIDE DEF late
<1>9. \A s \in sessions' : s = late \/ (s \in sessions /\ s \notin t.drops)
  BY DEF late
<1>10. \A o \in inflight : o.user \in Users
  BY DEF AccountsInv, Planned
<1>11. \A s \in sessions : /\ s.user \in Users /\ s.after \in Nat /\ s.after <= resets[s.user].begun
                           /\ resets[s.user].done <= s.after
  BY <1>1 DEF AccountsInv, Ending, SessionsEndWithPassword, Session
<1>12. \A s \in sessions' : s \in Session /\ s.after <= resets'[s.user].begun /\ resets'[s.user].done <= s.after
  <2>1. ASSUME NEW s \in sessions', s # late PROVE s.after <= resets'[s.user].begun /\ resets'[s.user].done <= s.after
    <3>1. s \in sessions /\ s \notin t.drops
      BY <1>9, <2>1
    <3>2. CASE s.user # u
      BY <1>7, <1>11, <3>1, <3>2
    <3>3. CASE s.user = u
      BY <1>3, <1>4, <1>7, <1>11, <3>1, <3>3
    <3> QED BY <3>2, <3>3
  <2> QED BY <1>1, <1>2, <1>4, <1>7, <1>8, <1>9, <2>1
<1>13. ASSUME NEW o \in inflight
       PROVE  /\ o.reset \in Nat /\ o.reset <= resets'[o.user].begun
              /\ \A s \in sessions' : s.user = o.user /\ s.after < o.reset => s \in o.drops
  <2>1. o.reset \in Nat /\ o.reset <= resets[o.user].begun
    BY DEF AccountsInv, Ending
  <2>2. \A s \in sessions : s.user = o.user /\ s.after < o.reset => s \in o.drops
    BY DEF AccountsInv, Ending
  <2>3. o.user = u => ~(late.after < o.reset)
    BY <1>2, <1>1, <1>8, <2>1
  <2> QED BY <1>7, <1>8, <1>9, <1>10, <2>1, <2>2, <2>3
<1>14. \A v \in Users : resets'[v].done <= resets'[v].begun /\ resets'[v].begun <= Used'
  BY <1>1, <1>2, <1>4, <1>7
<1>15. Ending'
  BY <1>12, <1>13, <1>14 DEF Ending
<1>16. SessionsEndWithPassword'
  <2>1. \A s \in sessions' : s.user \in Users /\ s.after \in Nat /\ resets'[s.user].done \in Nat
    BY <1>7, <1>12 DEF Session, Resetting
  <2> QED BY <1>12, <2>1 DEF SessionsEndWithPassword
<1> QED BY <1>7, <1>12, <1>15, <1>16

LEMMA Begins ==
  ASSUME AccountsInv, NEW t, Adds(t), forms' \subseteq forms, OfOne(t),
         NEW new \in Account, Intends(t, account[t.user], new),
         new.version <= Used + 2,
         t.user \in raced' \/ Announced(t, account[t.user], new)
  PROVE  AccountsInv'
<1>1. /\ inflight' = inflight \cup {t} /\ UNCHANGED <<account, sessions, links, role, approved>>
      /\ left.requests > 0 /\ left' = [left EXCEPT !.requests = @ - 1]
      /\ raced \subseteq raced' /\ raced' \subseteq raced \cup {t.user}
      /\ (\E o \in inflight : o.user = t.user) => t.user \in raced'
      /\ removals' \in BOOLEAN
      /\ t.user \in Users /\ t.issues \subseteq Links
      /\ t.creates = ~Exists(t.user) /\ \A l \in t.issues : l[1] = t.user /\ ~t.creates
  BY DEF Adds, OfOne
<1>2. /\ left \in [requests : 0 .. MaxRequest, others : 0 .. MaxOther]
      /\ left' \in [requests : 0 .. MaxRequest, others : 0 .. MaxOther] /\ Used' = Used + 1 /\ Used \in Nat
      /\ Used' <= MaxRequest
  BY <1>1, AccountsAssumption DEF AccountsInv, AccountsTypeOK, Used, AccountsAssumption
<1>b. /\ resets' \in [Users -> Resetting] /\ Ending'
      /\ \A u \in Users : resets'[u].done = resets[u].done
  BY <1>1, <1>2, Resettings
<1>3. AccountsTypeOK'
  BY <1>1, <1>2, <1>b DEF AccountsInv, AccountsTypeOK
<1>4. \A row \in Account : Within(row) => Within(row)'
  BY <1>2 DEF Within, Account
<1>5. Entered' /\ Owned' /\ Versioned' /\ SessionsEndWithPassword'
  <2>1. Entered' /\ Owned' /\ Versioned'
    BY <1>1, <1>4 DEF AccountsInv, AccountsTypeOK, Entered, Owned, Versioned, Exists
  <2>2. \A s \in sessions : s.user \in Users
    BY DEF AccountsInv, AccountsTypeOK, Session
  <2> QED BY <1>1, <1>b, <2>1, <2>2 DEF AccountsInv, SessionsEndWithPassword
<1>6. Alone'
  BY <1>1 DEF AccountsInv, Alone
<1>7. account[t.user] \in Account
  BY <1>1 DEF AccountsInv, AccountsTypeOK
<1>8. Planned(t)'
  <2>1. Within(new)'
    BY <1>2 DEF Within
  <2>3. Same(account[t.user], account[t.user])
    BY DEF Same
  <2>4. Exists(t.user)' = Exists(t.user)
    BY <1>1 DEF Exists
  <2> QED BY <1>1, <1>7, <2>1, <2>3, <2>4 DEF Planned
<1>9. ASSUME NEW o \in inflight PROVE Planned(o)'
  <2>1. Planned(o) /\ Exists(o.user)' = Exists(o.user)
    BY <1>1 DEF AccountsInv, Exists
  <2>2. PICK was, will \in Account :
          /\ Intends(o, was, will) /\ Within(will)
          /\ o.user \notin raced => Same(account[o.user], was) /\ Announced(o, was, will)
    BY <2>1 DEF Planned
  <2> QED BY <1>1, <1>4, <2>1, <2>2 DEF Planned
<1> QED BY <1>1, <1>b, <1>3, <1>5, <1>6, <1>8, <1>9 DEF AccountsInv

\* Role and access that are not changed to less are not taken.
LEMMA KeptRow ==
  ASSUME AccountsInv, NEW t, t.user \in Users, NEW new \in Account, t.writes = Changed(account[t.user], new),
         Deprives(t)
  PROVE  (new.role # account[t.user].role /\ new.role # "admin") \/ (new.active # account[t.user].active /\ ~new.active)
<1>1. account[t.user] \in Account
  BY DEF AccountsInv, AccountsTypeOK
<1> QED BY <1>1, RowChanged DEF Deprives

\* What was decided is written, or a unique index refuses it.
LEMMA Commits ==
  ASSUME AccountsInv, NEW t \in inflight, Commit(t)
  PROVE  /\ AccountsInv'
         /\ \A u \in Users : Exists(u) => Exists(u)'
         /\ \A u \in Users \ {t.user} : account'[u] = account[u]
<1> DEFINE u == t.user
<1>1. /\ inflight' = inflight \ {t} /\ UNCHANGED <<role, forms, approved, raced, removals, left>>
      /\ \/ UNCHANGED <<account, sessions, links, resets>>
         \/ /\ ~(t.creates /\ Exists(u))
            /\ account' = [account EXCEPT ![u] = Written(account[u], t.writes)]
            /\ sessions' = (sessions \ t.drops)
                            \cup (IF t.opens THEN {[user |-> u, after |-> resets[u].begun]} ELSE {})
            /\ links' = (links \ t.spends) \cup t.issues
            /\ resets' = [resets EXCEPT ![u].done = IF @ < t.reset THEN t.reset ELSE @]
  BY DEF Commit, Conflicts
<1>2. PICK old, new \in Account :
        /\ Intends(t, old, new) /\ Within(new)
        /\ t.user \notin raced => Same(account[t.user], old) /\ Announced(t, old, new)
  BY DEF AccountsInv, Planned
<1>3. /\ u \in Users /\ t.issues \subseteq Links /\ (t.creates \/ Exists(u))
      /\ \A l \in t.issues : l[1] = u /\ ~t.creates
  BY DEF AccountsInv, Planned
<1>4. account \in [Users -> Account] /\ account[u] \in Account
  BY <1>3 DEF AccountsInv, AccountsTypeOK
<1>5. Within(account[u])
  BY <1>3 DEF AccountsInv, Entered
<1>6. CASE ~UNCHANGED <<account, sessions, links, resets>>
  <2> DEFINE row == Written(account[u], t.writes)
  <2>1. /\ ~(t.creates /\ Exists(u))
        /\ account' = [account EXCEPT ![u] = row]
        /\ sessions' = (sessions \ t.drops)
                        \cup (IF t.opens THEN {[user |-> u, after |-> resets[u].begun]} ELSE {})
        /\ links' = (links \ t.spends) \cup t.issues
        /\ resets' = [resets EXCEPT ![u].done = IF @ < t.reset THEN t.reset ELSE @]
    BY <1>1, <1>6
  <2>2. /\ row \in Account
        /\ row.role = IF new.role # old.role THEN new.role ELSE account[u].role
        /\ row.active = IF new.active # old.active THEN new.active ELSE account[u].active
        /\ row.version = IF new.version # old.version THEN new.version ELSE account[u].version
    <3>1. t.writes = Changed(old, new)
      BY <1>2 DEF Intends
    <3> QED BY <1>4, <3>1, RowWritten
  <2> HIDE DEF row
  <2>3. account' \in [Users -> Account] /\ account'[u] = row /\ \A v \in Users \ {u} : account'[v] = account[v]
    BY <1>3, <1>4, <2>1, <2>2
  <2>4. Within(row) /\ row.role # "none"
    BY <1>2, <1>3, <1>5, <2>1, <2>2 DEF Within, Intends, Exists
  <2>a. /\ resets' \in [Users -> Resetting] /\ sessions' \subseteq Session /\ Ending'
        /\ SessionsEndWithPassword'
    BY <1>1, <1>3, <2>1, Endings
  <2>5. AccountsTypeOK'
    BY <1>1, <1>3, <2>1, <2>3, <2>a DEF AccountsInv, AccountsTypeOK
  <2>6. \A v \in Users : Exists(v) => Exists(v)'
    BY <2>3, <2>4 DEF Exists
  <2>7. Exists(u)'
    BY <1>3, <2>3, <2>4 DEF Exists
  <2>8. Entered'
    <3>1. \A r : Within(r)' <=> Within(r)
      BY <1>1 DEF Within, Used
    <3>2. \A v \in Users : Within(account[v])
      BY DEF AccountsInv, Entered
    <3>3. ASSUME NEW v \in Users PROVE Within(account'[v])
      BY <2>3, <2>4, <3>2, Zenon
    <3>4. \A v \in Users : Within(account[v])' <=> Within(account'[v])
      BY <1>1 DEF Within, Used
    <3> QED BY <3>3, <3>4 DEF Entered
  <2>9. Owned'
    <3>1. \A s \in sessions : s.user \in Users
      BY DEF AccountsInv, AccountsTypeOK, Session
    <3>2. \A l \in links : l[1] \in Users
      BY DEF AccountsInv, AccountsTypeOK, Links
    <3>3. \A f \in forms : f.user \in Users
      BY DEF AccountsInv, AccountsTypeOK, Form
    <3> QED BY <1>1, <1>3, <2>1, <2>6, <2>7, <3>1, <3>2, <3>3 DEF AccountsInv, Owned
  <2>10. ASSUME u \notin raced
         PROVE  Same(row, new) /\ Same(account[u], old)
    BY <1>2, <2>2, <2>10 DEF Same
  <2>12. Versioned'
    <3>1. ASSUME NEW f \in forms, f.user = u, u \notin raced PROVE f.version < row.version \/ (f.version = row.version /\ row.role = f.role /\ row.active = f.active)
      <4>1. f.version < old.version \/ (f.version = old.version /\ old.role = f.role /\ old.active = f.active)
        BY <2>10, <3>1 DEF AccountsInv, Versioned, Same
      <4>2. f.version \in Nat /\ old.version \in Nat /\ new.version \in Nat
        BY <3>1 DEF AccountsInv, AccountsTypeOK, Form, Account
      <4>3. old.role # "none" /\ Exists(u)
        BY <2>10, <3>1 DEF AccountsInv, Owned, Same, Exists
      <4>4. row.version = IF new.version # old.version THEN new.version ELSE old.version
        BY <2>2, <2>10, <3>1 DEF Same
      <4>5. \/ new.role = old.role /\ new.active = old.active
            \/ new.version = old.version + 1
        BY <1>2, <2>1, <3>1, <4>3 DEF Intends, Announced
      <4>6. CASE new.version = old.version + 1
        BY <4>1, <4>2, <4>4, <4>6
      <4>7. CASE new.role = old.role /\ new.active = old.active
        <5>1. row.role = old.role /\ row.active = old.active
          BY <2>2, <2>10, <3>1, <4>7 DEF Same
        <5>2. old.version <= new.version
          BY <1>2 DEF Intends
        <5> QED BY <4>1, <4>2, <4>4, <5>1, <5>2
      <4> QED BY <4>5, <4>6, <4>7
    <3>2. \A f \in forms : f.user \in Users
      BY DEF AccountsInv, AccountsTypeOK, Form
    <3>3. ASSUME NEW f \in forms
          PROVE  \/ f.user \in raced \/ f.version < account'[f.user].version
                 \/ f.version = account'[f.user].version /\ account'[f.user].role = f.role /\ account'[f.user].active = f.active
      <4>1. CASE f.user = u
        BY <2>3, <3>1, <4>1
      <4>2. CASE f.user # u
        <5>1. account'[f.user] = account[f.user]
          BY <2>3, <3>2, <4>2
        <5> QED BY <5>1, Zenon DEF AccountsInv, Versioned
      <4> QED BY <4>1, <4>2
    <3> QED BY <1>1, <3>3 DEF Versioned
  <2>14. ASSUME NEW o \in inflight \ {t} PROVE Planned(o)'
    <3>1. Planned(o) /\ (o.user \notin raced => o.user # u)
      BY DEF AccountsInv, Alone
    <3>2. o.user \notin raced => account'[o.user] = account[o.user]
      BY <2>3, <3>1 DEF Planned
    <3>3. \A r : Within(r)' <=> Within(r)
      BY <1>1 DEF Within, Used
    <3>4. PICK was, will \in Account :
            /\ Intends(o, was, will) /\ Within(will)
            /\ o.user \notin raced => Same(account[o.user], was) /\ Announced(o, was, will)
      BY <3>1 DEF Planned
    <3>5. o.creates \/ Exists(o.user)'
      BY <2>6, <3>1 DEF Planned
    <3> QED BY <1>1, <3>1, <3>2, <3>4, <3>5 DEF Planned, Within, Used
  <2>15. Alone'
    BY <1>1 DEF AccountsInv, Alone
  <2> QED BY <1>1, <2>3, <2>a, <2>5, <2>6, <2>8, <2>9, <2>12, <2>14, <2>15 DEF AccountsInv
<1>7. CASE UNCHANGED <<account, sessions, links, resets>>
  <2>1. ASSUME NEW o \in inflight' PROVE Planned(o)'
    BY <1>1, <1>7, <2>1 DEF AccountsInv, Planned, Exists, Within, Used
  <2>2. Entered' /\ Owned' /\ Alone' /\ Versioned' /\ Ending' /\ SessionsEndWithPassword' /\ AccountsTypeOK'
    BY <1>1, <1>7 DEF AccountsInv, Entered, Owned, Alone, Versioned, Ending, SessionsEndWithPassword, AccountsTypeOK, Exists, Within, Used
  <2>3. \A v \in Users : (Exists(v) => Exists(v)') /\ account'[v] = account[v]
    BY <1>7 DEF Exists
  <2> QED BY <2>1, <2>2, <2>3 DEF AccountsInv
<1> QED BY <1>6, <1>7

\* An active administrator is only taken when there is another.
Kept(t) == IsAdmin(t.user) /\ Deprives(t) => OtherAdmins(t.user) # {}

LEMMA BeginAdds == ASSUME AccountsInv, NEW t, Begin(t), t.user \in Users PROVE Adds(t)
<1>1. removals' \in BOOLEAN
  BY DEF AccountsInv, AccountsTypeOK, Begin
<1> QED BY <1>1 DEF Begin, Adds

\* A transaction that leaves role and access as they are, and changes no version.
LEMMA Personal ==
  ASSUME AccountsInv, NEW t, Begin(t), UNCHANGED forms, OfOne(t), t.form = None,
         NEW new \in Account, t.writes = Changed(account[t.user], new),
         new.role # "none", new.role = account[t.user].role, new.active = account[t.user].active,
         account[t.user].version <= new.version, new.version <= account[t.user].version + 1
  PROVE  AccountsInv' /\ Kept(t)
<1>1. Adds(t)
  BY BeginAdds DEF OfOne
<1>2. t.user \in Users /\ account[t.user] \in Account /\ Within(account[t.user]) /\ Used \in Nat
  BY AccountsAssumption DEF OfOne, AccountsInv, AccountsTypeOK, Entered, Used, AccountsAssumption
<1>a. account[t.user].version \in Nat /\ new.version \in Nat
  BY <1>2, RowNumbers
<1>3. Intends(t, account[t.user], new)
  <2>1. t.creates => account[t.user].role = "none"
    BY DEF OfOne, Exists
  <2> QED BY <2>1, Zenon DEF Intends
<1>4. new.version <= Used + 2
  BY <1>2, <1>a DEF Within
<1>5. Announced(t, account[t.user], new)
  BY DEF Announced
<1> QED BY <1>1, <1>2, <1>3, <1>4, <1>5, Begins, KeptRow DEF Kept

\* What the bounds leave for a version more.
LEMMA Rooms ==
  ASSUME AccountsInv, NEW u \in Users, left.requests > 0
  PROVE  /\ account[u] \in Account
         /\ account[u].version + 1 \in 1 .. MaxRequest + 1
<1>1. account[u] \in Account /\ Within(account[u]) /\ left.requests \in 0 .. MaxRequest
  BY DEF AccountsInv, AccountsTypeOK, Entered
<1> QED BY <1>1, AccountsAssumption DEF Within, Account, Used, AccountsAssumption

LEMMA Logins ==
  ASSUME AccountsInv, NEW u \in Users, Login(u) \/ LoginFails(u)
  PROVE  AccountsInv' /\ \E t : Begin(t) /\ Kept(t)
<1>1. account[u] \in Account /\ Exists(u)
  BY DEF AccountsInv, AccountsTypeOK, Login, LoginFails, MayLogIn
<1>2. CASE Login(u)
  <2> DEFINE t == [Txn(u, Unlocked(account[u])) EXCEPT !.opens = TRUE]
  <2>1. Begin(t) /\ UNCHANGED forms
    BY <1>2 DEF Login
  <2>3. OfOne(t) /\ t.form = None /\ t.user = u /\ t.writes = Changed(account[u], Unlocked(account[u]))
    BY <1>1 DEF OfOne, Txn
  <2> HIDE DEF t
  <2> QED BY <1>1, <2>1, <2>3, UnlockedRow, RowNumbers, Personal DEF Exists
<1>3. CASE LoginFails(u)
  <2> DEFINE n == account[u].failed + 1
             new == [account[u] EXCEPT !.failed = IF n < Attempts THEN n ELSE Attempts, !.locked = n >= Attempts]
             t == Txn(u, new)
  <2>1. Begin(t) /\ UNCHANGED forms
    BY <1>3 DEF LoginFails
  <2>2. new \in Account
    <3>1. account[u].failed \in Nat /\ (IF n < Attempts THEN n ELSE Attempts) \in 0 .. Attempts /\ (n >= Attempts) \in BOOLEAN
      BY <1>1, RowNumbers, AccountsAssumption DEF AccountsAssumption
    <3> HIDE DEF n
    <3> QED BY <1>1, <3>1 DEF Account
  <2>3. OfOne(t) /\ t.form = None /\ t.user = u /\ t.writes = Changed(account[u], new)
    BY <1>1 DEF OfOne, Txn
  <2>4. new.role = account[u].role /\ new.active = account[u].active /\ new.version = account[u].version
    BY <1>1 DEF Account
  <2> HIDE DEF t, new
  <2> QED BY <1>1, <2>1, <2>2, <2>3, <2>4, RowNumbers, Personal DEF Exists
<1> QED BY <1>2, <1>3

LEMMA Passwords ==
  ASSUME NEW row \in Account
  PROVE  /\ NewPassword(row) \in Account
         /\ NewPassword(row).role = row.role /\ NewPassword(row).active = row.active
         /\ NewPassword(row).version = row.version
BY DEF NewPassword, Account

LEMMA BumpedRow ==
  ASSUME NEW row \in Account, row.version + 1 \in 1 .. MaxRequest + 1
  PROVE  /\ Bumped(row) \in Account
         /\ Bumped(row).role = row.role /\ Bumped(row).active = row.active
         /\ Bumped(row).version = row.version + 1
BY DEF Bumped, Account

LEMMA PasswordSteps ==
  ASSUME AccountsInv,
         \/ \E s \in sessions : ChangePassword(s)
         \/ \E l \in links : ResetPassword(l)
         \/ \E u \in Users : ForgotPassword(u) \/ ResetUserPassword(u)
  PROVE  AccountsInv' /\ \E t : Begin(t) /\ Kept(t)
<1>1. CASE \E s \in sessions : ChangePassword(s)
  <2>1. PICK s \in sessions : ChangePassword(s)
    BY <1>1
  <2> DEFINE u == s.user
             t == Txn(u, NewPassword(account[u]))
  <2>2. u \in Users /\ Exists(u)
    BY DEF AccountsInv, AccountsTypeOK, Owned, Session
  <2>3. Begin(t) /\ UNCHANGED forms /\ left.requests > 0
    BY <2>1 DEF ChangePassword, Begin
  <2>4. OfOne(t) /\ t.form = None /\ t.user = u /\ t.writes = Changed(account[u], NewPassword(account[u]))
    BY <2>2 DEF OfOne, Txn
  <2> HIDE DEF t
  <2> QED BY <2>2, <2>3, <2>4, Rooms, Passwords, RowNumbers, Personal DEF Exists
<1>2. CASE \E l \in links : ResetPassword(l)
  <2>1. PICK l \in links : ResetPassword(l)
    BY <1>2
  <2> DEFINE u == l[1]
             row == Unlocked(account[u])
             t == [Resets(u, row) EXCEPT !.spends = {l}]
  <2>2. u \in Users /\ Exists(u)
    BY DEF AccountsInv, AccountsTypeOK, Owned, Links
  <2>3. Begin(t) /\ UNCHANGED forms /\ left.requests > 0
    BY <2>1 DEF ResetPassword, Begin
  <2>4. /\ OfOne(t) /\ t.form = None /\ t.user = u /\ t.writes = Changed(account[u], NewPassword(row))
    BY <2>2 DEF OfOne, Txn, Resets, NewReset, Dropping
  <2>5. account[u] \in Account
    BY <2>2, <2>3, Rooms
  <2>6. /\ row \in Account /\ row.role = account[u].role /\ row.active = account[u].active
        /\ row.version = account[u].version
    BY <2>5, UnlockedRow
  <2> HIDE DEF t, row
  <2> QED BY <2>2, <2>3, <2>4, <2>5, <2>6, Passwords, RowNumbers, Personal DEF Exists
<1>3. ASSUME NEW u \in Users, ForgotPassword(u) PROVE AccountsInv' /\ \E t : Begin(t) /\ Kept(t)
  <2>1. PICK l \in NewLink(u) : Begin([Txn(u, account[u]) EXCEPT !.spends = Voided(u), !.issues = {l}])
    BY <1>3 DEF ForgotPassword
  <2> DEFINE t == [Txn(u, account[u]) EXCEPT !.spends = Voided(u), !.issues = {l}]
  <2>2. Exists(u) /\ account[u] \in Account /\ UNCHANGED forms
    BY <1>3 DEF ForgotPassword, AccountsInv, AccountsTypeOK
  <2>3. l \in Links /\ l[1] = u
    BY DEF NewLink, Links
  <2>4. OfOne(t) /\ t.form = None /\ t.user = u /\ t.writes = Changed(account[u], account[u])
    BY <2>2, <2>3 DEF OfOne, Txn
  <2>5. Begin(t)
    BY <2>1
  <2> HIDE DEF t
  <2> QED BY <2>2, <2>4, <2>5, RowNumbers, Personal DEF Exists
<1>4. ASSUME NEW u \in Users, ResetUserPassword(u) PROVE AccountsInv' /\ \E t : Begin(t) /\ Kept(t)
  <2> DEFINE row == Bumped(account[u])
             t == Resets(u, row)
  <2>1. Exists(u) /\ Begin(t) /\ UNCHANGED forms /\ left.requests > 0
    BY <1>4 DEF ResetUserPassword, Begin
  <2>2. /\ OfOne(t) /\ t.form = None /\ t.user = u /\ t.writes = Changed(account[u], NewPassword(row))
    BY <2>1 DEF OfOne, Txn, Resets, NewReset, Dropping
  <2>3. /\ account[u] \in Account
        /\ account[u].version + 1 \in 1 .. MaxRequest + 1
    BY <2>1, Rooms
  <2>4. /\ row \in Account /\ row.role = account[u].role /\ row.active = account[u].active
        /\ row.version = account[u].version + 1
    BY <2>3, BumpedRow
  <2> HIDE DEF t, row
  <2> QED BY <2>1, <2>2, <2>3, <2>4, Passwords, RowNumbers, Personal DEF Exists
<1> QED BY <1>1, <1>2, <1>3, <1>4

\* A new account, by an administrator or by the first sign-in with Microsoft.
LEMMA Created ==
  ASSUME AccountsInv, NEW t, Begin(t), UNCHANGED forms, OfOne(t), t.form = None, t.creates,
         NEW new \in Account, t.writes = Changed(account[t.user], new),
         new.role # "none", new.version = account[t.user].version
  PROVE  AccountsInv' /\ Kept(t)
<1>1. Adds(t)
  BY BeginAdds DEF OfOne
<1>2. t.user \in Users /\ account[t.user] \in Account /\ Within(account[t.user]) /\ Used \in Nat /\ ~Exists(t.user)
  <2>1. t.user \in Users /\ ~Exists(t.user)
    BY Zenon DEF OfOne
  <2> QED BY <2>1, AccountsAssumption DEF AccountsInv, AccountsTypeOK, Entered, Used, AccountsAssumption
<1>3. account[t.user].role = "none"
  BY <1>2 DEF Exists
<1>4. account[t.user].version \in Nat
  BY <1>2, RowNumbers
<1>5. Intends(t, account[t.user], new)
  BY <1>3, <1>4 DEF Intends
<1>6. new.version <= Used + 2
  BY <1>2, <1>3, <1>4 DEF Within
<1>7. ~IsAdmin(t.user)
  BY <1>3 DEF IsAdmin
<1>8. Announced(t, account[t.user], new)
  BY DEF Announced
<1> QED BY <1>1, <1>5, <1>6, <1>7, <1>8, Begins DEF Kept

LEMMA SignIns ==
  ASSUME AccountsInv, NEW i \in Identities, MicrosoftSignIn(i)
  PROVE  AccountsInv' /\ \E t : Begin(t) /\ Kept(t)
<1> DEFINE u == Found(i)
           row == Unlocked(account[u])
           new == [row EXCEPT !.source = "Entra", !.entra = i, !.role = IF Exists(u) THEN @ ELSE "end_user"]
           t == [Txn(u, new) EXCEPT !.opens = TRUE]
<1>1. Begin(t) /\ UNCHANGED forms
  BY DEF MicrosoftSignIn
<1>2. u \in Users
  BY AccountsAssumption DEF Found, Claims, AccountsAssumption
<1>3. account[u] \in Account
  BY <1>2 DEF AccountsInv, AccountsTypeOK
<1>4. /\ row \in Account /\ row.role = account[u].role /\ row.active = account[u].active
      /\ row.version = account[u].version
  BY <1>3, UnlockedRow
<1>5. OfOne(t) /\ t.form = None /\ t.user = u /\ t.writes = Changed(account[u], new)
  BY <1>2 DEF OfOne, Txn
<1> HIDE DEF t, row
<1>6. /\ new \in Account /\ new.role = (IF Exists(u) THEN row.role ELSE "end_user") /\ new.active = row.active
      /\ new.version = row.version
  BY <1>4 DEF Account
<1> HIDE DEF new
<1>7. CASE Exists(u)
  BY <1>1, <1>3, <1>4, <1>5, <1>6, <1>7, RowNumbers, Personal DEF Exists
<1>8. CASE ~Exists(u)
  <2>2. t.creates
    BY <1>5, <1>8 DEF OfOne
  <2> QED BY <1>1, <1>3, <1>4, <1>5, <1>6, <1>8, <2>2, Created
<1> QED BY <1>7, <1>8

LEMMA AdministrationSteps ==
  ASSUME AccountsInv, NEW u \in Users, CreateUser(u) \/ DeactivateUser(u) \/ RevokeSessions(u) \/ ForcePasswordChange(u)
  PROVE  AccountsInv' /\ \E t : Begin(t) /\ Kept(t)
<1>1. account[u] \in Account
  BY DEF AccountsInv, AccountsTypeOK
<1>2. CASE CreateUser(u)
  <2>1. PICK kind \in {"end_user", "admin"}, R \in Assignable :
          Begin(Txn(u, [account[u] EXCEPT !.role = kind, !.password = TRUE, !.roles = R]))
    BY <1>2 DEF CreateUser
  <2> DEFINE new == [account[u] EXCEPT !.role = kind, !.password = TRUE, !.roles = R]
             t == Txn(u, new)
  <2>2. R \subseteq Roles
    BY DEF Assignable, ActiveRoles
  <2>3. /\ new \in Account /\ new.role = kind
        /\ new.version = account[u].version
    BY <1>1, <2>2 DEF Account
  <2>4. OfOne(t) /\ t.form = None /\ t.user = u /\ t.writes = Changed(account[u], new) /\ t.creates
    BY <1>2 DEF OfOne, Txn, CreateUser
  <2>5. Begin(t) /\ UNCHANGED forms
    BY <1>2, <2>1 DEF CreateUser
  <2> HIDE DEF t, new
  <2> QED BY <2>3, <2>4, <2>5, Created
<1>3. CASE RevokeSessions(u)
  <2> DEFINE t == Dropping(Txn(u, account[u]), u)
  <2>1. Begin(t) /\ UNCHANGED forms /\ Exists(u)
    BY <1>3 DEF RevokeSessions, AccountsInv, Owned
  <2>2. OfOne(t) /\ t.form = None /\ t.user = u /\ t.writes = Changed(account[u], account[u])
    BY <2>1 DEF OfOne, Txn, Dropping
  <2> HIDE DEF t
  <2> QED BY <1>1, <2>1, <2>2, RowNumbers, Personal DEF Exists
<1>4. CASE ForcePasswordChange(u)
  <2> DEFINE t == Txn(u, Bumped(account[u]))
  <2>1. Begin(t) /\ UNCHANGED forms /\ Exists(u) /\ left.requests > 0
    BY <1>4 DEF ForcePasswordChange, Begin
  <2>2. OfOne(t) /\ t.form = None /\ t.user = u /\ t.writes = Changed(account[u], Bumped(account[u]))
    BY <2>1 DEF OfOne, Txn
  <2> HIDE DEF t
  <2> QED BY <1>1, <2>1, <2>2, BumpedRow, Rooms, RowNumbers, Personal DEF Exists
<1>5. CASE DeactivateUser(u)
  <2> DEFINE row == Bumped(account[u])
             new == [row EXCEPT !.active = FALSE]
             t == Dropping(Txn(u, new), u)
  <2>1. /\ Begin(t) /\ UNCHANGED forms /\ Exists(u) /\ left.requests > 0
        /\ account[u].role = "admin" => OtherAdmins(u) # {}
    BY <1>5 DEF DeactivateUser, Begin, KeepsAdministrator
  <2>2. OfOne(t) /\ t.form = None /\ t.user = u /\ t.writes = Changed(account[u], new)
    BY <2>1 DEF OfOne, Txn, Dropping
  <2>3. /\ row \in Account /\ row.role = account[u].role /\ row.version = account[u].version + 1
    BY <2>1, BumpedRow, Rooms
  <2> HIDE DEF t, row
  <2>4. /\ new \in Account /\ new.role = row.role /\ new.active = FALSE
        /\ new.version = row.version
    BY <2>3 DEF Account
  <2> HIDE DEF new
  <2>5. Intends(t, account[u], new)
    BY <1>1, <2>1, <2>2, <2>3, <2>4, RowNumbers DEF Intends, Exists, OfOne
  <2>6. new.version <= Used + 2
    <3>1. Within(account[u]) /\ Used \in Nat
      BY AccountsAssumption DEF AccountsInv, AccountsTypeOK, Entered, Used, AccountsAssumption
    <3> QED BY <1>1, <2>3, <2>4, <3>1, RowNumbers DEF Within
  <2>7. Adds(t) /\ Kept(t)
    BY <2>1, <2>2, BeginAdds DEF Kept, IsAdmin
  <2>8. Announced(t, account[u], new)
    BY <2>2, <2>3, <2>4 DEF Announced
  <2> QED BY <2>1, <2>2, <2>4, <2>5, <2>6, <2>7, <2>8, Begins
<1> QED BY <1>2, <1>3, <1>4, <1>5

LEMMA Updates ==
  ASSUME AccountsInv, NEW f \in forms, UpdateUser(f)
  PROVE  /\ AccountsInv'
         /\ \/ UNCHANGED <<account, inflight, removals>>
            \/ \E t : Begin(t) /\ Kept(t)
<1> DEFINE u == f.user
<1>1. /\ u \in Users /\ Exists(u) /\ f.version \in Nat
  BY DEF AccountsInv, AccountsTypeOK, Form, Owned
<1>2. account[u] \in Account /\ forms' \subseteq forms
  BY <1>1 DEF UpdateUser, AccountsInv, AccountsTypeOK
<1>3. CASE f.version # account[u].version
  <2>1. UNCHANGED <<account, sessions, links, role, approved, inflight, raced, resets, removals, left>>
    BY <1>3 DEF UpdateUser
  <2>2. \A t \in inflight : Planned(t)'
    BY <2>1 DEF AccountsInv, Planned, Exists, Within, Used
  <2>3. AccountsTypeOK' /\ Owned' /\ Versioned'
    BY <1>2, <2>1 DEF AccountsInv, AccountsTypeOK, Owned, Versioned, Exists
  <2>4. Entered' /\ Alone' /\ Ending' /\ SessionsEndWithPassword'
    BY <2>1 DEF AccountsInv, Entered, Alone, Ending, SessionsEndWithPassword, Within, Used
  <2> QED BY <2>1, <2>2, <2>3, <2>4 DEF AccountsInv
<1>4. CASE f.version = account[u].version
  <2>1. PICK kind \in {"end_user", "admin"}, a \in BOOLEAN, R \in Assignable \cup {account[u].roles} :
          /\ KeepsAdministrator(u, kind, a)
          /\ Begin([Txn(u, [Bumped(account[u]) EXCEPT !.role = kind, !.active = a, !.roles = R]) EXCEPT !.form = f])
    BY <1>4 DEF UpdateUser
  <2> DEFINE row == Bumped(account[u])
             new == [row EXCEPT !.role = kind, !.active = a, !.roles = R]
             t == [Txn(u, new) EXCEPT !.form = f]
  <2>2. Begin(t) /\ left.requests > 0
    BY <2>1 DEF Begin
  <2>3. OfOne(t) /\ t.form = f /\ t.user = u /\ t.writes = Changed(account[u], new)
    BY <1>1 DEF OfOne, Txn
  <2>4. /\ row \in Account /\ row.version = account[u].version + 1
    BY <1>1, <1>2, <2>2, BumpedRow, Rooms
  <2>5. R \subseteq Roles
    BY <1>2 DEF Assignable, ActiveRoles, Account
  <2> HIDE DEF t, row
  <2>6. /\ new \in Account /\ new.role = kind /\ new.active = a
        /\ new.version = row.version
    BY <2>4, <2>5 DEF Account
  <2> HIDE DEF new
  <2>7. Intends(t, account[u], new)
    <3>1. ~t.creates
      BY <1>1, <2>3 DEF OfOne
    <3> QED BY <1>2, <2>3, <2>4, <2>6, <3>1, RowNumbers DEF Intends
  <2>8. new.version <= Used + 2
    <3>1. Within(account[u]) /\ Used \in Nat
      BY <1>1, AccountsAssumption DEF AccountsInv, AccountsTypeOK, Entered, Used, AccountsAssumption
    <3> QED BY <1>2, <2>4, <2>6, <3>1, RowNumbers DEF Within
  <2>9. Adds(t) /\ raced \subseteq raced'
    BY <1>1, <2>2, <2>3, BeginAdds DEF Adds
  <2>10. u \in raced' \/ Announced(t, account[u], new)
    <3>1. u \in raced' \/ (f.role = account[u].role /\ f.active = account[u].active)
      BY <1>2, <1>4, <2>9, RowNumbers DEF AccountsInv, Versioned
    <3> QED BY <2>3, <2>4, <2>6, <3>1 DEF Announced
  <2>11. Kept(t)
    <3>1. SUFFICES ASSUME IsAdmin(u), Deprives(t), OtherAdmins(u) = {} PROVE FALSE
      BY <2>3 DEF Kept
    <3>2. kind = "admin" /\ a
      BY <2>1, <3>1 DEF KeepsAdministrator, IsAdmin
    <3> QED BY <1>1, <2>3, <2>6, <3>1, <3>2, KeptRow
  <2> QED BY <1>1, <1>2, <2>2, <2>3, <2>6, <2>7, <2>8, <2>9, <2>10, <2>11, Begins
<1> QED BY <1>3, <1>4

\* The recovery program takes nobody's access.
LEMMA Recovers ==
  ASSUME AccountsInv, NEW u \in Users, Recover(u)
  PROVE  /\ AccountsInv' /\ UNCHANGED <<account, removals>>
         /\ \E t : inflight' = inflight \cup {t} /\ ~Deprives(t)
<1> DEFINE row == Unlocked(account[u])
           open == [row EXCEPT !.active = TRUE]
           t == Resets(u, open)
<1>1. /\ inflight' = inflight \cup {t} /\ raced' = raced \cup {u} /\ Exists(u) /\ left.requests > 0
      /\ account[u].role = "admin"
  BY DEF Recover, Exists
<1>2. Adds(t) /\ UNCHANGED <<forms, account, removals>>
  <2>1. t.user = u
    BY DEF Resets, Txn, NewReset, Dropping
  <2> QED BY <1>1, <2>1 DEF Recover, Adds, AccountsInv, AccountsTypeOK
<1>3. OfOne(t) /\ t.user = u /\ t.writes = Changed(account[u], NewPassword(open))
  BY <1>1 DEF OfOne, Txn, Resets, NewReset, Dropping
<1>4. account[u] \in Account
  BY <1>1, Rooms
<1>5. /\ row \in Account /\ row.role = account[u].role /\ row.version = account[u].version
     
  BY <1>4, UnlockedRow
<1> HIDE DEF t, row
<1>6. /\ open \in Account /\ open.role = row.role /\ open.active = TRUE /\ open.version = row.version
  BY <1>5 DEF Account
<1> HIDE DEF open
<1>7. /\ NewPassword(open) \in Account /\ NewPassword(open).role = "admin" /\ NewPassword(open).active = TRUE
      /\ NewPassword(open).version = account[u].version
  BY <1>1, <1>4, <1>5, <1>6, Passwords
<1>8. ~Deprives(t)
  BY <1>3, <1>7, KeptRow
<1>9. Within(account[u]) /\ Used \in Nat
  BY AccountsAssumption DEF AccountsInv, AccountsTypeOK, Entered, Used, AccountsAssumption
<1>10. NewPassword(open).version <= Used + 2
  BY <1>4, <1>7, <1>9, RowNumbers DEF Within
<1>11. Intends(t, account[u], NewPassword(open))
  <2>1. ~t.creates
    BY <1>1, <1>3 DEF OfOne
  <2> QED BY <1>1, <1>3, <1>4, <1>5, <1>6, <1>7, <2>1, RowNumbers DEF Intends
<1>12. AccountsInv'
  BY <1>1, <1>2, <1>3, <1>7, <1>10, <1>11, Begins
<1> QED BY <1>1, <1>2, <1>8, <1>12

\* What happens to the rest leaves transactions, roles and access of accounts alone.
LEMMA Others ==
  ASSUME AccountsInv,
         \/ \E u \in Users : LockPasses(u) \/ LoadForm(u)
         \/ \E s \in sessions : Logout(s)
         \/ \E r \in Roles : EditRole(r)
         \/ Expire \/ Approve \/ UNCHANGED accountVars
  PROVE  /\ AccountsInv' /\ UNCHANGED <<inflight, removals>>
         /\ \A u \in Users : IsAdmin(u)' = IsAdmin(u)
<1>1. \/ UNCHANGED account
      \/ \E u \in Users : account' = [account EXCEPT ![u].locked = FALSE]
  BY DEF LockPasses, LoadForm, Logout, EditRole, AtOnce, Expire, Approve, accountVars
<1>2. /\ UNCHANGED <<inflight, raced, resets, removals>>
      /\ left' \in [requests : 0 .. MaxRequest, others : 0 .. MaxOther] /\ left'.requests <= left.requests
      /\ sessions' \subseteq sessions /\ links' \subseteq links
  <2>1. left \in [requests : 0 .. MaxRequest, others : 0 .. MaxOther]
    BY DEF AccountsInv, AccountsTypeOK
  <2>2. CASE UNCHANGED left
    BY <2>1, <2>2, AccountsAssumption DEF LockPasses, LoadForm, Logout, EditRole, AtOnce, Expire, Approve, accountVars, AccountsAssumption, Other
  <2>3. CASE left' # left
    <3>1. \/ left.others > 0 /\ left' = [left EXCEPT !.others = @ - 1]
          \/ left.requests > 0 /\ left' = [left EXCEPT !.requests = @ - 1]
      <4>1. Other \/ AtOnce
        BY <2>3, Zenon DEF LockPasses, LoadForm, Logout, EditRole, Expire, Approve, accountVars
      <4> QED BY <4>1, Zenon DEF Other, AtOnce
    <3>2. left' \in [requests : 0 .. MaxRequest, others : 0 .. MaxOther] /\ left'.requests <= left.requests
      BY <2>1, <3>1, AccountsAssumption DEF AccountsAssumption
    <3> QED BY <2>3, <3>2 DEF LockPasses, LoadForm, Logout, EditRole, AtOnce, Expire, Approve, accountVars
  <2> QED BY <2>2, <2>3
<1>3. account \in [Users -> Account]
  BY DEF AccountsInv, AccountsTypeOK
<1>4. /\ account' \in [Users -> Account]
      /\ \A u \in Users : Same(account'[u], account[u])
  <2>1. CASE UNCHANGED account
    BY <1>3, <2>1 DEF Same
  <2>2. ASSUME NEW u \in Users, account' = [account EXCEPT ![u].locked = FALSE]
        PROVE  /\ account' \in [Users -> Account]
               /\ \A v \in Users : Same(account'[v], account[v])
    <3> DEFINE row == [account[u] EXCEPT !.locked = FALSE]
    <3>1. account[u] \in Account
      BY <1>3
    <3>2. row \in Account /\ Same(row, account[u])
      BY <3>1 DEF Same, Account
    <3>3. account' = [account EXCEPT ![u] = row]
      BY <2>2
    <3> HIDE DEF row
    <3> QED BY <1>3, <3>2, <3>3 DEF Same
  <2> QED BY <1>1, <2>1, <2>2
<1>5. \A row \in Account : Within(row) => Within(row)'
  <2>1. Used \in Nat /\ Used' \in Nat /\ Used <= Used'
    BY <1>2, AccountsAssumption DEF Used, AccountsInv, AccountsTypeOK, AccountsAssumption
  <2> QED BY <2>1, RowNumbers DEF Within
<1>6. \A u \in Users : IsAdmin(u)' = IsAdmin(u) /\ Exists(u)' = Exists(u)
  BY <1>4 DEF Same, IsAdmin, Exists
<1>7. /\ role' \in [Roles -> Role] /\ approved' \in BOOLEAN
  <2>1. CASE \E r \in Roles : EditRole(r)
    <3>1. PICK r \in Roles : EditRole(r)
      BY <2>1
    <3>2. role \in [Roles -> Role] /\ role[r] \in Role
      BY DEF AccountsInv, AccountsTypeOK
    <3>3. \E def \in Role : role' = [role EXCEPT ![r] = def]
      <4>1. CASE \E p \in Roles \cup {None} : role' = [role EXCEPT ![r].parent = p]
        <5>1. PICK p \in Roles \cup {None} : role' = [role EXCEPT ![r].parent = p]
          BY <4>1
        <5>2. [role[r] EXCEPT !.parent = p] \in Role
          BY <3>2 DEF Role
        <5> QED BY <5>1, <5>2
      <4>2. CASE role' = [role EXCEPT ![r].administers = ~@]
        <5>1. [role[r] EXCEPT !.administers = ~@] \in Role
          BY <3>2 DEF Role
        <5> QED BY <4>2, <5>1
      <4>3. CASE role' = [role EXCEPT ![r].active = ~@]
        <5>1. [role[r] EXCEPT !.active = ~@] \in Role
          BY <3>2 DEF Role
        <5> QED BY <4>3, <5>1
      <4> QED BY <3>1, <4>1, <4>2, <4>3 DEF EditRole
    <3> QED BY <3>1, <3>2, <3>3 DEF EditRole, AccountsInv, AccountsTypeOK
  <2>2. CASE ~\E r \in Roles : EditRole(r)
    BY <2>2 DEF LockPasses, LoadForm, Logout, Expire, Approve, accountVars, AccountsInv, AccountsTypeOK
  <2> QED BY <2>1, <2>2
<1>8. \/ forms' = forms
      \/ \E u \in Users : /\ Exists(u) /\ account' = account
                          /\ forms' = {[user |-> u, version |-> account[u].version, role |-> account[u].role,
                                        active |-> account[u].active]}
  BY DEF LockPasses, LoadForm, Logout, EditRole, AtOnce, Expire, Approve, accountVars
<1>9. forms' \subseteq Form /\ Versioned' /\ \A f \in forms' : Exists(f.user)'
  <2>1. CASE forms' = forms
    <3>1. \A f \in forms : f.user \in Users
      BY DEF AccountsInv, AccountsTypeOK, Form
    <3> QED BY <1>2, <1>4, <1>6, <2>1, <3>1 DEF AccountsInv, AccountsTypeOK, Owned, Versioned, Same
  <2>2. ASSUME NEW u \in Users, Exists(u), account' = account,
               forms' = {[user |-> u, version |-> account[u].version, role |-> account[u].role,
                          active |-> account[u].active]}
        PROVE  forms' \subseteq Form /\ Versioned' /\ \A f \in forms' : Exists(f.user)'
    BY <1>3, <1>6, <2>2 DEF Form, Account, Exists, Versioned
  <2> QED BY <1>8, <2>1, <2>2
<1>10. AccountsTypeOK'
  BY <1>2, <1>4, <1>7, <1>9 DEF AccountsInv, AccountsTypeOK
<1>a. Used \in Nat /\ Used' \in Nat /\ Used <= Used'
  BY <1>2, AccountsAssumption DEF Used, AccountsInv, AccountsTypeOK, AccountsAssumption
<1>11. Entered'
  <2>1. ASSUME NEW u \in Users PROVE Within(account[u])'
    <3>1. Within(account[u]) /\ Same(account'[u], account[u]) /\ account[u] \in Account
      BY <1>3, <1>4 DEF AccountsInv, Entered
    <3> QED BY <1>a, <3>1, RowNumbers DEF Within, Same
  <2> QED BY <2>1 DEF Entered
<1>12. Owned'
  <2>1. \A s \in sessions : s.user \in Users /\ Exists(s.user)
    BY DEF AccountsInv, AccountsTypeOK, Session, Owned
  <2>2. \A l \in links : l[1] \in Users /\ Exists(l[1])
    BY DEF AccountsInv, AccountsTypeOK, Links, Owned
  <2> QED BY <1>2, <1>6, <1>9, <2>1, <2>2 DEF Owned
<1>13. Alone'
  BY <1>2 DEF AccountsInv, Alone
<1>14. Ending' /\ SessionsEndWithPassword'
  <2>1. \A u \in Users : resets[u].begun \in Nat
    BY DEF AccountsInv, AccountsTypeOK, Resetting
  <2>2. \A u \in Users : resets[u].begun <= Used'
    BY <1>a, <2>1 DEF AccountsInv, Ending
  <2> QED BY <1>2, <2>2 DEF AccountsInv, Ending, SessionsEndWithPassword
<1>15. ASSUME NEW t \in inflight PROVE Planned(t)'
  <2>1. Planned(t)
    BY DEF AccountsInv
  <2>2. PICK old, new \in Account :
          /\ Intends(t, old, new) /\ Within(new)
          /\ t.user \notin raced => Same(account[t.user], old) /\ Announced(t, old, new)
    BY <2>1 DEF Planned
  <2>3. t.user \in Users /\ Exists(t.user)' = Exists(t.user) /\ Same(account'[t.user], account[t.user])
    BY <1>4, <1>6, <2>1 DEF Planned
  <2>4. t.user \notin raced => Same(account'[t.user], old)
    BY <2>2, <2>3 DEF Same
  <2> QED BY <1>2, <1>5, <2>1, <2>2, <2>3, <2>4 DEF Planned
<1> QED BY <1>2, <1>6, <1>9, <1>10, <1>11, <1>12, <1>13, <1>14, <1>15 DEF AccountsInv

-----------------------------------------------------------------------------
(* Accounts: the steps together.                                           *)

\* Nobody is about to take the access of this administrator.
Safe(u) == IsAdmin(u) /\ \A t \in inflight : t.user = u /\ Deprives(t) => t.creates

AdministratorIsSafe == removals \/ \E u \in Users : Safe(u)

\* A step begins a transaction, commits one, or leaves both to themselves.
LEMMA StepKinds ==
  ASSUME AccountsInv, [AccountsNext]_accountVars
  PROVE  /\ AccountsInv'
         /\ \/ \E t : Begin(t) /\ Kept(t)
            \/ \E t \in inflight : Commit(t)
            \/ /\ \A u \in Users : IsAdmin(u)' = IsAdmin(u)
               /\ removals' = removals
               /\ inflight' = inflight \/ \E t : inflight' = inflight \cup {t} /\ ~Deprives(t)
<1>1. CASE \E t \in inflight : Commit(t)
  BY <1>1, Commits
<1>2. CASE \/ \E u \in Users : Login(u) \/ LoginFails(u)
           \/ \E i \in Identities : MicrosoftSignIn(i)
  BY <1>2, Logins, SignIns
<1>3. CASE \/ \E s \in sessions : ChangePassword(s)
           \/ \E l \in links : ResetPassword(l)
           \/ \E u \in Users : ForgotPassword(u) \/ ResetUserPassword(u)
  BY <1>3, PasswordSteps
<1>4. CASE \E u \in Users : CreateUser(u) \/ DeactivateUser(u) \/ RevokeSessions(u) \/ ForcePasswordChange(u)
  BY <1>4, AdministrationSteps
<1>5. ASSUME NEW f \in forms, UpdateUser(f)
      PROVE  /\ AccountsInv'
             /\ \/ \E t : Begin(t) /\ Kept(t)
                \/ (\A u \in Users : IsAdmin(u)' = IsAdmin(u)) /\ removals' = removals /\ inflight' = inflight
  BY <1>5, Updates DEF IsAdmin
<1>6. ASSUME NEW u \in Users, Recover(u)
      PROVE  /\ AccountsInv' /\ (\A v \in Users : IsAdmin(v)' = IsAdmin(v)) /\ removals' = removals
             /\ \E t : inflight' = inflight \cup {t} /\ ~Deprives(t)
  BY <1>6, Recovers DEF IsAdmin
<1>7. CASE \/ \E u \in Users : LockPasses(u) \/ LoadForm(u)
           \/ \E s \in sessions : Logout(s)
           \/ \E r \in Roles : EditRole(r)
           \/ Expire \/ Approve \/ UNCHANGED accountVars
  BY <1>7, Others
<1> QED BY <1>1, <1>2, <1>3, <1>4, <1>5, <1>6, <1>7 DEF AccountsNext

\* What is committed to the account of a safe administrator leaves its role and access.
LEMMA SafeCommit ==
  ASSUME AccountsInv, NEW t \in inflight, Commit(t), NEW u \in Users, Safe(u)
  PROVE  Safe(u)'
<1>1. inflight' = inflight \ {t}
  BY DEF Commit
<1>2. CASE t.user # u
  BY <1>1, <1>2, Commits DEF Safe, IsAdmin
<1>3. CASE t.user = u
  <2>1. CASE Conflicts(t)
    BY <1>1, <2>1 DEF Commit, Safe, IsAdmin
  <2>2. CASE ~Conflicts(t)
    <3>1. ~Deprives(t)
      BY <1>3, <2>2 DEF Safe, Conflicts, IsAdmin, Exists
    <3>2. account' = [account EXCEPT ![u] = Written(account[u], t.writes)] /\ account[u] \in Account
          /\ account \in [Users -> Account]
      BY <1>3, <2>2 DEF Commit, AccountsInv, AccountsTypeOK
    <3>3. PICK old, new \in Account : t.writes = Changed(old, new)
      BY DEF AccountsInv, Planned, Intends
    <3>4. IsAdmin(u)'
      BY <3>1, <3>2, <3>3, RowWritten, RowNumbers DEF Safe, IsAdmin, Deprives
    <3> QED BY <1>1, <3>4 DEF Safe
  <2> QED BY <2>1, <2>2
<1> QED BY <1>2, <1>3

LEMMA SafeStep ==
  ASSUME AccountsInv, AdministratorIsSafe, [AccountsNext]_accountVars
  PROVE  AdministratorIsSafe'
<1>1. CASE removals
  BY <1>1, StepKinds DEF AdministratorIsSafe, Begin, Commit
<1>2. ASSUME NEW u \in Users, Safe(u) PROVE AdministratorIsSafe'
  <2>1. CASE \E t \in inflight : Commit(t)
    BY <1>2, <2>1, SafeCommit DEF AdministratorIsSafe
  <2>2. ASSUME NEW t, Begin(t), Kept(t) PROVE AdministratorIsSafe'
    <3>1. /\ inflight' = inflight \cup {t} /\ account' = account
          /\ removals' = (removals \/ (Removes(t) /\ \E o \in inflight : Removes(o)))
      BY <2>2 DEF Begin
    <3>2. CASE ~(t.user = u /\ Deprives(t))
      BY <1>2, <3>1, <3>2 DEF AdministratorIsSafe, Safe, IsAdmin
    <3>3. CASE t.user = u /\ Deprives(t)
      <4>1. PICK v \in Users \ {u} : IsAdmin(v)
        BY <1>2, <2>2, <3>3 DEF Kept, OtherAdmins, Safe
      <4>2. CASE Safe(v)
        BY <3>1, <3>3, <4>1, <4>2 DEF AdministratorIsSafe, Safe, IsAdmin
      <4>3. CASE ~Safe(v)
        <5>1. PICK o \in inflight : o.user = v /\ Deprives(o)
          BY <4>1, <4>3 DEF Safe
        <5>2. Removes(o) /\ Removes(t)
          BY <1>2, <3>3, <4>1, <5>1 DEF Removes, Safe
        <5> QED BY <3>1, <5>2 DEF AdministratorIsSafe
      <4> QED BY <4>2, <4>3
    <3> QED BY <3>2, <3>3
  <2>3. CASE /\ \A v \in Users : IsAdmin(v)' = IsAdmin(v)
             /\ inflight' = inflight \/ \E t : inflight' = inflight \cup {t} /\ ~Deprives(t)
    BY <1>2, <2>3 DEF AdministratorIsSafe, Safe
  <2> QED BY <2>1, <2>2, <2>3, StepKinds
<1> QED BY <1>1, <1>2 DEF AdministratorIsSafe

LEMMA AccountsStart == AccountsInit => AccountsInv /\ AdministratorIsSafe
<1> SUFFICES ASSUME AccountsInit PROVE AccountsInv /\ AdministratorIsSafe
  OBVIOUS
<1>1. /\ MaxRequest \in Nat /\ Admins \subseteq Users /\ Admins # {} /\ MaxOther \in Nat /\ 0 \in 0 .. Attempts
      /\ GivenRoles \in [Roles -> Role] /\ Used = 0
  BY AccountsAssumption DEF AccountsAssumption, Role, AccountsInit, Used
<1>2. NewAccount \in Account
  BY <1>1 DEF NewAccount, Account
<1>3. [NewAccount EXCEPT !.role = "admin", !.password = TRUE] \in Account
  BY <1>2 DEF Account
<1>4. account \in [Users -> Account]
  BY <1>2, <1>3 DEF AccountsInit
<1>5. \A u \in Users :
        /\ account[u].version = 1 /\ account[u].active
        /\ account[u].role = IF u \in Admins THEN "admin" ELSE "none"
  BY DEF AccountsInit, NewAccount
<1>6. AccountsTypeOK
  <2>1. \A u \in Admins : [user |-> u, after |-> 0] \in Session
    BY <1>1 DEF Session
  <2>3. resets \in [Users -> Resetting]
    BY <1>1 DEF AccountsInit, Resetting
  <2>2. left \in [requests : 0 .. MaxRequest, others : 0 .. MaxOther]
    BY <1>1 DEF AccountsInit
  <2> QED BY <1>1, <1>4, <2>1, <2>2, <2>3 DEF AccountsInit, AccountsTypeOK
<1>7. Entered /\ Owned
  BY <1>1, <1>5 DEF Entered, Owned, Within, Exists, AccountsInit
<1>8. Alone /\ Versioned /\ Ending /\ SessionsEndWithPassword
  BY <1>1 DEF Alone, Versioned, Ending, SessionsEndWithPassword, AccountsInit
<1>9. AdministratorIsSafe
  BY <1>1, <1>5 DEF AdministratorIsSafe, Safe, IsAdmin, AccountsInit
<1> QED BY <1>6, <1>7, <1>8, <1>9 DEF AccountsInv, AccountsInit

\* What a transaction read of an account that is not raced is true until it is committed.
THEOREM AccountsInductive == AccountsSpec => [](AccountsInv /\ AdministratorIsSafe)
<1>1. AccountsInv /\ AdministratorIsSafe /\ [AccountsNext]_accountVars => (AccountsInv /\ AdministratorIsSafe)'
  BY StepKinds, SafeStep
<1> QED BY <1>1, AccountsStart, PTL DEF AccountsSpec

\* Accounts, sessions, links, roles and forms only hold what their steps write.
THEOREM AccountsTypeCorrect == AccountsSpec => []AccountsTypeOK
<1>1. AccountsInv => AccountsTypeOK
  BY DEF AccountsInv
<1> QED BY <1>1, AccountsInductive, PTL

\* An active administrator is left, for any number of administrators and of requests of
\* any kind, except where two removals overlapped (admin_count is read without a lock).
THEOREM AdministratorStays == AccountsSpec => []AdministratorRemains
<1>1. AdministratorIsSafe => AdministratorRemains
  BY DEF AdministratorIsSafe, AdministratorRemains, Safe
<1> QED BY <1>1, AccountsInductive, PTL

\* A session that is on record when a reset of the password begins does not outlive it: by
\* an administrator, a link or the recovery program, and whatever else overlaps it.  What
\* is left has been put on record by a sign-in that was still in flight, or by a later one.
THEOREM ResetsEndSessions == AccountsSpec => []SessionsEndWithPassword
<1>1. AccountsInv => SessionsEndWithPassword
  BY DEF AccountsInv
<1> QED BY <1>1, AccountsInductive, PTL

\* update_user replaces the role and the access its form showed: an account that changed
\* since has another version, which conflict_guard refuses.
THEOREM SavesOverSeen == AccountsSpec => SavedOverSeen
<1> DEFINE Seen == \A t \in inflight \ inflight' :
                     t.form = None \/ t.user \in raced
                       \/ (account[t.user].role = t.form.role /\ account[t.user].active = t.form.active)
<1>1. AccountsInv /\ [AccountsNext]_accountVars => [Seen]_accountVars
  <2> SUFFICES ASSUME AccountsInv, NEW t \in inflight, t.form # None, t.user \notin raced
               PROVE  account[t.user].role = t.form.role /\ account[t.user].active = t.form.active
    OBVIOUS
  <2>1. PICK old, new \in Account : Same(account[t.user], old) /\ Announced(t, old, new)
    BY DEF AccountsInv, Planned
  <2> QED BY <2>1 DEF Same, Announced
<1> QED BY <1>1, AccountsInductive, PTL DEF AccountsSpec, SavedOverSeen
=============================================================================
