----------------------------- MODULE Https_proofs -----------------------------
(***************************************************************************)
(* Proofs about Https, for any number of certificates, installations and   *)
(* stops: its variables keep their types, the Caddyfile names only files   *)
(* that are there, and an expired certificate is reported once.            *)
(***************************************************************************)
EXTENDS MCHttps, TLAPS

(* The inductive invariant.                                                *)

Monitor == [failures : 0 .. 2, warned : Cert \cup {None}, stands : Standing]

Underway == {"checked", "cert", "key", "written", "restart", "verify"}

\* What a call of install_certificate and the job of the worker hold.
Calls == {Idle, Ended} \cup [op : Underway, cert : Cert]

Probing == {"probe", "repair", "restart", "again"}

Jobs ==
  {Idle}
  \cup [op : {"fallback"}, warning : Cert \cup {None}]
  \cup [op : Probing, expected : Cert, monitor : Monitor]
  \cup [op : {"commit"}, monitor : Monitor]

Types == TypeOK /\ call \in [Installation -> Calls] /\ job \in Jobs

Present == file.cert # None /\ file.key # None

\* A call that replaced a file finds one there.
Replaced(c) ==
  /\ c.op \in {"cert", "key", "written", "restart", "verify"} => file.cert # None
  /\ c.op \in {"key", "written", "restart", "verify"} => file.key # None

\* Whoever is about to name the two files, or to record a certificate, has seen or has
\* put them there.
Installed ==
  /\ \A i \in Installation : Replaced(call[i])
  /\ status # None => Present
  /\ setup = "custom" => Present
  /\ job.op \in Probing => Present

Inv == Types /\ Installed /\ CaddyfileNamesInstalled

LEMMA IdleIs ==
  /\ Idle.op = "idle" /\ Idle \in Calls /\ Idle \in Jobs
  /\ Ended.op = "ended" /\ Ended \in Calls
BY DEF Idle, Ended, Calls, Jobs

LEMMA InitInv == Init => Inv
<1> SUFFICES ASSUME Init PROVE Inv
  OBVIOUS
<1>1. call \in [Installation -> Calls] /\ \A i \in Installation : call[i] = Idle
  BY IdleIs DEF Init
<1>2. Types
  BY <1>1, IdleIs, HttpsAssumption DEF HttpsAssumption, Init, Types, TypeOK, Standing
<1>3. Installed /\ CaddyfileNamesInstalled
  BY <1>1, IdleIs DEF Init, Installed, Replaced, Probing, CaddyfileNamesInstalled
<1> QED BY <1>2, <1>3 DEF Inv

LEMMA ProbeHas ==
  ASSUME Types, job.op \in Probing
  PROVE  job \in [op : Probing, expected : Cert, monitor : Monitor]
BY DEF Types, Jobs, Idle, Probing

LEMMA FallBackHas ==
  ASSUME Types, job.op = "fallback"
  PROVE  job \in [op : {"fallback"}, warning : Cert \cup {None}]
BY DEF Types, Jobs, Idle, Probing

LEMMA CommitHas ==
  ASSUME Types, job.op = "commit"
  PROVE  job \in [op : {"commit"}, monitor : Monitor]
BY DEF Types, Jobs, Idle, Probing

LEMMA CertIsThere == \A x \in Cert : x # None
BY HttpsAssumption DEF HttpsAssumption

\* Only with both files is the custom certificate selected.
LEMMA SelectedIsPresent == SelectedTls \in {"internal", "custom"} /\ (SelectedTls = "custom" => Present)
BY DEF SelectedTls, Present

\* What Caddy can serve.
LEMMA LoadedIs == ASSUME Inv PROVE Loaded \in Cert \cup {"internal", "down"}
BY DEF Inv, Types, TypeOK, Loaded, CaddyfileNamesInstalled

(* The steps.                                                              *)

\* Calls that are what they were, or know their certificate, have their types.
LEMMA CallsTyped ==
  ASSUME call \in [Installation -> Calls]
  PROVE  /\ DOMAIN call = Installation
         /\ \A i \in Installation :
              call[i].op \in {"idle", "checked", "cert", "key", "written", "restart", "verify", "ended"}
BY IdleIs DEF Calls, Underway

LEMMA Begins == ASSUME Inv, NEW i \in Installation, BeginInstall(i) PROVE Inv'
<1>1. PICK u \in Upload : call' = [call EXCEPT ![i] = [op |-> "checked", cert |-> u.leaf]]
  BY DEF BeginInstall
<1>2. [op |-> "checked", cert |-> u.leaf] \in Calls
  BY DEF Upload, Calls, Underway
<1>3. /\ call' \in [Installation -> Calls]
      /\ \A j \in Installation : call'[j] = call[j] \/ call'[j].op = "checked"
  BY <1>1, <1>2 DEF Inv, Types
<1>4. UNCHANGED <<file, tls, status, served, expired, job, monitor, setup, stops>>
  BY DEF BeginInstall, files
<1>5. Types'
  BY <1>3, <1>4, CallsTyped DEF Inv, Types, TypeOK, Calls, Underway, Idle, Ended
<1>6. Installed' /\ CaddyfileNamesInstalled'
  BY <1>3, <1>4 DEF Inv, Installed, Replaced, Present, CaddyfileNamesInstalled
<1> QED BY <1>5, <1>6 DEF Inv

\* A call that moves on knows its certificate, and the others stay where they are.
LEMMA CallMoves ==
  ASSUME Inv, NEW i \in Installation, NEW from \in Underway, NEW to \in Underway \cup {"ended"},
         InstallStep(i, from, to)
  PROVE  /\ call[i].op = from /\ call[i].cert \in Cert
         /\ call' \in [Installation -> Calls] /\ call'[i].op = to
         /\ \A j \in Installation \ {i} : call'[j] = call[j]
         /\ UNCHANGED <<expired, job, monitor, setup, stops>>
<1>1. call[i].op = from /\ call[i] \in Calls
  BY DEF Inv, Types, InstallStep
<1>2. call[i] \in [op : Underway, cert : Cert]
  BY <1>1, IdleIs DEF Calls, Underway
<1>3. CASE to = "ended"
  BY <1>1, <1>2, <1>3, IdleIs DEF InstallStep, Inv, Types
<1>4. CASE to # "ended"
  <2>1. At(to, call[i]) \in [op : Underway, cert : Cert] /\ At(to, call[i]).op = to
    BY <1>2, <1>4 DEF At
  <2>2. At(to, call[i]) \in Calls
    BY <2>1 DEF Calls
  <2>3. call' = [call EXCEPT ![i] = At(to, call[i])]
    BY <1>4 DEF InstallStep
  <2> QED BY <1>1, <1>2, <2>1, <2>2, <2>3 DEF InstallStep, Inv, Types
<1> QED BY <1>3, <1>4

\* A step of a call that puts files there, or leaves them there, and names or records
\* them only when both are.
LEMMA CallKeeps ==
  ASSUME Inv, NEW i \in Installation,
         call' \in [Installation -> Calls], \A j \in Installation \ {i} : call'[j] = call[j],
         UNCHANGED <<expired, job, monitor, setup, stops>>,
         file' \in [cert : Cert \cup {None}, key : Cert \cup {None}],
         file.cert # None => file'.cert # None, file.key # None => file'.key # None,
         Replaced(call[i])',
         tls' = tls \/ (tls' = "custom" /\ Present'),
         status' = status \/ (status' \in Cert /\ Present'),
         served' \in Cert \cup {"internal", "down"}
  PROVE  Inv'
<1>1. Types'
  BY CallsTyped DEF Inv, Types, TypeOK, Calls, Underway, Idle, Ended
<1>2. \A j \in Installation : Replaced(call[j])'
  BY DEF Inv, Installed, Replaced
<1>3. Installed' /\ CaddyfileNamesInstalled'
  BY <1>2 DEF Inv, Installed, Present, CaddyfileNamesInstalled
<1> QED BY <1>1, <1>3 DEF Inv

LEMMA Installs == ASSUME Inv, NEW i \in Installation, Install(i) PROVE Inv'
<1> USE CertIsThere DEF Underway
<1>a. /\ Replaced(call[i])
      /\ file \in [cert : Cert \cup {None}, key : Cert \cup {None}]
      /\ served \in Cert \cup {"internal", "down"}
  BY DEF Inv, Types, TypeOK, Installed
<1>1. CASE ReplaceCertificate(i)
  <2>1. InstallStep(i, "checked", "cert")
    BY <1>1 DEF ReplaceCertificate
  <2>2. /\ file' = [file EXCEPT !.cert = call[i].cert]
        /\ UNCHANGED <<tls, status, served>>
    BY <1>1 DEF ReplaceCertificate
  <2> QED BY <1>a, <2>1, <2>2, CallMoves, CallKeeps DEF Replaced
<1>2. CASE ReplaceKey(i)
  <2>1. InstallStep(i, "cert", "key")
    BY <1>2 DEF ReplaceKey
  <2>2. /\ file' = [file EXCEPT !.key = call[i].cert]
        /\ UNCHANGED <<tls, status, served>>
    BY <1>2 DEF ReplaceKey
  <2> QED BY <1>a, <2>1, <2>2, CallMoves, CallKeeps DEF Replaced
<1>3. CASE WriteCaddyfile(i)
  <2>1. InstallStep(i, "key", "written") /\ tls' = "custom" /\ UNCHANGED <<file, status, served>>
    BY <1>3 DEF WriteCaddyfile
  <2> QED BY <1>a, <2>1, CallMoves, CallKeeps DEF Replaced, Present
<1>4. CASE Record(i)
  <2>1. /\ InstallStep(i, "written", "restart")
        /\ status' = call[i].cert /\ UNCHANGED <<file, tls, served>>
    BY <1>4 DEF Record
  <2> QED BY <1>a, <2>1, CallMoves, CallKeeps DEF Replaced, Present
<1>5. CASE InstallFails(i)
  <2>1. PICK op \in {"checked", "cert", "key", "written"} : InstallStep(i, op, "ended")
    BY <1>5 DEF InstallFails
  <2>2. /\ status' = status \/ (call[i].op = "written" /\ status' = call[i].cert)
        /\ UNCHANGED <<file, tls, served>>
    BY <1>5 DEF InstallFails
  <2>3. /\ call[i].cert \in Cert /\ call' \in [Installation -> Calls] /\ call'[i].op = "ended"
        /\ \A j \in Installation \ {i} : call'[j] = call[j]
        /\ UNCHANGED <<expired, job, monitor, setup, stops>>
    BY <2>1, CallMoves
  <2> QED BY <1>a, <2>2, <2>3, CallKeeps DEF Replaced, Present
<1>6. CASE RestartHttps(i)
  <2>1. /\ InstallStep(i, "restart", "verify") /\ UNCHANGED <<file, tls, status>>
        /\ served' \in Cert \cup {"internal", "down"}
    BY <1>6, LoadedIs DEF RestartHttps, Cycled, files
  <2> QED BY <1>a, <2>1, CallMoves, CallKeeps DEF Replaced, Present
<1>7. CASE RestartIsRecorded(i)
  <2>1. /\ InstallStep(i, "verify", "ended")
        /\ status' = call[i].cert /\ UNCHANGED <<file, tls, served>>
    BY <1>7 DEF RestartIsRecorded
  <2> QED BY <1>a, <2>1, CallMoves, CallKeeps DEF Replaced, Present
<1> QED BY <1>1, <1>2, <1>3, <1>4, <1>5, <1>6, <1>7 DEF Install

LEMMA SetsUp == ASSUME Inv, BeginSetup \/ WriteCaddyConfig PROVE Inv'
<1>1. CASE BeginSetup
  <2>1. /\ setup' \in {"internal", "custom"} /\ (setup' = "custom" => Present)
        /\ stops' \in 0 .. MaxStop
        /\ UNCHANGED <<file, tls, status, served, expired, call, job, monitor>>
    BY <1>1, SelectedIsPresent, HttpsAssumption DEF HttpsAssumption, BeginSetup, files, Inv, Types, TypeOK
  <2>2. Types'
    BY <2>1 DEF Inv, Types, TypeOK
  <2>3. Installed' /\ CaddyfileNamesInstalled'
    BY <2>1 DEF Inv, Installed, Replaced, Present, CaddyfileNamesInstalled
  <2> QED BY <2>2, <2>3 DEF Inv
<1>2. CASE WriteCaddyConfig
  <2>1. /\ setup # "idle" /\ tls' = setup /\ setup' = "idle"
        /\ UNCHANGED <<file, status, served, expired, call, job, monitor, stops>>
    BY <1>2 DEF WriteCaddyConfig
  <2>2. Types'
    BY <2>1 DEF Inv, Types, TypeOK
  <2>3. Installed' /\ CaddyfileNamesInstalled'
    BY <2>1 DEF Inv, Installed, Replaced, Present, CaddyfileNamesInstalled
  <2> QED BY <2>2, <2>3 DEF Inv
<1> QED BY <1>1, <1>2

\* What the job decides is a monitor.
LEMMA DecidedIs ==
  \A w \in Cert \cup {None} : \A f \in {0, 1, 2}, s \in {"healthy", "failed", "attention"} :
    /\ Decided(f, w, s) \in Jobs
    /\ Decided(f, w, s).op = "commit" /\ Decided(f, w, s).monitor.warned = w
<1> SUFFICES ASSUME NEW w \in Cert \cup {None}, NEW f \in {0, 1, 2}, NEW s \in {"healthy", "failed", "attention"}
             PROVE  /\ Decided(f, w, s) \in Jobs
                    /\ Decided(f, w, s).op = "commit" /\ Decided(f, w, s).monitor.warned = w
  OBVIOUS
<1>1. [failures |-> f, warned |-> w, stands |-> s] \in Monitor
  BY DEF Monitor, Standing
<1>2. [op |-> "commit", monitor |-> [failures |-> f, warned |-> w, stands |-> s]] \in [op : {"commit"}, monitor : Monitor]
  BY <1>1
<1> QED BY <1>2 DEF Decided, Jobs

\* What a step of the job may do.
JobSteps ==
  /\ job' \in Jobs /\ UNCHANGED <<file, expired, call, monitor, setup, stops>>
  /\ tls' \in {"internal", "custom"} /\ (tls' = "custom" => Present)
  /\ status' = status \/ (status' \in Cert /\ Present)
  /\ served' \in Cert \cup {"internal", "down"}
  /\ job'.op \in Probing => Present

LEMMA JobKeeps == ASSUME Inv, JobSteps PROVE Inv'
<1>1. job'.op \in {"idle", "fallback", "probe", "repair", "restart", "again", "commit"}
  BY DEF JobSteps, Jobs, Idle, Probing
<1>2. Types'
  BY <1>1 DEF JobSteps, Inv, Types, TypeOK
<1>3. Installed' /\ CaddyfileNamesInstalled'
  BY DEF JobSteps, Inv, Installed, Replaced, Present, CaddyfileNamesInstalled
<1> QED BY <1>2, <1>3 DEF Inv

LEMMA MonitorIs == Types => monitor \in Monitor
BY DEF Types, TypeOK, Monitor

\* The job remembers the certificate it warned of, or is about to: x.
Remembers(x) ==
  /\ job.op = "fallback" => job.warning = x
  /\ job.op \in Probing \cup {"commit"} => job.monitor.warned = x

\* The steps that follow CheckHealth.
Continues == FallBack \/ FallBackFails \/ Probe \/ Repair \/ RepairFails \/ RepairRestart \/ RepairIsRecorded

LEMMA Checks ==
  ASSUME Inv, CheckHealth
  PROVE  /\ JobSteps
         /\ monitor.warned = file.cert => Remembers(file.cert)'
<1>1. /\ job' = IF SelectedTls = "internal"
                THEN [op |-> "fallback", warning |-> file.cert]
                ELSE [op |-> "probe", expected |-> status, monitor |-> monitor]
      /\ status \in Cert
      /\ UNCHANGED <<file, tls, status, served, expired, call, monitor, setup, stops>>
  BY DEF CheckHealth, JobStep, files, Inv, Types, TypeOK
<1>2. file.cert \in Cert \cup {None} /\ monitor \in Monitor
  BY MonitorIs DEF Inv, Types, TypeOK
<1>3. /\ tls \in {"internal", "custom"} /\ (tls = "custom" => Present)
      /\ served \in Cert \cup {"internal", "down"}
  BY DEF Inv, Types, TypeOK, CaddyfileNamesInstalled, Present
<1>4. CASE SelectedTls = "internal"
  <2>1. job' \in Jobs /\ job'.op = "fallback" /\ job'.warning = file.cert
    BY <1>1, <1>2, <1>4 DEF Jobs
  <2> QED BY <1>1, <1>3, <2>1 DEF JobSteps, Remembers, Probing
<1>5. CASE SelectedTls # "internal"
  <2>1. job' \in Jobs /\ job'.op = "probe" /\ job'.monitor = monitor
    BY <1>1, <1>2, <1>5 DEF Jobs, Probing
  <2>2. Present
    BY <1>5, SelectedIsPresent
  <2> QED BY <1>1, <1>3, <2>1, <2>2 DEF JobSteps, Remembers
<1> QED BY <1>4, <1>5

\* The later steps of the job carry the warning, or what was there.
LEMMA Carries ==
  ASSUME Inv, Continues
  PROVE  JobSteps /\ \A x : Remembers(x) => Remembers(x)'
<1>a. /\ tls \in {"internal", "custom"} /\ (tls = "custom" => Present)
      /\ served \in Cert \cup {"internal", "down"}
  BY DEF Inv, Types, TypeOK, CaddyfileNamesInstalled, Present
<1>1. CASE FallBack \/ FallBackFails
  <2>1. job.op = "fallback" /\ job' = Decided(0, job.warning, "attention")
    BY <1>1 DEF FallBack, FallBackFails, JobStep
  <2>2. job.warning \in Cert \cup {None}
    BY <2>1, FallBackHas DEF Inv
  <2>3. job' \in Jobs /\ job'.op = "commit" /\ job'.monitor.warned = job.warning
    BY <2>1, <2>2, DecidedIs
  <2>4. /\ tls' \in {"internal", tls} /\ served' \in Cert \cup {"internal", "down"}
        /\ UNCHANGED <<file, status, expired, call, monitor, setup, stops>>
    BY <1>1, <1>a, LoadedIs DEF FallBack, FallBackFails, JobStep, files
  <2> QED BY <1>a, <2>1, <2>3, <2>4 DEF JobSteps, Remembers, Probing
<1>2. CASE Probe \/ Repair \/ RepairFails \/ RepairRestart \/ RepairIsRecorded
  <2>1. job.op \in Probing
    BY <1>2 DEF Probing, Probe, Repair, RepairFails, RepairRestart, RepairIsRecorded
  <2>2. /\ job \in [op : Probing, expected : Cert, monitor : Monitor]
        /\ job.monitor.warned \in Cert \cup {None} /\ Present
    BY <2>1, ProbeHas DEF Inv, Installed, Monitor
  <2>3. \/ \E f \in {0, 1, 2}, s \in {"healthy", "failed", "attention"} :
             job' = Decided(f, job.monitor.warned, s)
        \/ \E o \in {"restart", "again"} : job' = [job EXCEPT !.op = o]
        \/ job' = [job EXCEPT !.op = "repair", !.monitor.failures = 2]
    <3>1. CASE Probe
      BY <3>1 DEF Probe, JobStep
    <3>2. CASE Repair \/ RepairFails \/ RepairRestart \/ RepairIsRecorded
      BY <3>2 DEF Repair, RepairFails, RepairRestart, RepairIsRecorded, JobStep
    <3> QED BY <1>2, <3>1, <3>2
  <2>4. /\ job' \in Jobs /\ job'.op \in Probing \cup {"commit"}
        /\ job'.monitor.warned = job.monitor.warned
    <3>1. CASE \E f \in {0, 1, 2}, s \in {"healthy", "failed", "attention"} :
                 job' = Decided(f, job.monitor.warned, s)
      BY <2>2, <3>1, DecidedIs
    <3>2. CASE \E o \in {"restart", "again"} : job' = [job EXCEPT !.op = o]
      BY <2>2, <3>2 DEF Jobs, Probing
    <3>3. CASE job' = [job EXCEPT !.op = "repair", !.monitor.failures = 2]
      <4>1. /\ [job.monitor EXCEPT !.failures = 2] \in Monitor
            /\ [job.monitor EXCEPT !.failures = 2].warned = job.monitor.warned
        BY <2>2 DEF Monitor
      <4>2. job' = [job EXCEPT !.op = "repair", !.monitor = [job.monitor EXCEPT !.failures = 2]]
        BY <2>2, <3>3
      <4> QED BY <2>2, <4>1, <4>2 DEF Jobs, Probing
    <3> QED BY <2>3, <3>1, <3>2, <3>3
  <2>5. /\ UNCHANGED <<file, expired, call, monitor, setup, stops>>
        /\ tls' \in {"custom", tls}
        /\ status' \in {status, job.expected}
        /\ served' \in Cert \cup {"internal", "down"}
    <3>1. CASE Probe \/ RepairFails
      BY <3>1, <1>a DEF Probe, RepairFails, JobStep, files
    <3>2. CASE Repair
      BY <3>2, <1>a DEF Repair, JobStep
    <3>3. CASE RepairRestart
      BY <3>3, LoadedIs DEF RepairRestart, Cycled, JobStep, files
    <3>4. CASE RepairIsRecorded
      BY <3>4, <1>a DEF RepairIsRecorded, JobStep
    <3> QED BY <1>2, <3>1, <3>2, <3>3, <3>4
  <2>6. JobSteps
    BY <1>a, <2>2, <2>4, <2>5 DEF JobSteps
  <2>7. \A x : Remembers(x) => Remembers(x)'
    BY <2>1, <2>4 DEF Remembers, Probing
  <2> QED BY <2>6, <2>7
<1> QED BY <1>1, <1>2 DEF Continues

LEMMA JobIs == ASSUME Inv, HealthJob PROVE JobSteps
BY Checks, Carries DEF HealthJob, Continues

LEMMA Ends == ASSUME Inv, Commit \/ Rollback PROVE Inv'
<1>1. /\ job' = Idle /\ monitor' \in Monitor
      /\ UNCHANGED <<file, tls, status, served, expired, call, setup, stops>>
  <2>1. job.op = "commit" => job.monitor \in Monitor
    BY CommitHas DEF Inv
  <2> QED BY <2>1, MonitorIs DEF Commit, Rollback, files, Inv
<1>2. Types'
  BY <1>1, IdleIs DEF Inv, Types, TypeOK, Monitor
<1>3. Installed' /\ CaddyfileNamesInstalled'
  BY <1>1, IdleIs DEF Inv, Installed, Replaced, Present, CaddyfileNamesInstalled, Probing
<1> QED BY <1>2, <1>3 DEF Inv

LEMMA Outside == ASSUME Inv, (\E x \in Cert : Expire(x)) \/ StartCaddy \/ Stop PROVE Inv'
<1>1. /\ expired' \subseteq Cert /\ served' \in Cert \cup {"internal", "down"}
      /\ stops' \in 0 .. MaxStop
      /\ UNCHANGED <<file, tls, status, monitor, setup>>
  BY LoadedIs, HttpsAssumption DEF HttpsAssumption, Expire, StartCaddy, Stop, files, Inv, Types, TypeOK
<1>2. /\ call' \in [Installation -> Calls] /\ job' \in {job, Idle}
      /\ \A i \in Installation : call'[i] \in {call[i], Idle, Ended}
  BY IdleIs DEF Expire, StartCaddy, Stop, Inv, Types
<1>3. Types'
  BY <1>1, <1>2, IdleIs, CallsTyped DEF Inv, Types, TypeOK, Calls, Underway, Idle, Ended
<1>4. Installed' /\ CaddyfileNamesInstalled'
  BY <1>1, <1>2, IdleIs DEF Inv, Installed, Replaced, Present, CaddyfileNamesInstalled, Probing
<1> QED BY <1>3, <1>4 DEF Inv

LEMMA StepInv == Inv /\ [Next]_vars => Inv'
<1> SUFFICES ASSUME Inv, [Next]_vars PROVE Inv'
  OBVIOUS
<1>1. CASE UNCHANGED vars
  BY <1>1 DEF vars, files, Inv, Types, TypeOK, Installed, Replaced, Present, CaddyfileNamesInstalled
<1>2. CASE Next
  <2>1. HealthJob => Inv'
    BY JobIs, JobKeeps
  <2> QED BY <1>2, <2>1, Begins, Installs, SetsUp, Ends, Outside DEF Next
<1> QED BY <1>1, <1>2

LEMMA Invariant == Spec => []Inv
BY InitInv, StepInv, PTL DEF Spec

\* The variables keep their types: certificate_api.py, the worker and Setup store what
\* TypeOK says, and Caddy serves one of the certificates, the internal one or nothing.
THEOREM HttpsTypeCorrect == Spec => []TypeOK
BY Invariant, PTL DEF Inv, Types

\* The Caddyfile never names files that are not there, whatever is interrupted or
\* overlaps.
THEOREM NamesInstalled == Spec => []CaddyfileNamesInstalled
BY Invariant, PTL DEF Inv
-----------------------------------------------------------------------------
(* One alert.  As long as the certificate that was reported is in place,   *)
(* the monitor and a job that is under way remember it.                    *)

Reported ==
  /\ alerts \in {0, 1}
  /\ alerts = 1 => monitor.warned = file.cert /\ Remembers(file.cert)

HInv == Inv /\ Reported

LEMMA InitHInv == HInit => HInv
BY InitInv DEF HInit, HInv, Reported

\* The alert and the warning are committed together.
LEMMA Commits == ASSUME HInv, Commit, HNext PROVE Reported'
<1>1. /\ job.op = "commit" /\ job' = Idle /\ monitor' = job.monitor /\ UNCHANGED file
  BY DEF Commit, files
<1>2. Remembers(file.cert)'
  BY <1>1, IdleIs DEF Remembers, Probing
<1>3. CASE Alerts(file.cert)
  <2>1. alerts = 0
    BY <1>1, <1>3 DEF HInv, Reported, Remembers, Alerts
  <2>2. alerts' = 1 /\ monitor'.warned = file'.cert
    BY <1>1, <1>3, <2>1 DEF HNext, Alerts
  <2> QED BY <1>1, <1>2, <2>2 DEF Reported
<1>4. CASE ~Alerts(file.cert)
  <2>1. alerts' = alerts
    BY <1>1, <1>4 DEF HNext
  <2> QED BY <1>1, <1>2, <2>1 DEF HInv, Reported, Remembers
<1> QED BY <1>3, <1>4

\* Every other step leaves the monitor alone, and the job remembers what it did.
LEMMA OthersRemember ==
  ASSUME Inv, [Next]_vars, ~Commit
  PROVE  /\ monitor' = monitor
         /\ monitor.warned = file.cert /\ Remembers(file.cert) /\ file'.cert = file.cert
            => Remembers(file.cert)'
<1>1. CASE job' \in {job, Idle} /\ monitor' = monitor
  BY <1>1, IdleIs DEF Remembers, Probing
<1>2. CASE CheckHealth
  BY <1>2, Checks DEF JobSteps
<1>3. CASE Continues
  BY <1>3, Carries DEF JobSteps
<1>4. CASE UNCHANGED vars
  BY <1>1, <1>4 DEF vars
<1>5. ASSUME NEW i \in Installation, BeginInstall(i) \/ Install(i) PROVE job' = job /\ monitor' = monitor
  BY <1>5 DEF BeginInstall, Install, ReplaceCertificate, ReplaceKey, WriteCaddyfile, Record,
    InstallFails, RestartHttps, RestartIsRecorded, InstallStep
<1>6. CASE BeginSetup \/ WriteCaddyConfig \/ Rollback \/ StartCaddy \/ Stop \/ \E x \in Cert : Expire(x)
  BY <1>1, <1>6 DEF BeginSetup, WriteCaddyConfig, Rollback, StartCaddy, Stop, Expire
<1> QED BY <1>1, <1>2, <1>3, <1>4, <1>5, <1>6 DEF Next, HealthJob, Continues

LEMMA StepHInv == HInv /\ [HNext]_hvars => HInv'
<1> SUFFICES ASSUME HInv, [HNext]_hvars PROVE HInv'
  OBVIOUS
<1>1. [Next]_vars
  BY DEF HNext, hvars
<1>2. Inv'
  BY <1>1, StepInv DEF HInv
<1>3. CASE HNext /\ Commit
  BY <1>2, <1>3, Commits DEF HInv
<1>4. CASE HNext /\ ~Commit
  <2>1. CASE file'.cert # file.cert
    BY <1>2, <1>4, <2>1 DEF HNext, HInv, Reported
  <2>2. CASE file'.cert = file.cert
    <3>1. alerts' = alerts
      BY <1>4, <2>2 DEF HNext
    <3> QED BY <1>1, <1>2, <1>4, <2>2, <3>1, OthersRemember DEF HInv, Reported, Remembers
  <2> QED BY <2>1, <2>2
<1>5. CASE UNCHANGED hvars
  BY <1>2, <1>5 DEF hvars, vars, files, HInv, Reported, Remembers
<1> QED BY <1>3, <1>4, <1>5

\* The expiry of a certificate is reported once while it stays in place, not every hour,
\* whatever is rolled back, installed over it or written by Setup meanwhile.
THEOREM ExpiryReportedOnce == HSpec => []OneAlertPerExpiry
<1>1. HInv => OneAlertPerExpiry
  BY DEF HInv, Reported, OneAlertPerExpiry
<1> QED BY <1>1, InitHInv, StepHInv, PTL DEF HSpec
=============================================================================
