------------------------------- MODULE Https -------------------------------
(***************************************************************************)
(* The server's HTTPS certificate: an administrator installs one           *)
(* (certificate_api.py), Setup writes the Caddyfile (server_entry.py,      *)
(* caddy_tls.py), and an hourly job of the worker falls back to the        *)
(* internal certificate or repairs what Caddy serves (worker.py).          *)
(*                                                                         *)
(* None of them locks the files, and two installations may overlap.  A     *)
(* certificate and its key are one value; the two live files differ while  *)
(* they are being replaced, or when two installations replaced them in     *)
(* turn.  Files that are there can be read (the warning of caddy_tls.py    *)
(* about those that cannot is left out).                                   *)
(***************************************************************************)
EXTENDS Integers, Sequences, SequencesExt

CONSTANTS
  Cert,       \* website certificates; each has one key
  CA,         \* intermediate certificates
  Issuer,     \* who issued a certificate or an intermediate
  Covers,     \* the certificates for Northstar's host name
  None,       \* no file
  MaxInstall, \* bound on installations
  MaxStop     \* bound on stops of the server process, starts of Caddy and runs of Setup

ASSUME HttpsAssumption ==
  /\ Covers \subseteq Cert /\ DOMAIN Issuer = Cert \cup CA
  /\ Cert \cap CA = {} /\ None \notin Cert
  /\ {"internal", "down"} \cap Cert = {}
  /\ MaxInstall \in Nat /\ MaxStop \in Nat

VARIABLES
  file,     \* fullchain.pem and privatekey.pem
  tls,      \* the tls line of the Caddyfile
  status,   \* the certificate in status.json, None while the mode is internal
  served,   \* what the listener presents
  expired,  \* the certificates that have expired
  call,     \* the calls of install_certificate, with the thread each starts
  job,      \* https_certificate_health_job
  monitor,  \* its state in the database: failures in a row, the last warning, how it stands
  setup,    \* configure-ports
  stops     \* left, the bound

files == <<file, tls, status>>
vars == <<files, served, expired, call, job, monitor, setup, stops>>

Installation == 1 .. MaxInstall
Idle == [op |-> "idle"]
Ended == [op |-> "ended"]
Standing == {"healthy", "failed", "attention"}
At(op, rec) == [rec EXCEPT !.op = op]

\* Mutant of SelectedTls: an expired certificate is selected.
SelectedTlsExpired == IF status # None /\ file.cert # None /\ file.key # None THEN "custom" ELSE "internal"

\* certificate_paths, selected_tls_directive: custom only when the recorded mode is
\* custom and the certificate that is there has not expired.
SelectedTls ==
  IF status # None /\ file.cert # None /\ file.key # None /\ file.cert \notin expired
  THEN "custom" ELSE "internal"

\* Caddy reads its configuration when it starts, and fails on a key that does not
\* belong to the certificate.
Loaded == IF tls = "internal" THEN "internal" ELSE IF file.cert = file.key THEN file.cert ELSE "down"

TypeOK ==
  /\ file \in [cert : Cert \cup {None}, key : Cert \cup {None}]
  /\ tls \in {"internal", "custom"}
  /\ status \in Cert \cup {None}
  /\ served \in Cert \cup {"internal", "down"}
  /\ expired \subseteq Cert
  /\ DOMAIN call = Installation
  /\ \A i \in Installation :
       call[i].op \in {"idle", "checked", "cert", "key", "written", "restart", "verify", "ended"}
  /\ job.op \in {"idle", "fallback", "probe", "repair", "restart", "again", "commit"}
  /\ monitor \in [failures : 0 .. 2, warned : Cert \cup {None}, stands : Standing]
  /\ setup \in {"idle", "internal", "custom"}
  /\ stops \in 0 .. MaxStop

Init ==
  /\ file = [cert |-> None, key |-> None] /\ tls = "internal" /\ status = None
  /\ served = "internal" /\ expired = {}
  /\ call = [i \in Installation |-> Idle]
  /\ job = Idle /\ monitor = [failures |-> 0, warned |-> None, stands |-> "healthy"]
  /\ setup = "idle"
  /\ stops = MaxStop

-----------------------------------------------------------------------------
(* What an upload must be.                                                 *)

\* The uploaded certificate, its key, and the intermediates that came with it.
Upload == [leaf : Cert, key : Cert, intermediates : BoundedSeq(CA, 2)]

FullChain(u) == <<u.leaf>> \o u.intermediates

\* _validate_certificate_chain.  A chain of one has nothing to check.
ChainIsValid(chain) ==
  /\ IsInjective(chain)
  /\ \A i \in 1 .. Len(chain) - 1 : Issuer[chain[i]] = chain[i + 1]

\* _validate_certificate.
LeafIsValid(u) == u.leaf = u.key /\ u.leaf \notin expired /\ u.leaf \in Covers

Accepted(u) == ChainIsValid(FullChain(u)) /\ LeafIsValid(u)

-----------------------------------------------------------------------------
(* install_certificate.  A refused upload, or a candidate Caddy does not   *)
(* accept, changes nothing.                                                *)

InstallStep(i, from, to) ==
  /\ call[i].op = from
  /\ call' = [call EXCEPT ![i] = IF to = "ended" THEN Ended ELSE At(to, @)]
  /\ UNCHANGED <<expired, job, monitor, setup, stops>>

BeginInstall(i) ==
  /\ call[i] = Idle /\ \A j \in 1 .. i - 1 : call[j] # Idle
  /\ \E u \in Upload : Accepted(u) /\ call' = [call EXCEPT ![i] = [op |-> "checked", cert |-> u.leaf]]
  /\ UNCHANGED <<files, served, expired, job, monitor, setup, stops>>

ReplaceCertificate(i) ==
  /\ InstallStep(i, "checked", "cert")
  /\ file' = [file EXCEPT !.cert = call[i].cert]
  /\ UNCHANGED <<tls, status, served>>

ReplaceKey(i) ==
  /\ InstallStep(i, "cert", "key")
  /\ file' = [file EXCEPT !.key = call[i].cert]
  /\ UNCHANGED <<tls, status, served>>

\* Mutant of WriteCaddyfile: before the files are in place.
WriteCaddyfileEarly(i) ==
  /\ call[i].op \in {"checked", "key"}
  /\ call' = IF call[i].op = "key" THEN [call EXCEPT ![i].op = "written"] ELSE call
  /\ tls' = "custom"
  /\ UNCHANGED <<file, status, served, expired, job, monitor, setup, stops>>

\* _protect_private_key, and the Caddyfile.
WriteCaddyfile(i) ==
  /\ InstallStep(i, "key", "written")
  /\ tls' = "custom" /\ UNCHANGED <<file, status, served>>

\* _write_state and the commit; then the thread is started.
Record(i) ==
  /\ InstallStep(i, "written", "restart")
  /\ status' = call[i].cert
  /\ UNCHANGED <<file, tls, served>>

\* A file cannot be replaced or protected, another call has replaced Caddyfile.pending, or
\* the commit fails, after status.json was written or before.
InstallFails(i) ==
  /\ \E op \in {"checked", "cert", "key", "written"} : InstallStep(i, op, "ended")
  /\ status' = status \/ (call[i].op = "written" /\ status' = call[i].cert)
  /\ UNCHANGED <<file, tls, served>>

\* _cycle_https_service ends Caddy, and may fail to start it.
Cycled == served' \in {Loaded, "down"}

\* _restart_https.
RestartHttps(i) == InstallStep(i, "restart", "verify") /\ Cycled /\ UNCHANGED files

\* The thread writes the state it was given, whatever was written meanwhile.
RestartIsRecorded(i) ==
  /\ InstallStep(i, "verify", "ended")
  /\ status' = call[i].cert
  /\ UNCHANGED <<file, tls, served>>

-----------------------------------------------------------------------------
(* configure-ports: write_caddy_config, and the tasks are restarted.       *)

BeginSetup ==
  /\ setup = "idle" /\ stops > 0
  /\ setup' = SelectedTls
  /\ stops' = stops - 1
  /\ UNCHANGED <<files, served, expired, call, job, monitor>>

WriteCaddyConfig ==
  /\ setup # "idle"
  /\ tls' = setup /\ setup' = "idle"
  /\ UNCHANGED <<file, status, served, expired, call, job, monitor, stops>>

-----------------------------------------------------------------------------
(* https_certificate_health_job, once an hour.  What it decides about its  *)
(* monitor reaches the database when the run of the worker commits.        *)

JobStep(to) == job' = to /\ UNCHANGED <<expired, call, monitor, setup, stops>>

\* The job reads status.json, and selects a directive.  The warning that comes with the
\* internal one names the certificate that has expired.
CheckHealth ==
  /\ job = Idle /\ status # None
  /\ JobStep(IF SelectedTls = "internal"
             THEN [op |-> "fallback", warning |-> file.cert]
             ELSE [op |-> "probe", expected |-> status, monitor |-> monitor])
  /\ UNCHANGED <<files, served>>

Decided(failures, warned, stands) ==
  [op |-> "commit", monitor |-> [failures |-> failures, warned |-> warned, stands |-> stands]]

\* The warning is raised when it is not the last one.  That Caddy did not start again
\* is not reported, as there is a warning already.
FallBack ==
  /\ job.op = "fallback"
  /\ JobStep(Decided(0, job.warning, "attention"))
  /\ IF tls = "internal" THEN UNCHANGED <<tls, served>>
     ELSE /\ tls' = "internal"
          /\ served' \in {"internal", "down"}
  /\ UNCHANGED <<file, status>>

\* A call is about to write and replace the same Caddyfile.pending: then one of the two may
\* find it gone, or put the other's in place.  What a call does with the job's is as if the
\* job had come after it.
PendingIsShared == \E i \in Installation : call[i].op = "key"

\* The file is gone, or the call's is put in place and Caddy restarted.
FallBackFails ==
  /\ job.op = "fallback" /\ PendingIsShared /\ tls = "custom"
  /\ JobStep(Decided(0, job.warning, "attention"))
  /\ served' \in {served, Loaded, "down"}
  /\ UNCHANGED files

\* _served_certificate_fingerprint, caddyfile_uses_custom_certificate.
IsServed(x) == served = x /\ tls = "custom"

Probe ==
  /\ job.op = "probe"
  /\ IF IsServed(job.expected)
     THEN JobStep(Decided(0, job.monitor.warned, "healthy"))
     ELSE IF job.monitor.failures = 0
     THEN JobStep(Decided(1, job.monitor.warned, "failed"))
     ELSE JobStep([job EXCEPT !.op = "repair", !.monitor.failures = 2])
  /\ UNCHANGED <<files, served>>

Repair ==
  /\ job.op = "repair"
  /\ tls' = "custom"
  /\ JobStep([job EXCEPT !.op = "restart"])
  /\ UNCHANGED <<file, status, served>>

RepairFails ==
  /\ job.op = "repair" /\ PendingIsShared
  /\ JobStep(Decided(2, job.monitor.warned, "attention"))
  /\ UNCHANGED <<files, served>>

RepairRestart ==
  /\ job.op = "restart" /\ Cycled
  /\ JobStep([job EXCEPT !.op = "again"])
  /\ UNCHANGED files

\* Mutant of RepairIsRecorded: a repair that did not help is not reported.
RepairIsRecordedQuietly ==
  /\ job.op = "again"
  /\ status' = job.expected
  /\ JobStep(Decided(0, job.monitor.warned, IF IsServed(job.expected) THEN "healthy" ELSE "failed"))
  /\ UNCHANGED <<file, tls, served>>

\* _restart_https writes the state the job read when it began.
RepairIsRecorded ==
  /\ job.op = "again"
  /\ status' = job.expected
  /\ IF IsServed(job.expected)
     THEN JobStep(Decided(0, job.monitor.warned, "healthy"))
     ELSE JobStep(Decided(2, job.monitor.warned, "attention"))
  /\ UNCHANGED <<file, tls, served>>

\* Mutant of Commit: the warning is not remembered.
CommitForgets ==
  /\ job.op = "commit"
  /\ monitor' = [job.monitor EXCEPT !.warned = None] /\ job' = Idle
  /\ UNCHANGED <<files, served, expired, call, setup, stops>>

\* run_once commits, or a job after this one does that handles mail.
Commit ==
  /\ job.op = "commit"
  /\ monitor' = job.monitor /\ job' = Idle
  /\ UNCHANGED <<files, served, expired, call, setup, stops>>

\* A job after this one raises before anything was committed.
Rollback ==
  /\ job.op = "commit"
  /\ job' = Idle
  /\ UNCHANGED <<files, served, expired, call, monitor, setup, stops>>

-----------------------------------------------------------------------------
(* Around them.                                                            *)

Expire(x) ==
  /\ x \notin expired
  /\ expired' = expired \cup {x}
  /\ UNCHANGED <<files, served, call, job, monitor, setup, stops>>

\* Task Scheduler starts Caddy at boot.
StartCaddy ==
  /\ stops > 0
  /\ served' = Loaded
  /\ stops' = stops - 1
  /\ UNCHANGED <<files, expired, call, job, monitor, setup>>

\* The server process ends: calls, threads and the job are gone.
Stop ==
  /\ stops > 0 /\ (job # Idle \/ \E i \in Installation : call[i] \notin {Idle, Ended})
  /\ call' = [i \in Installation |-> IF call[i] = Idle THEN Idle ELSE Ended]
  /\ job' = Idle
  /\ stops' = stops - 1
  /\ UNCHANGED <<files, served, expired, monitor, setup>>

Install(i) ==
  \/ ReplaceCertificate(i) \/ ReplaceKey(i) \/ WriteCaddyfile(i) \/ Record(i)
  \/ InstallFails(i) \/ RestartHttps(i) \/ RestartIsRecorded(i)
HealthJob ==
  \/ CheckHealth \/ FallBack \/ FallBackFails \/ Probe
  \/ Repair \/ RepairFails \/ RepairRestart \/ RepairIsRecorded

Next ==
  \/ \E i \in Installation : BeginInstall(i) \/ Install(i)
  \/ BeginSetup \/ WriteCaddyConfig
  \/ HealthJob \/ Commit \/ Rollback
  \/ \E x \in Cert : Expire(x)
  \/ StartCaddy \/ Stop

\* Calls and their threads go on, or fail; so does a run of the worker, which ends with a
\* commit or without one.
Fairness ==
  /\ WF_vars(\E i \in Installation : Install(i))
  /\ WF_vars(HealthJob \/ Commit \/ Rollback)

Spec == Init /\ [][Next]_vars /\ Fairness

-----------------------------------------------------------------------------
(* Properties.                                                             *)

\* The Caddyfile never names files that are not there, whatever is interrupted or
\* overlaps: install_certificate replaces the files first, and write_caddy_config and
\* the health job select the custom certificate only when both are present.
CaddyfileNamesInstalled == tls = "custom" => file.cert # None /\ file.key # None

\* A recorded certificate that is not served does not go unnoticed: it is served again,
\* or the monitor asks for attention (and an alert was raised), provided that the runs of
\* the worker are not rolled back for ever.  Each that is takes the count of failures with
\* it: while a later job raises in every run, the monitor says nothing, and all that is
\* reported is that runs of the worker fail.
NotServedIsReported ==
  <>[][~Rollback]_vars =>
    ((status # None /\ served # status) ~> (served = status \/ monitor.stands = "attention"))

\* An expired certificate does not stay configured, even if every run of the worker is
\* rolled back: the hourly job puts the internal one in its place (or somebody installs
\* another).
ExpiredIsReplaced ==
  (status # None /\ file.cert \in expired) ~> (tls = "internal" \/ file.cert \notin expired)
=============================================================================
