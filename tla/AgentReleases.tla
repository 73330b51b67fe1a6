---------------------------- MODULE AgentReleases ----------------------------
(***************************************************************************)
(* Releases of the endpoint agent.  Administrators publish installers      *)
(* (agent_api.py); an agent is offered the newest with its heartbeats,     *)
(* downloads it, checks it and leaves it to a command of its own, which    *)
(* starts it a few seconds later and stops the agent (agent.py).           *)
(*                                                                         *)
(* An installer is named by who made it: what is in it is its own.  A      *)
(* version is offered with what is in it, its SHA-256 in the code.         *)
(***************************************************************************)
EXTENDS Integers, FiniteSets

CONSTANTS
  Installers,   \* that are published, each as one version
  VersionOf(_),
  Packaged,     \* the one that came with the server, and is running at first
  Absent, Broken

Versions == {VersionOf(i) : i \in Installers}

ASSUME ReleaseAssumption ==
  /\ Packaged \in Installers /\ Installers \cap {Absent, Broken} = {} /\ Absent # Broken
  /\ \A i \in Installers : VersionOf(i) \in Nat /\ VersionOf(Packaged) <= VersionOf(i)

VARIABLES
  release,     \* the release folders, by version
  publishing,  \* uploads whose version was found newer
  running,     \* the installer whose agent runs
  update,      \* update-state.json
  file,        \* the installers on the endpoint, by version
  offer,       \* what the agent has in hand
  launched     \* versions whose command has not started the installer yet

releaseVars == <<release, publishing, running, update, file, offer, launched>>

NoOffer == [version |-> -1]

ReleaseTypeOK ==
  /\ release \in [Versions -> Installers \cup {Absent}]
  /\ publishing \subseteq Installers /\ running \in Installers
  /\ update \in [version : Versions \cup {-1}, status : {"none", "scheduled", "installed", "failed"}, recent : BOOLEAN]
  /\ file \in [Versions -> Installers \cup {Absent, Broken}]
  /\ offer \in {NoOffer} \cup [version : Versions, content : Installers, file : BOOLEAN]
  /\ launched \subseteq Versions

ReleaseInit ==
  /\ release = [v \in Versions |-> IF v = VersionOf(Packaged) THEN Packaged ELSE Absent]
  /\ publishing = {}
  /\ running = Packaged
  /\ update = [version |-> -1, status |-> "none", recent |-> FALSE]
  /\ file = [v \in Versions |-> Absent]
  /\ offer = NoOffer /\ launched = {}

-----------------------------------------------------------------------------
(* The server.                                                             *)

Published == {v \in Versions : release[v] # Absent}
Latest == CHOOSE v \in Published : \A w \in Published : w <= v

BeginPublish(i) ==
  /\ VersionOf(i) > Latest /\ i \notin publishing
  /\ publishing' = publishing \cup {i}
  /\ UNCHANGED <<release, running, update, file, offer, launched>>

\* The upload is in place, where another of the same version may have got in between;
\* or it was refused.
EndPublish(i) ==
  /\ i \in publishing
  /\ publishing' = publishing \ {i}
  /\ release' \in {release, [release EXCEPT ![VersionOf(i)] = i]}
  /\ UNCHANGED <<running, update, file, offer, launched>>

-----------------------------------------------------------------------------
(* The agent.                                                              *)

RunningVersion == VersionOf(running)

\* An update that was scheduled and runs is noted as installed.
Marked ==
  IF update.status = "scheduled" /\ update.version <= RunningVersion
  THEN [update EXCEPT !.status = "installed"] ELSE update

\* Not again within 24 hours.
Due(v) ==
  /\ v > RunningVersion
  /\ ~(update.version = v /\ update.status \in {"scheduled", "failed"} /\ update.recent)

\* A heartbeat, with its answer, or without.
HearOffer ==
  /\ offer = NoOffer
  /\ update' = Marked
  /\ \/ UNCHANGED offer
     \/ Due(Latest) /\ offer' = [version |-> Latest, content |-> release[Latest], file |-> FALSE]
  /\ UNCHANGED <<release, publishing, running, file, launched>>

InHand == offer # NoOffer

\* The file is there from an earlier attempt, or the release that is newest by now is
\* downloaded in its place.
Download ==
  /\ InHand /\ ~offer.file
  /\ offer' = [offer EXCEPT !.file = TRUE]
  /\ file' = IF file[offer.version] = offer.content THEN file
             ELSE [file EXCEPT ![offer.version] = release[Latest]]
  /\ UNCHANGED <<release, publishing, running, update, launched>>

\* Mutant of Verified: a file that was downloaded is taken as it is.
VerifiedNot == offer.file

Verified == offer.file /\ file[offer.version] = offer.content

Noted(status) == [version |-> offer.version, status |-> status, recent |-> TRUE]

\* The agent may be stopped before the command is there.
Schedule ==
  /\ InHand /\ Verified
  /\ update' = Noted("scheduled")
  /\ launched' \in {launched, launched \cup {offer.version}}
  /\ offer' = NoOffer
  /\ UNCHANGED <<release, publishing, running, file>>

\* The download fails, or it is not what was offered.
UpdateFails ==
  /\ InHand
  /\ update' = Noted("failed")
  /\ file' = IF Verified THEN file ELSE [file EXCEPT ![offer.version] = Absent]
  /\ offer' = NoOffer
  /\ UNCHANGED <<release, publishing, running, launched>>

\* The process ends, maybe while it writes a download.
StopUpdate ==
  /\ offer' = NoOffer
  /\ file' \in {file} \cup {[file EXCEPT ![v] = Broken] : v \in {offer.version : o \in {offer} \ {NoOffer}}}

AgentStops ==
  /\ StopUpdate
  /\ UNCHANGED <<release, publishing, running, update, launched>>

\* The installer stops the agent, replaces it or fails, and starts it.
Setup(v) ==
  /\ v \in launched
  /\ launched' = launched \ {v}
  /\ running' \in {running, file[v]}
  /\ StopUpdate
  /\ UNCHANGED <<release, publishing, update>>

Day ==
  /\ launched = {} /\ ~InHand /\ update.recent
  /\ update' = [update EXCEPT !.recent = FALSE]
  /\ UNCHANGED <<release, publishing, running, file, offer, launched>>

PublishStep == \E i \in Installers : BeginPublish(i) \/ EndPublish(i)

-----------------------------------------------------------------------------
\* "every enrolled agent verifies the SHA-256 value before its existing unattended updater
\* starts the installer": what is started as a version was published as that version,
\* whatever is published while the agent downloads, and whatever is left of earlier attempts.
StartsWhatWasPublished ==
  \A v \in launched : file[v] \in Installers /\ VersionOf(file[v]) = v
=============================================================================
