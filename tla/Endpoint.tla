------------------------------- MODULE Endpoint -------------------------------
(***************************************************************************)
(* The agent of one endpoint: its inventories and the updates of itself.   *)
(* Both are on threads of one process, which an update stops.              *)
(***************************************************************************)
EXTENDS Inventory, AgentReleases

EndpointInit == Init /\ ReleaseInit

\* The person observed goes to the server, and the newest release comes back.
Beat ==
  /\ Accepted(credential.agent)
  /\ UNCHANGED vars \/ \E p \in Person : Heartbeat(p)
  /\ HearOffer

\* Downloads are for agents whose credential is good.
FileIsHad == Accepted(credential.agent) \/ (InHand /\ file[offer.version] = offer.content)

EndpointNext ==
  \/ InventoryStep /\ UNCHANGED releaseVars
  \/ Beat
  \/ (PublishStep \/ (Download /\ FileIsHad) \/ Schedule \/ UpdateFails \/ Day) /\ UNCHANGED vars
  \/ Crash /\ (AgentStops \/ \E v \in launched : Setup(v))

EndpointSpec == EndpointInit /\ [][EndpointNext]_<<vars, releaseVars>>
=============================================================================
