------------------------------ MODULE Inventory ------------------------------
(***************************************************************************)
(* Inventory of one endpoint: the agent collects it, keeps it in a durable *)
(* outbox and uploads it (agent.py, storage/database.py, scheduler.py),    *)
(* the server takes it and may assign the asset to the person it observes  *)
(* there (enrollment, heartbeat and intake in agent_api.py).               *)
(*                                                                         *)
(* An inventory is its number and the identity it observed.  Every person  *)
(* matches at most one employee.  Handlers read their rows without locks,  *)
(* and write the columns they changed when they commit.                    *)
(***************************************************************************)
EXTENDS Integers

CONSTANTS
  Runner,       \* inventory runs of the agent; they overlap when one takes too long
  Connection,   \* to the server
  Person,       \* identities of people
  Nobody,
  Required,     \* agent_assignment_observations
  MaxInventory, \* bound on the inventories followed
  MaxEnrolled   \* bound on enrollments

ASSUME InventoryAssumption ==
  /\ Required \in Nat \ {0} /\ MaxInventory \in Nat /\ MaxEnrolled \in Nat
  /\ {"computer", Nobody} \cap Person = {}

VARIABLES
  outbox,     \* sync_outbox, with the rows' numbers
  collected,  \* number of the last inventory
  runner,     \* inventory runs: the rows they hold, and how the upload of the first stands
  credential, \* the credential the agent has, the one the server knows, and if it is revoked
  handler,    \* ingest_inventory calls
  observed,   \* agent.observed_user
  count,      \* agent.consecutive_user_observations, up to CountBound
  assigned,   \* asset.assigned_employee_id
  received    \* inventories taken by the server

agentVars == <<outbox, collected, runner>>
assetVars == <<observed, count, assigned, received>>
vars == <<agentVars, credential, handler, assetVars>>

Who == Person \cup {"computer", Nobody}   \* somebody, the computer account, nobody signed in
Item == [id : 1 .. MaxInventory, who : Who]
Resting == [op |-> "flush", rows |-> {}]   \* also a run that has nothing left to upload
Idle == [op |-> "idle"]
CountBound == Required + 1   \* beyond it, another observation makes no difference

TypeOK ==
  /\ outbox \subseteq Item
  /\ collected \in 0 .. MaxInventory
  /\ \A r \in Runner : runner[r].op \in {"flush", "waiting", "uploaded"}
  /\ credential \in [agent : 0 .. MaxEnrolled, server : 0 .. MaxEnrolled, revoked : BOOLEAN]
  /\ \A h \in Connection : handler[h].op \in {"idle", "arrived", "write"}
  /\ observed \in Person \cup {Nobody}
  /\ count \in 0 .. CountBound
  /\ assigned \in Person \cup {Nobody}
  /\ received \subseteq 1 .. MaxInventory

Init ==
  /\ outbox = {} /\ collected = 0
  /\ runner = [r \in Runner |-> Resting]
  /\ credential = [agent |-> 0, server |-> 0, revoked |-> FALSE]
  /\ handler = [h \in Connection |-> Idle]
  /\ observed = Nobody /\ count = 0 /\ assigned = Nobody
  /\ received = {}

-----------------------------------------------------------------------------
(* Enrollment.                                                             *)

\* enroll_agent refuses a device that is enrolled, also if the reply of the call
\* that enrolled it was lost and the agent has no credential.
Enroll ==
  /\ credential.server = 0 \/ credential.revoked
  /\ credential.server < MaxEnrolled
  /\ LET new == credential.server + 1
     IN  \E agent \in {new, credential.agent} :
           credential' = [agent |-> agent, server |-> new, revoked |-> FALSE]
  /\ UNCHANGED <<agentVars, handler, assetVars>>

RevokeAgent ==
  /\ credential.server # 0 /\ ~credential.revoked
  /\ credential' = [credential EXCEPT !.revoked = TRUE]
  /\ UNCHANGED <<agentVars, handler, assetVars>>

\* _agent_from_bearer.
Accepted(key) == key = credential.server /\ key # 0 /\ ~credential.revoked

-----------------------------------------------------------------------------
(* The agent: collect_and_sync, in a thread of its own.                    *)

Ids(rows) == {row.id : row \in rows}
Oldest(rows) == CHOOSE row \in rows : \A other \in rows : row.id <= other.id

\* save_inventory, and pending; the runs after the last inventory that is followed
\* only flush.
Collect(r) ==
  /\ runner[r] = Resting /\ credential.agent # 0
  /\ IF collected < MaxInventory
     THEN /\ \E who \in Who : outbox' = outbox \cup {[id |-> collected + 1, who |-> who]}
          /\ collected' = collected + 1
     ELSE UNCHANGED <<outbox, collected>>
  /\ runner' = [runner EXCEPT ![r] = [op |-> "flush", rows |-> outbox']]
  /\ UNCHANGED <<credential, handler, assetVars>>

Without(rows, sent) == {row \in rows : row.id # sent.id}

Awaits(r, h) == runner[r].op = "waiting" /\ runner[r].call = h

Upload(r, h) ==
  /\ runner[r].op = "flush" /\ runner[r].rows # {}
  /\ handler[h] = Idle /\ ~\E q \in Runner : Awaits(q, h)
  /\ runner' = [runner EXCEPT ![r] = [op |-> "waiting", rows |-> @.rows, call |-> h]]
  /\ handler' = [handler EXCEPT ![h] =
       [op |-> "arrived", item |-> Oldest(runner[r].rows), key |-> credential.agent]]
  /\ UNCHANGED <<outbox, collected, credential, assetVars>>

Delivered(r) ==
  /\ runner[r].op = "uploaded"
  /\ outbox' = Without(outbox, Oldest(runner[r].rows))
  /\ runner' = [runner EXCEPT ![r] = [op |-> "flush", rows |-> Without(@.rows, Oldest(@.rows))]]
  /\ UNCHANGED <<collected, credential, handler, assetVars>>

\* Mutant of UploadFails: the row is given up.
UploadFailsDrops(r) ==
  /\ runner[r].op = "waiting"
  /\ outbox' = Without(outbox, Oldest(runner[r].rows))
  /\ runner' = [runner EXCEPT ![r] = Resting]
  /\ UNCHANGED <<collected, credential, handler, assetVars>>

\* No answer in time, or an error: the row stays and the run ends.
UploadFails(r) ==
  /\ runner[r].op = "waiting"
  /\ runner' = [runner EXCEPT ![r] = Resting]
  /\ UNCHANGED <<outbox, collected, credential, handler, assetVars>>

Crash ==
  /\ runner' = [r \in Runner |-> Resting]
  /\ UNCHANGED <<outbox, collected, credential, handler, assetVars>>

-----------------------------------------------------------------------------
(* The server: ingest_inventory.                                           *)

Refuse(h) ==
  /\ handler[h].op = "arrived" /\ ~Accepted(handler[h].key)
  /\ handler' = [handler EXCEPT ![h] = Idle]
  /\ UNCHANGED <<agentVars, credential, assetVars>>

\* A computer account leaves the person that was observed before.
Claims(who) == IF who = "computer" THEN observed ELSE who

Counted(who) ==
  CASE Claims(who) = Nobody -> 0
    [] Claims(who) # Nobody /\ Claims(who) # observed -> 1
    [] OTHER -> count + 1

\* Mutant of MayAssign: an assignment on record is replaced.
MayAssignAnyway(who) == Claims(who) # Nobody /\ Counted(who) >= Required

MayAssign(who) == Claims(who) # Nobody /\ assigned = Nobody /\ Counted(who) >= Required

\* The values a handler writes to a column: one, or none if it read that value.
Column(read, new) == IF read = new THEN {} ELSE {new}

Capped(n) == IF n > CountBound THEN CountBound ELSE n

\* _reconcile_user on the rows as they are now; the person may match no employee, or
\* several, or share the device.
Reconcile(who) ==
  [observed : {Column(observed, Claims(who))},
   count : {{Capped(n) : n \in Column(count, Counted(who))}},
   assigned : {{}} \cup {{p} : p \in {q \in Person : MayAssign(who) /\ q = Claims(who)}}]

BeginIngest(h) ==
  /\ handler[h].op = "arrived" /\ Accepted(handler[h].key)
  /\ \E write \in Reconcile(handler[h].item.who) :
       handler' = [handler EXCEPT ![h] = [op |-> "write", id |-> @.item.id, row |-> write]]
  /\ UNCHANGED <<agentVars, credential, assetVars>>

Written(column, current) == IF column = {} THEN {current} ELSE column

\* The reply is lost, or reaches the run that still waits for it.
CommitIngest(h) ==
  /\ handler[h].op = "write"
  /\ observed' \in Written(handler[h].row.observed, observed)
  /\ count' \in Written(handler[h].row.count, count)
  /\ assigned' \in Written(handler[h].row.assigned, assigned)
  /\ received' = received \cup {handler[h].id}
  /\ handler' = [handler EXCEPT ![h] = Idle]
  /\ \/ UNCHANGED runner
     \/ \E r \in Runner : Awaits(r, h) /\ runner' = [runner EXCEPT ![r] = [op |-> "uploaded", rows |-> @.rows]]
  /\ UNCHANGED <<outbox, collected, credential>>

\* agent_heartbeat: what the agent sees now, without counting it.
Heartbeat(p) ==
  /\ Accepted(credential.agent)
  /\ observed' = p
  /\ UNCHANGED <<agentVars, credential, handler, count, assigned, received>>

\* An administrator assigns the asset, or takes it back.
Assign(p) ==
  /\ assigned # p
  /\ assigned' = p
  /\ UNCHANGED <<agentVars, credential, handler, observed, count, received>>

-----------------------------------------------------------------------------
RunnerStep(r) ==
  Collect(r) \/ (\E h \in Connection : Upload(r, h)) \/ Delivered(r) \/ UploadFails(r)

ServerStep(h) ==
  Refuse(h) \/ BeginIngest(h) \/ CommitIngest(h)

InventoryStep ==
  \/ Enroll \/ RevokeAgent
  \/ \E r \in Runner : RunnerStep(r)
  \/ \E h \in Connection : ServerStep(h)
  \/ \E p \in Person \cup {Nobody} : Assign(p)

Next == InventoryStep \/ Crash \/ \E p \in Person : Heartbeat(p)

Spec == Init /\ [][Next]_vars

-----------------------------------------------------------------------------
(* Properties.                                                             *)

\* README.md: "durable upload queue": what was collected is in the outbox until the
\* server has it, whatever is lost, restarted or run twice.
NothingLost ==
  \A i \in 1 .. collected : i \in Ids(outbox) \cup received

Queue == INSTANCE DurableQueue WITH produced <- collected, queue <- Ids(outbox)

\* The outbox, the runs that upload it and the server are a durable queue: a row goes
\* only when the server has its inventory, and the server gets only what is still kept
\* or what it has.
DurableUpload == Queue!QueueSpec
=============================================================================
