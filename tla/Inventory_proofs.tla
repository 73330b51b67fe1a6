-------------------------- MODULE Inventory_proofs --------------------------
(***************************************************************************)
(* Proofs about Endpoint, for any number of runs, connections, people,     *)
(* inventories and installers: what was collected is not lost, and the     *)
(* outbox is a DurableQueue; an assignment on record is not replaced; and  *)
(* what the agent starts as a version was published as that version.       *)
(***************************************************************************)
EXTENDS MCInventory, WellFoundedInduction, TLAPS

(* The least of numbers, which ORDER BY id finds first.                    *)

LEMMA Least ==
  ASSUME NEW S \in SUBSET Nat, S # {}
  PROVE  \E m \in S : \A n \in S : m <= n
<1>1. PICK m \in S : \A n \in S : ~ (<<n, m>> \in OpToRel(<, Nat))
  BY NatLessThanWellFounded, WFMin
<1>2. \A n \in S : ~ (n < m)
  BY <1>1 DEF OpToRel
<1> QED BY <1>2

LEMMA OldestIsOne ==
  ASSUME NEW rows \in SUBSET Item, rows # {}
  PROVE  Oldest(rows) \in rows
<1>1. Ids(rows) \in SUBSET Nat /\ Ids(rows) # {}
  BY InventoryAssumption DEF Ids, Item, InventoryAssumption
<1>2. PICK m \in Ids(rows) : \A n \in Ids(rows) : m <= n
  BY <1>1, Least
<1>3. \E row \in rows : \A other \in rows : row.id <= other.id
  BY <1>2 DEF Ids
<1> QED BY <1>3 DEF Oldest

-----------------------------------------------------------------------------
(* Inventories: types.                                                     *)

Somebody == Person \cup {Nobody}
Write == [observed : SUBSET Somebody, count : SUBSET (0 .. CountBound), assigned : SUBSET Person]
Run ==
  [op : {"flush"}, rows : SUBSET Item]
    \cup [op : {"uploaded"}, rows : (SUBSET Item) \ {{}}]
    \cup [op : {"waiting"}, rows : (SUBSET Item) \ {{}}, call : Connection]
Arrived == [op : {"arrived"}, item : Item, key : 0 .. MaxEnrolled]
Writing == [op : {"write"}, id : 1 .. MaxInventory, row : Write]
Call == {Idle} \cup Arrived \cup Writing

Types ==
  /\ TypeOK
  /\ runner \in [Runner -> Run]
  /\ handler \in [Connection -> Call]

LEMMA Limits ==
  /\ Required \in Nat /\ Required >= 1 /\ MaxInventory \in Nat /\ MaxEnrolled \in Nat
  /\ CountBound \in Nat /\ CountBound = Required + 1
  /\ "computer" \notin Person /\ Nobody \notin Person
BY InventoryAssumption DEF InventoryAssumption, CountBound

LEMMA InitTypes == Init => Types
<1> SUFFICES ASSUME Init PROVE Types
  OBVIOUS
<1>1. Resting \in Run /\ Resting.op = "flush"
  BY DEF Resting, Run
<1>2. runner \in [Runner -> Run] /\ \A r \in Runner : runner[r].op = "flush"
  BY <1>1 DEF Init
<1>3. handler \in [Connection -> Call] /\ \A h \in Connection : handler[h].op = "idle"
  BY DEF Init, Call, Idle
<1>4. credential \in [agent : 0 .. MaxEnrolled, server : 0 .. MaxEnrolled, revoked : BOOLEAN]
  BY Limits DEF Init
<1>5. outbox \subseteq Item /\ collected \in 0 .. MaxInventory /\ count \in 0 .. CountBound
  BY Limits DEF Init
<1>6. observed \in Somebody /\ assigned \in Somebody /\ received = {}
  BY DEF Init, Somebody
<1> QED BY <1>2, <1>3, <1>4, <1>5, <1>6 DEF Types, TypeOK, Somebody

\* A call by what it does.
LEMMA CallKinds ==
  ASSUME Types, NEW h \in Connection
  PROVE  /\ handler[h].op = "arrived" => handler[h] \in Arrived
         /\ handler[h].op = "write" => handler[h] \in Writing
         /\ handler[h].op = "idle" => handler[h] = Idle
<1>1. handler[h] \in Call /\ Idle.op = "idle"
  BY DEF Types, Idle
<1> QED BY <1>1 DEF Call, Arrived, Writing

LEMMA RunKinds ==
  ASSUME Types, NEW r \in Runner
  PROVE  /\ runner[r].rows \in SUBSET Item
         /\ runner[r].op \in {"waiting", "uploaded"} => Oldest(runner[r].rows) \in Item
         /\ runner[r].op = "waiting" => runner[r].call \in Connection
         /\ runner[r].op \in {"flush", "waiting", "uploaded"}
<1>1. runner[r] \in Run
  BY DEF Types
<1>2. CASE runner[r] \in [op : {"flush"}, rows : SUBSET Item]
  BY <1>2
<1>3. CASE runner[r] \in [op : {"uploaded"}, rows : (SUBSET Item) \ {{}}]
  <2>1. runner[r].rows \in SUBSET Item /\ runner[r].rows # {} /\ runner[r].op = "uploaded"
    BY <1>3
  <2> QED BY <2>1, OldestIsOne
<1>4. CASE runner[r] \in [op : {"waiting"}, rows : (SUBSET Item) \ {{}}, call : Connection]
  <2>1. /\ runner[r].rows \in SUBSET Item /\ runner[r].rows # {} /\ runner[r].op = "waiting"
        /\ runner[r].call \in Connection
    BY <1>4
  <2> QED BY <2>1, OldestIsOne
<1> QED BY <1>1, <1>2, <1>3, <1>4 DEF Run

\* What _reconcile_user can decide to write.
LEMMA ReconcileWrites ==
  ASSUME Types, NEW who \in Who, NEW w \in Reconcile(who)
  PROVE  w \in Write /\ (assigned # Nobody => w.assigned = {})
<1>1. observed \in Somebody /\ count \in 0 .. CountBound /\ who \in Somebody \cup {"computer"}
  BY DEF Types, TypeOK, Somebody, Who
<1>2. w.observed \in SUBSET Somebody
  <2>1. Claims(who) \in Somebody /\ w.observed = Column(observed, Claims(who))
    BY <1>1 DEF Claims, Reconcile
  <2> QED BY <2>1 DEF Column
<1>3. w.count \in SUBSET (0 .. CountBound)
  <2>1. Counted(who) \in Nat
    BY <1>1, Limits DEF Counted
  <2>2. Capped(Counted(who)) \in 0 .. CountBound
    BY <2>1, Limits DEF Capped
  <2>3. w.count = {Capped(n) : n \in Column(count, Counted(who))}
    BY DEF Reconcile
  <2> QED BY <2>2, <2>3 DEF Column
<1>4. w.assigned \in SUBSET Person /\ (assigned # Nobody => w.assigned = {})
  BY DEF Reconcile, MayAssign
<1>5. w = [observed |-> w.observed, count |-> w.count, assigned |-> w.assigned]
  BY DEF Reconcile
<1> QED BY <1>2, <1>3, <1>4, <1>5 DEF Write

\* What a step does to the agent's side, and to the calls at the server.
LEMMA RunnerTypes ==
  ASSUME Types, NEW r \in Runner, RunnerStep(r)
  PROVE  Types'
<1>0. /\ outbox \subseteq Item /\ collected \in 0 .. MaxInventory /\ credential.agent \in 0 .. MaxEnrolled
      /\ runner \in [Runner -> Run] /\ handler \in [Connection -> Call]
  BY DEF Types, TypeOK
<1>1. ASSUME NEW run \in Run, runner' = [runner EXCEPT ![r] = run], outbox' \subseteq Item,
             collected' \in 0 .. MaxInventory, handler' \in [Connection -> Call],
             \A h \in Connection : handler'[h].op \in {"idle", "arrived", "write"},
             UNCHANGED <<credential, assetVars>>
      PROVE  Types'
  <2>1. runner' \in [Runner -> Run]
    BY <1>0, <1>1
  <2>2. \A q \in Runner : runner'[q].op \in {"flush", "waiting", "uploaded"}
    BY <2>1 DEF Run
  <2> QED BY <1>1, <2>1, <2>2 DEF Types, TypeOK, assetVars
<1>2. \A h \in Connection : handler[h].op \in {"idle", "arrived", "write"}
  BY DEF Types, TypeOK
<1>3. Resting \in Run
  BY DEF Resting, Run
<1>4. CASE Collect(r)
  <2>1. outbox' \subseteq Item /\ collected' \in 0 .. MaxInventory
    <3>1. CASE collected < MaxInventory
      <4>1. collected + 1 \in 1 .. MaxInventory /\ collected' = collected + 1
        BY <1>0, <1>4, <3>1, Limits DEF Collect
      <4>2. PICK who \in Who : outbox' = outbox \cup {[id |-> collected + 1, who |-> who]}
        BY <1>4, <3>1 DEF Collect
      <4>3. [id |-> collected + 1, who |-> who] \in Item
        BY <4>1 DEF Item
      <4> QED BY <1>0, <4>1, <4>2, <4>3, Limits
    <3>2. CASE ~ (collected < MaxInventory)
      BY <1>0, <1>4, <3>2 DEF Collect
    <3> QED BY <3>1, <3>2
  <2>2. PICK rows \in SUBSET Item : runner' = [runner EXCEPT ![r] = [op |-> "flush", rows |-> rows]]
    BY <1>4, <2>1 DEF Collect
  <2>3. [op |-> "flush", rows |-> rows] \in Run
    BY DEF Run
  <2> QED BY <1>0, <1>1, <1>2, <1>4, <2>1, <2>2, <2>3 DEF Collect
<1>5. ASSUME NEW h \in Connection, Upload(r, h) PROVE Types'
  <2>1. runner[r].rows \in SUBSET Item /\ runner[r].rows # {}
    BY <1>5, RunKinds DEF Upload
  <2>2. [op |-> "waiting", rows |-> runner[r].rows, call |-> h] \in Run
    BY <2>1 DEF Run
  <2>3. [op |-> "arrived", item |-> Oldest(runner[r].rows), key |-> credential.agent] \in Arrived
    BY <1>0, <2>1, OldestIsOne DEF Arrived
  <2>4. handler' \in [Connection -> Call] /\ \A k \in Connection : handler'[k].op \in {"idle", "arrived", "write"}
    BY <1>0, <1>2, <1>5, <2>3 DEF Upload, Call
  <2> QED BY <1>0, <1>1, <1>5, <2>2, <2>4 DEF Upload
<1>6. CASE Delivered(r)
  <2>1. [op |-> "flush", rows |-> Without(runner[r].rows, Oldest(runner[r].rows))] \in Run
    BY RunKinds DEF Run, Without
  <2> QED BY <1>0, <1>1, <1>2, <1>6, <2>1 DEF Delivered, Without
<1>7. CASE UploadFails(r)
  BY <1>0, <1>1, <1>2, <1>3, <1>7 DEF UploadFails
<1> QED BY <1>4, <1>5, <1>6, <1>7 DEF RunnerStep

LEMMA ServerTypes ==
  ASSUME Types, NEW h \in Connection, ServerStep(h)
  PROVE  Types'
<1>0. /\ runner \in [Runner -> Run] /\ handler \in [Connection -> Call]
      /\ \A k \in Connection : handler[k].op \in {"idle", "arrived", "write"}
      /\ \A q \in Runner : runner[q].op \in {"flush", "waiting", "uploaded"}
  BY DEF Types, TypeOK
<1>1. CASE Refuse(h)
  <2>1. handler' \in [Connection -> Call] /\ \A k \in Connection : handler'[k].op \in {"idle", "arrived", "write"}
    BY <1>0, <1>1 DEF Refuse, Call, Idle
  <2> QED BY <1>1, <2>1 DEF Refuse, Types, TypeOK, agentVars, assetVars
<1>2. CASE BeginIngest(h)
  <2>1. handler[h] \in Arrived
    BY <1>2, CallKinds DEF BeginIngest
  <2>2. PICK w \in Reconcile(handler[h].item.who) :
           handler' = [handler EXCEPT ![h] = [op |-> "write", id |-> handler[h].item.id, row |-> w]]
    BY <1>2 DEF BeginIngest
  <2>3. w \in Write
    BY <2>1, ReconcileWrites DEF Arrived, Item
  <2>4. [op |-> "write", id |-> handler[h].item.id, row |-> w] \in Writing
    BY <2>1, <2>3 DEF Arrived, Item, Writing
  <2>5. handler' \in [Connection -> Call] /\ \A k \in Connection : handler'[k].op \in {"idle", "arrived", "write"}
    BY <1>0, <2>2, <2>4 DEF Call
  <2> QED BY <1>2, <2>5 DEF BeginIngest, Types, TypeOK, agentVars, assetVars
<1>3. CASE CommitIngest(h)
  <2>1. handler[h] \in Writing
    BY <1>3, CallKinds DEF CommitIngest
  <2>2. handler[h].row \in Write /\ handler[h].id \in 1 .. MaxInventory
    BY <2>1 DEF Writing
  <2>3. observed' \in Somebody /\ count' \in 0 .. CountBound /\ assigned' \in Somebody
    BY <1>3, <2>2 DEF CommitIngest, Written, Write, Types, TypeOK, Somebody
  <2>4. received' \subseteq 1 .. MaxInventory
    BY <1>3, <2>2 DEF CommitIngest, Types, TypeOK
  <2>5. handler' \in [Connection -> Call] /\ \A k \in Connection : handler'[k].op \in {"idle", "arrived", "write"}
    BY <1>0, <1>3 DEF CommitIngest, Call, Idle
  <2>6. runner' \in [Runner -> Run] /\ \A q \in Runner : runner'[q].op \in {"flush", "waiting", "uploaded"}
    <3>1. CASE UNCHANGED runner
      BY <1>0, <3>1
    <3>2. ASSUME NEW r \in Runner, Awaits(r, h),
                 runner' = [runner EXCEPT ![r] = [op |-> "uploaded", rows |-> runner[r].rows]]
          PROVE  runner' \in [Runner -> Run] /\ \A q \in Runner : runner'[q].op \in {"flush", "waiting", "uploaded"}
      <4>1. runner[r] \in [op : {"waiting"}, rows : (SUBSET Item) \ {{}}, call : Connection]
        BY <1>0, <3>2 DEF Awaits, Run
      <4>2. [op |-> "uploaded", rows |-> runner[r].rows] \in Run
        BY <4>1 DEF Run
      <4> QED BY <1>0, <3>2, <4>2
    <3> QED BY <1>3, <3>1, <3>2 DEF CommitIngest
  <2> QED BY <1>3, <2>3, <2>4, <2>5, <2>6 DEF CommitIngest, Types, TypeOK, Somebody
<1> QED BY <1>1, <1>2, <1>3 DEF ServerStep

LEMMA TypesNext == Types /\ [Next]_vars => Types'
<1> SUFFICES ASSUME Types, [Next]_vars PROVE Types'
  OBVIOUS
<1>1. CASE Enroll
  <2>1. credential \in [agent : 0 .. MaxEnrolled, server : 0 .. MaxEnrolled, revoked : BOOLEAN]
        /\ credential.server < MaxEnrolled
    BY <1>1 DEF Enroll, Types, TypeOK
  <2>2. credential.server + 1 \in 0 .. MaxEnrolled
    BY <2>1, Limits
  <2>3. credential' \in [agent : 0 .. MaxEnrolled, server : 0 .. MaxEnrolled, revoked : BOOLEAN]
    BY <1>1, <2>1, <2>2 DEF Enroll
  <2> QED BY <1>1, <2>3 DEF Enroll, Types, TypeOK, agentVars, assetVars
<1>2. CASE RevokeAgent
  BY <1>2 DEF RevokeAgent, Types, TypeOK, agentVars, assetVars
<1>3. CASE Crash
  <2>1. Resting \in Run /\ Resting.op = "flush"
    BY DEF Resting, Run
  <2>2. runner' \in [Runner -> Run] /\ \A q \in Runner : runner'[q].op \in {"flush", "waiting", "uploaded"}
    BY <1>3, <2>1 DEF Crash
  <2> QED BY <1>3, <2>2 DEF Crash, Types, TypeOK, assetVars
<1>4. ASSUME NEW p \in Person, Heartbeat(p) PROVE Types'
  BY <1>4 DEF Heartbeat, Types, TypeOK, agentVars
<1>5. ASSUME NEW p \in Person \cup {Nobody}, Assign(p) PROVE Types'
  BY <1>5 DEF Assign, Types, TypeOK, agentVars
<1>6. CASE UNCHANGED vars
  BY <1>6 DEF vars, Types, TypeOK, agentVars, assetVars
<1> QED BY <1>1, <1>2, <1>3, <1>4, <1>5, <1>6, RunnerTypes, ServerTypes DEF Next, InventoryStep

-----------------------------------------------------------------------------
(* What was collected.                                                     *)

\* The call a run waits for carries the oldest of its rows, or has been answered; what a
\* run is told was uploaded, the server has.
Carries(r) ==
  runner[r].op = "waiting" =>
    /\ handler[runner[r].call].op = "arrived" => handler[runner[r].call].item.id = Oldest(runner[r].rows).id
    /\ handler[runner[r].call].op = "write" => handler[runner[r].call].id = Oldest(runner[r].rows).id
HasArrived(r) == runner[r].op = "uploaded" => Oldest(runner[r].rows).id \in received

Followed == \A r \in Runner : Carries(r) /\ HasArrived(r)

LEMMA RunnerFollows ==
  ASSUME Types, Followed, NEW r \in Runner, RunnerStep(r)
  PROVE  Followed'
<1>0. runner \in [Runner -> Run] /\ handler \in [Connection -> Call]
  BY DEF Types
<1>1. ASSUME NEW run \in Run, run.op = "flush", runner' = [runner EXCEPT ![r] = run],
             UNCHANGED <<handler, received>>
      PROVE  Followed'
  BY <1>0, <1>1 DEF Followed, Carries, HasArrived
<1>2. Resting \in Run /\ Resting.op = "flush"
  BY DEF Resting, Run
<1>3. CASE Collect(r)
  <2>1. runner' = [runner EXCEPT ![r] = [op |-> "flush", rows |-> outbox']] /\ UNCHANGED <<handler, received>>
    BY <1>3 DEF Collect, assetVars
  <2> QED BY <1>0, <2>1 DEF Followed, Carries, HasArrived
<1>4. ASSUME NEW h \in Connection, Upload(r, h) PROVE Followed'
  <2>1. /\ runner' = [runner EXCEPT ![r] = [op |-> "waiting", rows |-> runner[r].rows, call |-> h]]
        /\ handler' = [handler EXCEPT ![h] =
             [op |-> "arrived", item |-> Oldest(runner[r].rows), key |-> credential.agent]]
        /\ received' = received
    BY <1>4 DEF Upload, assetVars
  <2>2. Carries(r)' /\ HasArrived(r)'
    BY <1>0, <2>1 DEF Carries, HasArrived
  <2>3. ASSUME NEW q \in Runner, q # r PROVE Carries(q)' /\ HasArrived(q)'
    <3>1. runner'[q] = runner[q]
      BY <1>0, <2>1, <2>3
    <3>2. CASE runner[q].op = "waiting"
      <4>1. runner[q].call \in Connection /\ runner[q].call # h
        BY <1>4, <3>2, RunKinds DEF Upload, Awaits
      <4>2. handler'[runner[q].call] = handler[runner[q].call]
        BY <1>0, <2>1, <4>1
      <4> QED BY <2>1, <3>1, <3>2, <4>2 DEF Followed, Carries, HasArrived
    <3>3. CASE runner[q].op # "waiting"
      BY <2>1, <3>1, <3>3 DEF Followed, Carries, HasArrived
    <3> QED BY <3>2, <3>3
  <2> QED BY <2>2, <2>3 DEF Followed
<1>5. CASE Delivered(r)
  <2>1. /\ runner' = [runner EXCEPT ![r] =
             [op |-> "flush", rows |-> Without(runner[r].rows, Oldest(runner[r].rows))]]
        /\ UNCHANGED <<handler, received>>
    BY <1>5 DEF Delivered, assetVars
  <2> QED BY <1>0, <2>1 DEF Followed, Carries, HasArrived
<1>6. CASE UploadFails(r)
  BY <1>1, <1>2, <1>6 DEF UploadFails, assetVars
<1> QED BY <1>3, <1>4, <1>5, <1>6 DEF RunnerStep

LEMMA ServerFollows ==
  ASSUME Types, Followed, NEW h \in Connection, ServerStep(h)
  PROVE  Followed'
<1>0. runner \in [Runner -> Run] /\ handler \in [Connection -> Call]
  BY DEF Types
<1>1. CASE Refuse(h)
  <2>1. handler' = [handler EXCEPT ![h] = Idle] /\ UNCHANGED <<runner, received>> /\ Idle.op = "idle"
    BY <1>1 DEF Refuse, agentVars, assetVars, Idle
  <2> QED BY <1>0, <2>1, RunKinds DEF Followed, Carries, HasArrived
<1>2. CASE BeginIngest(h)
  <2>1. PICK w : handler' = [handler EXCEPT ![h] = [op |-> "write", id |-> handler[h].item.id, row |-> w]]
    BY <1>2 DEF BeginIngest
  <2>2. handler[h].op = "arrived" /\ UNCHANGED <<runner, received>>
    BY <1>2 DEF BeginIngest, agentVars, assetVars
  <2> QED BY <1>0, <2>1, <2>2, RunKinds DEF Followed, Carries, HasArrived
<1>3. CASE CommitIngest(h)
  <2>1. /\ handler' = [handler EXCEPT ![h] = Idle] /\ received' = received \cup {handler[h].id}
        /\ handler[h].op = "write" /\ Idle.op = "idle"
    BY <1>3 DEF CommitIngest, Idle
  <2>2. ASSUME NEW q \in Runner, runner'[q] = runner[q] PROVE Carries(q)' /\ HasArrived(q)'
    BY <1>0, <2>1, <2>2, RunKinds DEF Followed, Carries, HasArrived
  <2>3. CASE UNCHANGED runner
    BY <2>2, <2>3 DEF Followed
  <2>4. ASSUME NEW r \in Runner, Awaits(r, h),
               runner' = [runner EXCEPT ![r] = [op |-> "uploaded", rows |-> runner[r].rows]]
        PROVE  Followed'
    <3>1. runner'[r] = [op |-> "uploaded", rows |-> runner[r].rows]
      BY <1>0, <2>4
    <3>2. Oldest(runner[r].rows).id = handler[h].id
      BY <2>1, <2>4 DEF Followed, Carries, Awaits
    <3>3. Carries(r)' /\ HasArrived(r)'
      BY <2>1, <3>1, <3>2 DEF Carries, HasArrived
    <3>4. \A q \in Runner \ {r} : runner'[q] = runner[q]
      BY <1>0, <2>4
    <3> QED BY <2>2, <3>3, <3>4 DEF Followed
  <2> QED BY <1>3, <2>3, <2>4 DEF CommitIngest
<1> QED BY <1>1, <1>2, <1>3 DEF ServerStep

LEMMA FollowedNext == Types /\ Followed /\ [Next]_vars => Followed'
<1> SUFFICES ASSUME Types, Followed, [Next]_vars PROVE Followed'
  OBVIOUS
<1>1. CASE UNCHANGED <<runner, handler, received>>
  BY <1>1 DEF Followed, Carries, HasArrived
<1>2. CASE Crash
  <2>1. Resting.op = "flush" /\ UNCHANGED <<handler, received>>
    BY <1>2 DEF Crash, Resting, assetVars
  <2> QED BY <1>2, <2>1 DEF Crash, Followed, Carries, HasArrived
<1>3. CASE Enroll \/ RevokeAgent \/ (\E p \in Person : Heartbeat(p)) \/ (\E p \in Person \cup {Nobody} : Assign(p))
           \/ UNCHANGED vars
  BY <1>1, <1>3 DEF Enroll, RevokeAgent, Heartbeat, Assign, vars, agentVars, assetVars
<1> QED BY <1>2, <1>3, RunnerFollows, ServerFollows DEF Next, InventoryStep

LEMMA NothingLostNext ==
  ASSUME Types, Followed, NothingLost, [Next]_vars
  PROVE  NothingLost'
<1>0. collected \in Nat /\ MaxInventory \in Nat
  BY Limits DEF Types, TypeOK
<1>1. ASSUME received \subseteq received', collected' = collected, outbox' = outbox PROVE NothingLost'
  BY <1>1 DEF NothingLost
<1>2. ASSUME NEW r \in Runner, RunnerStep(r) PROVE NothingLost'
  <2>1. received' = received
    BY <1>2 DEF RunnerStep, Collect, Upload, Delivered, UploadFails, assetVars
  <2>2. CASE Collect(r)
    <3>1. CASE collected < MaxInventory
      <4>1. collected' = collected + 1
        BY <2>2, <3>1 DEF Collect
      <4>2. PICK who \in Who : outbox' = outbox \cup {[id |-> collected + 1, who |-> who]}
        BY <2>2, <3>1 DEF Collect
      <4>3. ASSUME NEW i \in 1 .. collected' PROVE i \in Ids(outbox)' \cup received'
        <5>1. i \in 1 .. collected \/ i = collected + 1
          BY <1>0, <4>1, <4>3
        <5> QED BY <2>1, <4>2, <5>1 DEF NothingLost, Ids
      <4> QED BY <4>3 DEF NothingLost
    <3>2. CASE ~ (collected < MaxInventory)
      BY <1>1, <2>1, <2>2, <3>2 DEF Collect
    <3> QED BY <3>1, <3>2
  <2>3. CASE Delivered(r)
    <3>1. outbox' = Without(outbox, Oldest(runner[r].rows)) /\ collected' = collected
      BY <2>3 DEF Delivered
    <3>2. Oldest(runner[r].rows).id \in received
      BY <2>3 DEF Delivered, Followed, HasArrived
    <3> QED BY <2>1, <3>1, <3>2 DEF NothingLost, Ids, Without
  <2>4. CASE UploadFails(r) \/ \E h \in Connection : Upload(r, h)
    BY <1>1, <2>1, <2>4 DEF UploadFails, Upload
  <2> QED BY <1>2, <2>2, <2>3, <2>4 DEF RunnerStep
<1>3. ASSUME NEW h \in Connection, ServerStep(h) PROVE NothingLost'
  BY <1>1, <1>3 DEF ServerStep, Refuse, BeginIngest, CommitIngest, agentVars, assetVars
<1>4. CASE Enroll \/ RevokeAgent \/ Crash \/ (\E p \in Person : Heartbeat(p))
           \/ (\E p \in Person \cup {Nobody} : Assign(p)) \/ UNCHANGED vars
  BY <1>1, <1>4 DEF Enroll, RevokeAgent, Crash, Heartbeat, Assign, vars, agentVars, assetVars
<1> QED BY <1>2, <1>3, <1>4 DEF Next, InventoryStep

-----------------------------------------------------------------------------
(* The endpoint as a whole: a step of it is one of its inventories, one of *)
(* its releases, or both.                                                  *)

ReleaseNext ==
  \/ HearOffer \/ PublishStep \/ Download \/ Schedule \/ UpdateFails \/ Day \/ AgentStops
  \/ \E v \in launched : Setup(v)

LEMMA EndpointSteps ==
  [EndpointNext]_<<vars, releaseVars>> => [Next]_vars /\ [ReleaseNext]_releaseVars
BY DEF EndpointNext, Beat, Next, ReleaseNext

\* The outbox, the runs, the credential and the calls in flight only ever hold what their
\* code writes, for any bounds.
THEOREM TypeCorrect == EndpointSpec => []TypeOK
<1>1. Types => TypeOK
  BY DEF Types
<1> QED BY <1>1, InitTypes, TypesNext, EndpointSteps, PTL DEF EndpointSpec, EndpointInit

\* README.md's durable upload queue: what was collected is in the outbox until the server
\* has it, for any number of overlapping runs, calls, lost answers and restarts.
THEOREM QueueIsDurable == EndpointSpec => []NothingLost
<1>1. Init => Followed /\ NothingLost
  <2>1. Resting.op = "flush"
    BY DEF Resting
  <2> QED BY <2>1 DEF Init, Followed, Carries, HasArrived, NothingLost
<1>2. Types /\ Followed /\ NothingLost /\ [Next]_vars => (Followed /\ NothingLost)'
  BY FollowedNext, NothingLostNext
<1> QED BY <1>1, <1>2, InitTypes, TypesNext, EndpointSteps, PTL DEF EndpointSpec, EndpointInit

-----------------------------------------------------------------------------
(* The outbox and the server implement DurableQueue.                       *)

\* Rows, wherever they are held, are of what was collected.
Collected == 1 .. collected
Numbered ==
  /\ Ids(outbox) \subseteq Collected
  /\ \A r \in Runner : Ids(runner[r].rows) \subseteq Collected
  /\ \A h \in Connection : /\ handler[h].op = "arrived" => handler[h].item.id \in Collected
                           /\ handler[h].op = "write" => handler[h].id \in Collected

LEMMA IdsOf ==
  ASSUME NEW rows, NEW i, NEW who
  PROVE  Ids(rows \cup {[id |-> i, who |-> who]}) = Ids(rows) \cup {i}
<1> DEFINE new == [id |-> i, who |-> who]
<1>1. new.id = i
  OBVIOUS
<1> HIDE DEF new
<1>2. Ids(rows \cup {new}) = Ids(rows) \cup {i}
  BY <1>1 DEF Ids
<1> QED BY <1>2 DEF new

LEMMA NumberedNext ==
  ASSUME Types, Numbered, [Next]_vars
  PROVE  Numbered'
<1>0. /\ collected \in Nat /\ runner \in [Runner -> Run] /\ handler \in [Connection -> Call]
      /\ Resting.rows = {} /\ Idle.op = "idle"
  BY Limits DEF Types, TypeOK, Resting, Idle
<1>1. ASSUME UNCHANGED <<outbox, collected, handler>>,
             \A r \in Runner : Ids(runner'[r].rows) \subseteq Ids(runner[r].rows)
      PROVE  Numbered'
  BY <1>1 DEF Numbered, Collected
<1>2. \A rows, row : Ids(Without(rows, row)) = Ids(rows) \ {row.id}
  BY DEF Ids, Without
<1>3. Ids(Resting.rows) = {}
  BY <1>0 DEF Ids
<1>4. ASSUME NEW r \in Runner, Collect(r) PROVE Numbered'
  <2>1. Ids(outbox') \subseteq Collected' /\ Collected \subseteq Collected'
    <3>1. CASE collected < MaxInventory
      <4>1. collected' = collected + 1
        BY <1>4, <3>1 DEF Collect
      <4>2. PICK who \in Who : outbox' = outbox \cup {[id |-> collected + 1, who |-> who]}
        BY <1>4, <3>1 DEF Collect
      <4>3. Ids(outbox') = Ids(outbox) \cup {collected + 1}
        BY <4>2, IdsOf
      <4>4. Collected' = Collected \cup {collected + 1}
        BY <1>0, <4>1 DEF Collected
      <4> QED BY <4>3, <4>4 DEF Numbered
    <3>2. CASE ~ (collected < MaxInventory)
      BY <1>4, <3>2 DEF Collect, Numbered, Collected
    <3> QED BY <3>1, <3>2
  <2>2. \A q \in Runner : Ids(runner'[q].rows) \subseteq Collected'
    <3>1. runner' = [runner EXCEPT ![r] = [op |-> "flush", rows |-> outbox']]
      BY <1>4 DEF Collect
    <3> QED BY <1>0, <2>1, <3>1 DEF Numbered
  <2> QED BY <1>4, <2>1, <2>2 DEF Collect, Numbered
<1>5. ASSUME NEW r \in Runner, NEW h \in Connection, Upload(r, h) PROVE Numbered'
  <2>1. Oldest(runner[r].rows) \in runner[r].rows
    BY <1>5, RunKinds, OldestIsOne DEF Upload
  <2>2. Oldest(runner[r].rows).id \in Collected
    BY <2>1 DEF Ids, Numbered
  <2>3. /\ runner' = [runner EXCEPT ![r] = [op |-> "waiting", rows |-> runner[r].rows, call |-> h]]
        /\ handler' = [handler EXCEPT ![h] =
             [op |-> "arrived", item |-> Oldest(runner[r].rows), key |-> credential.agent]]
        /\ UNCHANGED <<outbox, collected>>
    BY <1>5 DEF Upload
  <2>4. \A q \in Runner : runner'[q].rows = runner[q].rows
    BY <1>0, <2>3
  <2>5. \A k \in Connection : /\ handler'[k].op = "arrived" => handler'[k].item.id \in Collected
                              /\ handler'[k].op = "write" => handler'[k].id \in Collected
    BY <1>0, <2>2, <2>3 DEF Numbered
  <2> QED BY <2>3, <2>4, <2>5 DEF Numbered, Collected
<1>6. ASSUME NEW r \in Runner, Delivered(r) PROVE Numbered'
  <2>1. /\ runner' = [runner EXCEPT ![r] =
             [op |-> "flush", rows |-> Without(runner[r].rows, Oldest(runner[r].rows))]]
        /\ outbox' = Without(outbox, Oldest(runner[r].rows)) /\ UNCHANGED <<collected, handler>>
    BY <1>6 DEF Delivered
  <2>2. Ids(outbox') \subseteq Ids(outbox) /\ \A q \in Runner : Ids(runner'[q].rows) \subseteq Ids(runner[q].rows)
    BY <1>0, <1>2, <2>1
  <2> QED BY <2>1, <2>2 DEF Numbered, Collected
<1>7. ASSUME NEW r \in Runner, UploadFails(r) PROVE Numbered'
  BY <1>0, <1>1, <1>3, <1>7 DEF UploadFails
<1>8. CASE Crash
  BY <1>0, <1>1, <1>3, <1>8 DEF Crash
<1>9. ASSUME NEW h \in Connection, Refuse(h) \/ BeginIngest(h) PROVE Numbered'
  <2>1. PICK new : /\ handler' = [handler EXCEPT ![h] = new]
                   /\ new.op = "idle" \/ (new.op = "write" /\ new.id = handler[h].item.id /\ handler[h].op = "arrived")
    BY <1>0, <1>9 DEF Refuse, BeginIngest
  <2>2. UNCHANGED <<outbox, collected, runner>>
    BY <1>9 DEF Refuse, BeginIngest, agentVars
  <2> QED BY <1>0, <2>1, <2>2 DEF Numbered, Collected
<1>10. ASSUME NEW h \in Connection, CommitIngest(h) PROVE Numbered'
  <2>1. handler' = [handler EXCEPT ![h] = Idle] /\ UNCHANGED <<outbox, collected>>
    BY <1>10 DEF CommitIngest
  <2>2. \A q \in Runner : runner'[q].rows = runner[q].rows
    BY <1>0, <1>10 DEF CommitIngest
  <2> QED BY <1>0, <2>1, <2>2 DEF Numbered, Collected
<1>11. CASE Enroll \/ RevokeAgent \/ (\E p \in Person : Heartbeat(p))
            \/ (\E p \in Person \cup {Nobody} : Assign(p)) \/ UNCHANGED vars
  BY <1>1, <1>11 DEF Enroll, RevokeAgent, Heartbeat, Assign, vars, agentVars, assetVars
<1> QED BY <1>4, <1>5, <1>6, <1>7, <1>8, <1>9, <1>10, <1>11 DEF Next, InventoryStep, RunnerStep, ServerStep

LEMMA StepQueue ==
  ASSUME Types, Followed, NothingLost, Numbered, [Next]_vars
  PROVE  [Queue!QueueNext]_(Queue!queueVars)
<1>1. CASE UNCHANGED <<collected, outbox, received>>
  BY <1>1 DEF Queue!queueVars
<1>2. ASSUME NEW r \in Runner, Collect(r) PROVE [Queue!QueueNext]_(Queue!queueVars)
  <2>1. CASE collected < MaxInventory
    <3>1. collected' = collected + 1 /\ received' = received
      BY <1>2, <2>1 DEF Collect, assetVars
    <3>2. PICK who \in Who : outbox' = outbox \cup {[id |-> collected + 1, who |-> who]}
      BY <1>2, <2>1 DEF Collect
    <3>3. Ids(outbox') = Ids(outbox) \cup {collected'}
      BY <3>1, <3>2, IdsOf
    <3>4. Queue!Produce
      BY <3>1, <3>3 DEF Queue!Produce
    <3> QED BY <3>4 DEF Queue!QueueNext
  <2>2. CASE ~ (collected < MaxInventory)
    BY <1>1, <1>2, <2>2 DEF Collect, assetVars
  <2> QED BY <2>1, <2>2
<1>3. ASSUME NEW r \in Runner, Delivered(r) PROVE [Queue!QueueNext]_(Queue!queueVars)
  <2> DEFINE i == Oldest(runner[r].rows).id
  <2>1. outbox' = Without(outbox, Oldest(runner[r].rows)) /\ UNCHANGED <<collected, received>>
    BY <1>3 DEF Delivered, assetVars
  <2>2. Ids(outbox') = Ids(outbox) \ {i}
    BY <2>1 DEF Ids, Without
  <2>3. i \in received
    BY <1>3 DEF Delivered, Followed, HasArrived
  <2>4. CASE i \in Ids(outbox)
    BY <2>1, <2>2, <2>3, <2>4 DEF Queue!Acknowledge, Queue!QueueNext
  <2>5. CASE i \notin Ids(outbox)
    BY <2>1, <2>2, <2>5 DEF Queue!queueVars
  <2> QED BY <2>4, <2>5
<1>4. ASSUME NEW h \in Connection, CommitIngest(h) PROVE [Queue!QueueNext]_(Queue!queueVars)
  <2>1. received' = received \cup {handler[h].id} /\ UNCHANGED <<collected, outbox>> /\ handler[h].op = "write"
    BY <1>4 DEF CommitIngest
  <2>2. handler[h].id \in Ids(outbox) \cup received
    BY <2>1 DEF Numbered, NothingLost, Collected
  <2>3. CASE handler[h].id \in received
    BY <1>1, <2>1, <2>3
  <2>4. CASE handler[h].id \in Ids(outbox)
    BY <2>1, <2>4 DEF Queue!Receive, Queue!QueueNext
  <2> QED BY <2>2, <2>3, <2>4
<1>5. CASE Enroll \/ RevokeAgent \/ Crash \/ (\E p \in Person : Heartbeat(p))
           \/ (\E p \in Person \cup {Nobody} : Assign(p)) \/ UNCHANGED vars
  BY <1>1, <1>5 DEF Enroll, RevokeAgent, Crash, Heartbeat, Assign, vars, agentVars, assetVars
<1>6. ASSUME NEW r \in Runner, UploadFails(r) \/ \E h \in Connection : Upload(r, h)
      PROVE  [Queue!QueueNext]_(Queue!queueVars)
  BY <1>1, <1>6 DEF UploadFails, Upload, assetVars
<1>7. ASSUME NEW h \in Connection, Refuse(h) \/ BeginIngest(h) PROVE [Queue!QueueNext]_(Queue!queueVars)
  BY <1>1, <1>7 DEF Refuse, BeginIngest, agentVars, assetVars
<1> QED BY <1>2, <1>3, <1>4, <1>5, <1>6, <1>7 DEF Next, InventoryStep, RunnerStep, ServerStep

\* The runs of the agent and the calls at the server implement the durable queue: rows are
\* removed only for inventories that the server has, and an inventory reaches it only while
\* its row is kept, or again.
THEOREM ImplementsQueue == EndpointSpec => DurableUpload
<1> DEFINE QueueInv == Types /\ Followed /\ NothingLost /\ Numbered
<1>1. Init => QueueInv /\ Queue!QueueInit
  <2>1. Resting.op = "flush" /\ Resting.rows = {} /\ Idle.op = "idle"
    BY DEF Resting, Idle
  <2> QED BY <2>1, InitTypes DEF Init, Followed, Carries, HasArrived, NothingLost, Numbered, Ids, Queue!QueueInit
<1>2. QueueInv /\ [Next]_vars => QueueInv'
  BY TypesNext, FollowedNext, NothingLostNext, NumberedNext
<1>3. QueueInv /\ [Next]_vars => [Queue!QueueNext]_(Queue!queueVars)
  BY StepQueue
<1> QED BY <1>1, <1>2, <1>3, EndpointSteps, PTL
        DEF EndpointSpec, EndpointInit, DurableUpload, Queue!QueueSpec

-----------------------------------------------------------------------------
(* The assignment.                                                         *)

\* No intake is left that read the asset as unassigned and would assign it.
Settled == kept # Nobody => assigned = kept /\ ~ StaleIntake

LEMMA KeptStep ==
  ASSUME Types, [Next]_vars, ~ StaleIntake, assigned # Nobody
  PROVE  ~ StaleIntake' /\ (assigned' = assigned \/ \E p \in Person \cup {Nobody} : Assign(p))
<1>0. handler \in [Connection -> Call]
  BY DEF Types
<1>1. CASE UNCHANGED <<handler, assigned>>
  BY <1>1 DEF StaleIntake
<1>2. ASSUME NEW r \in Runner, RunnerStep(r)
      PROVE  ~ StaleIntake' /\ assigned' = assigned
  <2>1. CASE UNCHANGED handler
    BY <1>2, <2>1 DEF StaleIntake, RunnerStep, Collect, Upload, Delivered, UploadFails, assetVars
  <2>2. ASSUME NEW h \in Connection, Upload(r, h) PROVE ~ StaleIntake' /\ assigned' = assigned
    <3>1. PICK call : handler' = [handler EXCEPT ![h] = call] /\ call.op = "arrived" /\ assigned' = assigned
      BY <2>2 DEF Upload, assetVars
    <3> QED BY <1>0, <3>1 DEF StaleIntake
  <2> QED BY <1>2, <2>1, <2>2 DEF RunnerStep, Collect, Delivered, UploadFails
<1>3. ASSUME NEW h \in Connection, ServerStep(h)
      PROVE  ~ StaleIntake' /\ assigned' = assigned
  <2>1. CASE Refuse(h)
    <3>1. handler' = [handler EXCEPT ![h] = Idle] /\ assigned' = assigned /\ Idle.op = "idle"
      BY <2>1 DEF Refuse, assetVars, Idle
    <3> QED BY <1>0, <3>1 DEF StaleIntake
  <2>2. CASE BeginIngest(h)
    <3>1. handler[h].item.who \in Who
      BY <2>2, CallKinds DEF BeginIngest, Arrived, Item
    <3>2. PICK w \in Reconcile(handler[h].item.who) :
             handler' = [handler EXCEPT ![h] = [op |-> "write", id |-> handler[h].item.id, row |-> w]]
      BY <2>2 DEF BeginIngest
    <3>3. w.assigned = {} /\ assigned' = assigned
      BY <2>2, <3>1, <3>2, ReconcileWrites DEF BeginIngest, assetVars
    <3> QED BY <1>0, <3>2, <3>3 DEF StaleIntake
  <2>3. CASE CommitIngest(h)
    <3>1. handler' = [handler EXCEPT ![h] = Idle] /\ Idle.op = "idle"
      BY <2>3 DEF CommitIngest, Idle
    <3>2. handler[h].row.assigned = {} /\ assigned' = assigned
      BY <2>3 DEF CommitIngest, Written, StaleIntake
    <3> QED BY <1>0, <3>1, <3>2 DEF StaleIntake
  <2> QED BY <1>3, <2>1, <2>2, <2>3 DEF ServerStep
<1>4. ASSUME NEW p \in Person \cup {Nobody}, Assign(p) PROVE ~ StaleIntake'
  BY <1>4 DEF Assign, StaleIntake
<1>5. CASE Enroll \/ RevokeAgent \/ Crash \/ (\E p \in Person : Heartbeat(p)) \/ UNCHANGED vars
  BY <1>1, <1>5 DEF Enroll, RevokeAgent, Crash, Heartbeat, vars, agentVars, assetVars
<1> QED BY <1>2, <1>3, <1>4, <1>5 DEF Next, InventoryStep

\* README.md: "Conflicts are flagged and never overwrite the official assignment": what an
\* administrator or an intake assigned stays until an administrator changes it, except for
\* the intakes that had read the asset as unassigned, on any number of connections.
THEOREM OfficialAssignmentStands == HSpec => []AssignmentIsKept
<1>1. HInit => Init /\ Settled
  BY DEF HInit, EndpointInit, Settled
<1>2. [HNext]_<<vars, releaseVars, kept, side>> => [Next]_vars
  <2>1. [HNext]_<<vars, releaseVars, kept, side>> => [EndpointNext]_<<vars, releaseVars>>
    BY DEF HNext
  <2> QED BY <2>1, EndpointSteps
<1>3. Types /\ Settled /\ [HNext]_<<vars, releaseVars, kept, side>> => Settled'
  <2> SUFFICES ASSUME Types, Settled, [HNext]_<<vars, releaseVars, kept, side>> PROVE Settled'
    OBVIOUS
  <2>1. [Next]_vars
    BY <1>2
  <2>2. CASE UNCHANGED <<vars, releaseVars, kept, side>>
    BY <2>2 DEF Settled, StaleIntake, vars, assetVars
  <2>3. CASE HNext /\ \E p \in Person \cup {Nobody} : Assign(p)
    <3>1. kept' = IF StaleIntake THEN Nobody ELSE assigned'
      BY <2>3 DEF HNext
    <3>2. handler' = handler
      BY <2>3 DEF Assign
    <3> QED BY <3>1, <3>2 DEF Settled, StaleIntake
  <2>4. CASE HNext /\ ~ \E p \in Person \cup {Nobody} : Assign(p)
    <3>1. kept' = IF kept = Nobody /\ ~ StaleIntake' THEN assigned' ELSE kept
      BY <2>4 DEF HNext
    <3>2. CASE kept # Nobody
      BY <2>1, <2>4, <3>1, <3>2, KeptStep DEF Settled
    <3>3. CASE kept = Nobody
      BY <3>1, <3>3 DEF Settled
    <3> QED BY <3>2, <3>3
  <2> QED BY <2>2, <2>3, <2>4
<1>4. Settled => AssignmentIsKept
  BY DEF Settled, AssignmentIsKept
<1> QED BY <1>1, <1>2, <1>3, <1>4, InitTypes, TypesNext, PTL DEF HSpec

-----------------------------------------------------------------------------
(* Releases.                                                               *)

\* What the release folders, the endpoint and the offer in hand hold.
Offered(o) ==
  o \in [version : Versions, content : Installers, file : BOOLEAN] /\ VersionOf(o.content) = o.version

ReleaseTypes ==
  /\ release \in [Versions -> Installers \cup {Absent}]
  /\ \A v \in Versions : release[v] # Absent => VersionOf(release[v]) = v
  /\ publishing \subseteq Installers /\ running \in Installers
  /\ update \in [version : Versions \cup {-1}, status : {"none", "scheduled", "installed", "failed"}, recent : BOOLEAN]
  /\ file \in [Versions -> Installers \cup {Absent, Broken}]
  /\ InHand => Offered(offer)
  /\ launched \subseteq Published

HasLatest == \E v \in Published : \A w \in Published : w <= v

\* What makes an update that was launched safe from the next one: its file is not that of
\* the offer in hand, and the newest version is not offered again while its own update is
\* recent and still to be started.
Launching ==
  /\ StartsWhatWasPublished
  /\ InHand => offer.version \in Published \ launched /\ offer.version > RunningVersion
  /\ Latest \in launched =>
       /\ ~ InHand /\ Latest > RunningVersion
       /\ update.version = Latest /\ update.status = "scheduled" /\ update.recent

ReleaseInv == ReleaseTypes /\ HasLatest /\ Launching

LEMMA Versioned ==
  /\ \A i \in Installers : VersionOf(i) \in Versions /\ VersionOf(i) \in Nat
  /\ Versions \subseteq Nat /\ -1 \notin Versions /\ Packaged \in Installers
  /\ Absent \notin Installers /\ Broken \notin Installers
BY ReleaseAssumption DEF ReleaseAssumption, Versions

LEMMA LatestIs ==
  ASSUME HasLatest
  PROVE  Latest \in Published /\ \A w \in Published : w <= Latest
BY DEF HasLatest, Latest

LEMMA NotInHand == NoOffer.version = -1 /\ \A o : Offered(o) => o # NoOffer
BY Versioned DEF NoOffer, Offered

LEMMA ReleaseInvInit == ReleaseInit => ReleaseInv
<1> SUFFICES ASSUME ReleaseInit PROVE ReleaseInv
  OBVIOUS
<1>1. VersionOf(Packaged) \in Versions /\ Packaged # Absent /\ VersionOf(Packaged) \in Nat
  BY Versioned
<1>2. /\ release = [v \in Versions |-> IF v = VersionOf(Packaged) THEN Packaged ELSE Absent]
      /\ launched = {} /\ ~ InHand
  BY DEF ReleaseInit, InHand
<1>3. Published = {VersionOf(Packaged)}
  BY <1>1, <1>2 DEF Published
<1>4. HasLatest
  BY <1>1, <1>3 DEF HasLatest
<1>5. ReleaseTypes
  BY <1>1, <1>2, Versioned DEF ReleaseInit, ReleaseTypes
<1> QED BY <1>2, <1>4, <1>5 DEF ReleaseInv, Launching, StartsWhatWasPublished

\* The folders only gain versions.
LEMMA Publishes ==
  ASSUME ReleaseInv, NEW i \in Installers, EndPublish(i)
  PROVE  /\ release' \in [Versions -> Installers \cup {Absent}]
         /\ \A v \in Versions : release'[v] # Absent => VersionOf(release'[v]) = v
         /\ HasLatest' /\ Published \subseteq Published'
         /\ Latest' \in Published => Latest' = Latest
<1>1. CASE release' = release
  BY <1>1 DEF ReleaseInv, ReleaseTypes, HasLatest, Published, Latest
<1>2. CASE release' = [release EXCEPT ![VersionOf(i)] = i]
  <2>1. VersionOf(i) \in Versions /\ VersionOf(i) \in Nat /\ i # Absent
    BY Versioned
  <2>2. /\ release' \in [Versions -> Installers \cup {Absent}]
        /\ \A v \in Versions : release'[v] = IF v = VersionOf(i) THEN i ELSE release[v]
    BY <1>2, <2>1 DEF ReleaseInv, ReleaseTypes
  <2>3. Published' = Published \cup {VersionOf(i)}
    BY <2>1, <2>2 DEF Published
  <2>4. Published \subseteq Nat /\ Latest \in Published /\ \A w \in Published : w <= Latest
    BY LatestIs, Versioned DEF ReleaseInv, Published
  <2>5. HasLatest'
    <3>1. CASE VersionOf(i) <= Latest
      BY <2>3, <2>4, <3>1 DEF HasLatest
    <3>2. CASE ~ (VersionOf(i) <= Latest)
      BY <2>1, <2>3, <2>4, <3>2 DEF HasLatest
    <3> QED BY <3>1, <3>2
  <2>6. Latest' \in Published' /\ \A w \in Published' : w <= Latest'
    BY <2>5 DEF HasLatest, Latest
  <2>7. Latest' \in Published => Latest' = Latest
    BY <2>3, <2>4, <2>6
  <2> QED BY <2>2, <2>3, <2>5, <2>7 DEF ReleaseInv, ReleaseTypes
<1> QED BY <1>1, <1>2 DEF EndPublish

\* Where the folders stay, so does what is newest.
LEMMA SameRelease ==
  ASSUME release' = release
  PROVE  Published' = Published /\ Latest' = Latest /\ HasLatest' = HasLatest
BY DEF Published, Latest, HasLatest

LEMMA PublishKeeps ==
  ASSUME ReleaseInv, NEW i \in Installers, BeginPublish(i) \/ EndPublish(i)
  PROVE  ReleaseInv'
<1>1. CASE BeginPublish(i)
  <2>1. UNCHANGED <<release, running, update, file, offer, launched>> /\ publishing' \subseteq Installers
    BY <1>1 DEF BeginPublish, ReleaseInv, ReleaseTypes
  <2> QED BY <2>1, SameRelease DEF ReleaseInv, ReleaseTypes, Launching, StartsWhatWasPublished, InHand, RunningVersion
<1>2. CASE EndPublish(i)
  <2>1. UNCHANGED <<running, update, file, offer, launched>> /\ publishing' \subseteq Installers
    BY <1>2 DEF EndPublish, ReleaseInv, ReleaseTypes
  <2>2. ReleaseTypes'
    BY <1>2, <2>1, Publishes DEF ReleaseInv, ReleaseTypes, InHand
  <2>3. StartsWhatWasPublished'
    BY <2>1 DEF ReleaseInv, Launching, StartsWhatWasPublished
  <2>4. (InHand => offer.version \in Published \ launched /\ offer.version > RunningVersion)'
    BY <1>2, <2>1, Publishes DEF ReleaseInv, Launching, InHand, RunningVersion
  <2>5. Latest' \in launched' => Latest' = Latest
    BY <1>2, <2>1, Publishes DEF ReleaseInv, ReleaseTypes
  <2>6. (Latest \in launched =>
           /\ ~ InHand /\ Latest > RunningVersion
           /\ update.version = Latest /\ update.status = "scheduled" /\ update.recent)'
    BY <2>1, <2>5 DEF ReleaseInv, Launching, InHand, RunningVersion
  <2> QED BY <1>2, <2>2, <2>3, <2>4, <2>6, Publishes DEF ReleaseInv, Launching
<1> QED BY <1>1, <1>2

LEMMA HearOfferKeeps ==
  ASSUME ReleaseInv, HearOffer
  PROVE  ReleaseInv'
<1>1. UNCHANGED <<release, publishing, running, file, launched>> /\ ~ InHand /\ update' = Marked
  BY DEF HearOffer, InHand
<1>2. Published' = Published /\ Latest' = Latest /\ HasLatest'
  BY <1>1, SameRelease DEF ReleaseInv
<1>3. Latest \in Published /\ Published \subseteq Versions /\ Versions \subseteq Nat
  BY LatestIs, Versioned DEF ReleaseInv, Published
<1>4. update' \in [version : Versions \cup {-1}, status : {"none", "scheduled", "installed", "failed"}, recent : BOOLEAN]
  BY <1>1 DEF Marked, ReleaseInv, ReleaseTypes
<1>5. Latest \in launched => update' = update /\ ~ Due(Latest)
  <2>1. RunningVersion \in Nat
    BY Versioned DEF ReleaseInv, ReleaseTypes, RunningVersion
  <2> QED BY <1>1, <1>3, <2>1 DEF Marked, Due, ReleaseInv, Launching
<1>6. CASE UNCHANGED offer
  BY <1>1, <1>2, <1>4, <1>5, <1>6 DEF ReleaseInv, ReleaseTypes, Launching, StartsWhatWasPublished, InHand, RunningVersion
<1>7. CASE Due(Latest) /\ offer' = [version |-> Latest, content |-> release[Latest], file |-> FALSE]
  <2>1. release[Latest] \in Installers /\ VersionOf(release[Latest]) = Latest
    BY <1>3 DEF ReleaseInv, ReleaseTypes, Published
  <2>2. Offered(offer')
    BY <1>3, <1>7, <2>1 DEF Offered
  <2>3. offer'.version = Latest /\ Latest \notin launched /\ Latest > RunningVersion
    BY <1>5, <1>7 DEF Due
  <2>4. ReleaseTypes'
    BY <1>1, <1>2, <1>4, <2>2 DEF ReleaseInv, ReleaseTypes, InHand
  <2> QED BY <1>1, <1>2, <1>3, <2>3, <2>4 DEF ReleaseInv, Launching, StartsWhatWasPublished, InHand, RunningVersion
<1> QED BY <1>6, <1>7 DEF HearOffer

LEMMA DownloadKeeps ==
  ASSUME ReleaseInv, Download
  PROVE  ReleaseInv'
<1>1. /\ UNCHANGED <<release, publishing, running, update, launched>> /\ InHand /\ Offered(offer)
      /\ offer' = [offer EXCEPT !.file = TRUE]
  BY DEF Download, ReleaseInv, ReleaseTypes
<1>2. Published' = Published /\ Latest' = Latest /\ HasLatest'
  BY <1>1, SameRelease DEF ReleaseInv
<1>3. Offered(offer') /\ offer'.version = offer.version
  BY <1>1 DEF Offered
<1>4. Latest \in Versions /\ release[Latest] \in Installers
  BY LatestIs DEF ReleaseInv, ReleaseTypes, Published
<1>5. file' \in [Versions -> Installers \cup {Absent, Broken}] /\ \A v \in Versions \ {offer.version} : file'[v] = file[v]
  BY <1>4 DEF Download, ReleaseInv, ReleaseTypes
<1>6. ReleaseTypes'
  BY <1>1, <1>2, <1>3, <1>5 DEF ReleaseInv, ReleaseTypes
<1>7. InHand' /\ offer.version \notin launched
  BY <1>1, <1>3, NotInHand DEF ReleaseInv, Launching, InHand
<1>8. StartsWhatWasPublished'
  BY <1>1, <1>5, <1>7 DEF ReleaseInv, ReleaseTypes, Published, Launching, StartsWhatWasPublished
<1> QED BY <1>1, <1>2, <1>3, <1>6, <1>7, <1>8 DEF ReleaseInv, Launching, RunningVersion

LEMMA ScheduleKeeps ==
  ASSUME ReleaseInv, Schedule
  PROVE  ReleaseInv'
<1>1. /\ UNCHANGED <<release, publishing, running, file>> /\ InHand /\ Offered(offer)
      /\ update' = [version |-> offer.version, status |-> "scheduled", recent |-> TRUE] /\ offer' = NoOffer
      /\ launched' \in {launched, launched \cup {offer.version}}
  BY DEF Schedule, Noted, ReleaseInv, ReleaseTypes
<1>2. Published' = Published /\ Latest' = Latest /\ HasLatest'
  BY <1>1, SameRelease DEF ReleaseInv
<1>3. offer.version \in Versions /\ offer.version \in Published /\ offer.version > RunningVersion
  BY <1>1 DEF Offered, ReleaseInv, Launching
<1>4. file[offer.version] \in Installers /\ VersionOf(file[offer.version]) = offer.version
  BY <1>1 DEF Schedule, Verified, Offered
<1>5. ~ InHand'
  BY <1>1 DEF InHand
<1>6. ReleaseTypes'
  BY <1>1, <1>2, <1>3, <1>5 DEF ReleaseInv, ReleaseTypes
<1>7. StartsWhatWasPublished'
  BY <1>1, <1>4 DEF ReleaseInv, Launching, StartsWhatWasPublished
<1>8. Latest' \in launched' => Latest = offer.version
  BY <1>1, <1>2 DEF ReleaseInv, Launching
<1> QED BY <1>1, <1>2, <1>3, <1>5, <1>6, <1>7, <1>8 DEF ReleaseInv, Launching, RunningVersion

LEMMA UpdateFailsKeeps ==
  ASSUME ReleaseInv, UpdateFails
  PROVE  ReleaseInv'
<1>1. /\ UNCHANGED <<release, publishing, running, launched>> /\ InHand /\ Offered(offer)
      /\ update' = [version |-> offer.version, status |-> "failed", recent |-> TRUE] /\ offer' = NoOffer
  BY DEF UpdateFails, Noted, ReleaseInv, ReleaseTypes
<1>2. Published' = Published /\ Latest' = Latest /\ HasLatest'
  BY <1>1, SameRelease DEF ReleaseInv
<1>3. file' \in [Versions -> Installers \cup {Absent, Broken}] /\ \A v \in Versions \ {offer.version} : file'[v] = file[v]
  BY DEF UpdateFails, ReleaseInv, ReleaseTypes
<1>4. offer.version \notin launched /\ Latest \notin launched /\ ~ InHand'
  BY <1>1 DEF ReleaseInv, Launching, InHand
<1>5. ReleaseTypes'
  BY <1>1, <1>2, <1>3, <1>4 DEF ReleaseInv, ReleaseTypes, Offered
<1>6. StartsWhatWasPublished'
  BY <1>1, <1>3, <1>4 DEF ReleaseInv, ReleaseTypes, Published, Launching, StartsWhatWasPublished
<1> QED BY <1>1, <1>2, <1>4, <1>5, <1>6 DEF ReleaseInv, Launching

\* The process ends: what may be spoiled is the file it was downloading.
LEMMA Stopping ==
  ASSUME ReleaseInv, StopUpdate
  PROVE  /\ ~ InHand' /\ file' \in [Versions -> Installers \cup {Absent, Broken}]
         /\ \A v \in launched : file'[v] = file[v]
<1>1. ~ InHand'
  BY DEF StopUpdate, InHand
<1>2. launched \subseteq Versions /\ file \in [Versions -> Installers \cup {Absent, Broken}]
  BY DEF ReleaseInv, ReleaseTypes, Published
<1>3. CASE file' = file
  BY <1>1, <1>2, <1>3
<1>4. CASE InHand /\ file' = [file EXCEPT ![offer.version] = Broken]
  <2>1. offer.version \notin launched
    BY <1>4 DEF ReleaseInv, Launching
  <2> QED BY <1>1, <1>2, <1>4, <2>1
<1> QED BY <1>3, <1>4 DEF StopUpdate, InHand

LEMMA StopKeeps ==
  ASSUME ReleaseInv, AgentStops
  PROVE  ReleaseInv'
<1>1. UNCHANGED <<release, publishing, running, update, launched>> /\ StopUpdate
  BY DEF AgentStops
<1>2. Published' = Published /\ Latest' = Latest /\ HasLatest'
  BY <1>1, SameRelease DEF ReleaseInv
<1>3. ReleaseTypes'
  BY <1>1, <1>2, Stopping DEF ReleaseInv, ReleaseTypes
<1>4. StartsWhatWasPublished'
  BY <1>1, Stopping DEF ReleaseInv, Launching, StartsWhatWasPublished
<1> QED BY <1>1, <1>2, <1>3, <1>4, Stopping DEF ReleaseInv, Launching, RunningVersion

LEMMA SetupKeeps ==
  ASSUME ReleaseInv, NEW v \in launched, Setup(v)
  PROVE  ReleaseInv'
<1>1. /\ UNCHANGED <<release, publishing, update>> /\ StopUpdate /\ launched' = launched \ {v}
      /\ running' \in {running, file[v]}
  BY DEF Setup
<1>2. Published' = Published /\ Latest' = Latest /\ HasLatest'
  BY <1>1, SameRelease DEF ReleaseInv
<1>3. file[v] \in Installers /\ VersionOf(file[v]) = v /\ v \in Published
  BY DEF ReleaseInv, ReleaseTypes, Launching, StartsWhatWasPublished
<1>4. ReleaseTypes'
  BY <1>1, <1>2, <1>3, Stopping DEF ReleaseInv, ReleaseTypes
<1>5. StartsWhatWasPublished'
  BY <1>1, Stopping DEF ReleaseInv, Launching, StartsWhatWasPublished
<1>6. ASSUME Latest \in launched' PROVE Latest > RunningVersion'
  <2>1. Latest \in launched /\ v # Latest
    BY <1>1, <1>6
  <2>2. v <= Latest /\ v \in Nat /\ Latest \in Nat
    BY <1>3, LatestIs, Versioned DEF ReleaseInv, Published
  <2>3. v < Latest /\ Latest > RunningVersion
    BY <2>1, <2>2 DEF ReleaseInv, Launching
  <2> QED BY <1>1, <1>3, <2>3 DEF RunningVersion
<1> QED BY <1>1, <1>2, <1>4, <1>5, <1>6, Stopping DEF ReleaseInv, Launching

LEMMA DayKeeps ==
  ASSUME ReleaseInv, Day
  PROVE  ReleaseInv'
<1>1. /\ UNCHANGED <<release, publishing, running, file, offer, launched>> /\ launched = {} /\ ~ InHand
      /\ update' = [update EXCEPT !.recent = FALSE]
  BY DEF Day
<1>2. Published' = Published /\ Latest' = Latest /\ HasLatest'
  BY <1>1, SameRelease DEF ReleaseInv
<1>3. ReleaseTypes'
  BY <1>1, <1>2 DEF ReleaseInv, ReleaseTypes, InHand
<1> QED BY <1>1, <1>2, <1>3 DEF ReleaseInv, Launching, StartsWhatWasPublished, InHand

LEMMA ReleaseInvNext == ReleaseInv /\ [ReleaseNext]_releaseVars => ReleaseInv'
<1> SUFFICES ASSUME ReleaseInv, [ReleaseNext]_releaseVars PROVE ReleaseInv'
  OBVIOUS
<1>1. CASE PublishStep
  BY <1>1, PublishKeeps DEF PublishStep
<1>2. CASE UNCHANGED releaseVars
  <2>1. UNCHANGED <<release, publishing, running, update, file, offer, launched>>
    BY <1>2 DEF releaseVars
  <2> QED BY <2>1, SameRelease DEF ReleaseInv, ReleaseTypes, Launching, StartsWhatWasPublished, InHand, RunningVersion
<1> QED BY <1>1, <1>2, HearOfferKeeps, DownloadKeeps, ScheduleKeeps, UpdateFailsKeeps, DayKeeps, StopKeeps, SetupKeeps
        DEF ReleaseNext

\* Release folders, downloads, offers and update-state.json only hold what their code
\* writes; an offer names an installer and its version.
THEOREM ReleaseTypeCorrect == EndpointSpec => []ReleaseTypeOK
<1>1. ReleaseInv => ReleaseTypeOK
  BY DEF ReleaseInv, ReleaseTypes, ReleaseTypeOK, InHand, Offered, Published
<1> QED BY <1>1, ReleaseInvInit, ReleaseInvNext, EndpointSteps, PTL DEF EndpointSpec, EndpointInit

\* What the agent starts as a version was published as that version, for any number of
\* installers, published in any order, also twice as one version, while it downloads, and
\* whatever is left of earlier attempts: the file of an update that was launched is not
\* written again before it starts.
THEOREM StartsPublished == EndpointSpec => []StartsWhatWasPublished
<1>1. ReleaseInv => StartsWhatWasPublished
  BY DEF ReleaseInv, Launching
<1> QED BY <1>1, ReleaseInvInit, ReleaseInvNext, EndpointSteps, PTL DEF EndpointSpec, EndpointInit
=============================================================================
