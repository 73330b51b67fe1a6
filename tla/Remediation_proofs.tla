------------------------- MODULE Remediation_proofs -------------------------
(***************************************************************************)
(* Proofs about Remediation, for any number of rows, agents, threads and   *)
(* attempts and any limits that satisfy the assumptions: the types, the    *)
(* inductive invariant IInv and what follows from it, that a settled row   *)
(* stays settled, that one target has one open action where its handlers   *)
(* do not overlap, and that the server, its agents and the network between *)
(* them implement RemediationContract.                                     *)
(***************************************************************************)
EXTENDS MCRemediation, TLAPS

-----------------------------------------------------------------------------
(* What a recovery pass can do to a row.                                   *)

LEMMA RetryAfterType ==
  ASSUME ServerTypeOK, NEW S \in SUBSET Action
  PROVE  /\ RetryAfter(S) \in [Action -> 0 .. MaxAttempts]
         /\ \A a \in Action : RetryAfter(S)[a] >= retryCount[a]
<1>1. /\ MaxAttempts \in Nat
      /\ \A a \in Action : retryCount[a] \in 0 .. MaxAttempts
  BY LimitsAssumption DEF LimitsAssumption, ServerTypeOK
<1>2. RetryAfter(S) \in [Action -> 0 .. MaxAttempts]
  <2>1. \A a \in Action : Requeued(a) => retryCount[a] + 1 \in 0 .. MaxAttempts
    BY <1>1 DEF Requeued
  <2>2. QED
    BY <1>1, <2>1 DEF RetryAfter
<1>3. ASSUME NEW a \in Action PROVE RetryAfter(S)[a] >= retryCount[a]
  <2>1. retryCount[a] \in Nat
    BY <1>1
  <2>2. QED
    BY <2>1 DEF RetryAfter
<1>4. QED
  BY <1>2, <1>3

LEMMA StatusAfterType ==
  ASSUME ServerTypeOK, NEW S \in SUBSET Action
  PROVE  /\ StatusAfter(S) \in [Action -> Status]
         /\ SummaryAfter(S) \in [Action -> Summary]
BY DEF ServerTypeOK, Status, Summary, StatusAfter, SummaryAfter

\* Only Approved and Dispatched rows change, to Approved or Failed.
LEMMA StatusAfterRows ==
  ASSUME ServerTypeOK, NEW S \in SUBSET Action, NEW a \in Action
  PROVE  \/ StatusAfter(S)[a] = status[a]
         \/ /\ status[a] \in {"Approved", "Dispatched"}
            /\ StatusAfter(S)[a] \in {"Approved", "Failed"}
BY DEF ServerTypeOK, StatusAfter, Requeued, Exhausted, Stale, NoResponse

\* "noResponse" is written only on an Approved row older than the limit.
LEMMA SummaryAfterRows ==
  ASSUME ServerTypeOK, NEW S \in SUBSET Action, NEW a \in Action,
         SummaryAfter(S)[a] = "noResponse", summary[a] # "noResponse"
  PROVE  age[a] > NoResponseAge
BY DEF ServerTypeOK, SummaryAfter, NoResponse

LEMMA BusyThread ==
  ASSUME ServerTypeOK, NEW h \in Thread, tx[h] # Idle
  PROVE  tx[h].a \in Action /\ tx[h].op \in CreateOp \cup DecideOp \cup ResultOp
BY DEF ServerTypeOK, Busy

-----------------------------------------------------------------------------
(* Type correctness *)

LEMMA RecoverType ==
  ASSUME ServerTypeOK, NEW S \in SUBSET Action, Recover(S)
  PROVE  ServerTypeOK'
BY RetryAfterType, StatusAfterType DEF ServerTypeOK, Recover

LEMMA DeliverType ==
  ASSUME ServerTypeOK, NEW g \in Agent, NEW a \in Action, Deliver(g, a)
  PROVE  ServerTypeOK'
<1> DEFINE R == RetryAfter(RowsOfAgent(g))
<1>1. RowsOfAgent(g) \in SUBSET Action
  BY DEF RowsOfAgent
<1>2. R[a] < MaxAttempts
  BY DEF Deliver, Deliverable
<1>3. R \in [Action -> 0 .. MaxAttempts]
  BY <1>1, RetryAfterType
<1>4. MaxAttempts \in Nat /\ AgeCap \in Nat
  BY LimitsAssumption DEF LimitsAssumption, AgeCap
<1>5. retryCount' \in [Action -> 0 .. MaxAttempts]
  <2>1. R[a] + 1 \in 0 .. MaxAttempts
    BY <1>2, <1>3, <1>4
  <2>2. retryCount' = [R EXCEPT ![a] = R[a] + 1]
    BY DEF Deliver
  <2>3. QED
    BY <1>3, <2>1, <2>2
<1>6. age' \in [Action -> NotDispatched .. AgeCap]
  BY <1>4 DEF ServerTypeOK, Deliver, NotDispatched
<1>7. status' \in [Action -> Status] /\ summary' \in [Action -> Summary]
  BY <1>1, StatusAfterType DEF Deliver
<1>8. QED
  BY <1>5, <1>6, <1>7 DEF ServerTypeOK, Deliver

LEMMA TickType ==
  ASSUME ServerTypeOK, Tick
  PROVE  ServerTypeOK'
<1>1. AgeCap \in Nat /\ NotDispatched = -1
  BY LimitsAssumption DEF LimitsAssumption, AgeCap, NotDispatched
<1>2. age' \in [Action -> NotDispatched .. AgeCap]
  BY <1>1 DEF ServerTypeOK, Tick, AgeAll
<1>3. QED
  BY <1>2 DEF ServerTypeOK, Tick

LEMMA BeginType ==
  ASSUME ServerTypeOK, NEW h \in Thread, NEW a \in Action
  PROVE  /\ \A op \in CreateOp : BeginCreate(h, a, op) => ServerTypeOK'
         /\ \A op \in DecideOp : BeginDecide(h, a, op) => ServerTypeOK'
         /\ \A op \in ResultOp : BeginResult(h, a, op) => ServerTypeOK'
<1>1. ASSUME NEW op \in CreateOp \cup DecideOp \cup ResultOp,
             tx' = [tx EXCEPT ![h] = [op |-> op, a |-> a]]
      PROVE  tx' \in [Thread -> {Idle} \cup Busy]
  BY <1>1 DEF ServerTypeOK, Busy
<1>2. QED
  BY <1>1 DEF ServerTypeOK, BeginCreate, BeginDecide, BeginResult, rowVars

LEMMA CommitType ==
  ASSUME ServerTypeOK, NEW h \in Thread, Commit(h)
  PROVE  ServerTypeOK'
<1>1. tx[h] # Idle
  BY DEF Commit, CommitRequest, CommitAutoApproved, CommitApprove, CommitDecline, CommitResult
<1>2. tx[h].a \in Action
  BY <1>1, BusyThread
<1>3. [tx EXCEPT ![h] = Idle] \in [Thread -> {Idle} \cup Busy]
  BY DEF ServerTypeOK
<1>4. \A s \in Status : [status EXCEPT ![tx[h].a] = s] \in [Action -> Status]
  BY <1>2 DEF ServerTypeOK
<1>5. /\ decisions + 1 \in Nat
      /\ [approvedAt EXCEPT ![tx[h].a] = decisions + 1] \in [Action -> Nat]
      /\ authorised \cup {tx[h].a} \subseteq Action
  BY <1>2 DEF ServerTypeOK
<1>6. CASE CommitRequest(h)
  BY <1>3, <1>4, <1>6 DEF ServerTypeOK, CommitRequest, Status
<1>7. CASE CommitAutoApproved(h)
  <2>1. status' \in [Action -> Status]
    BY <1>4, <1>7 DEF CommitAutoApproved, Status
  <2>2. QED
    BY <1>3, <1>5, <1>7, <2>1 DEF ServerTypeOK, CommitAutoApproved
<1>8. CASE CommitApprove(h)
  <2>1. status' \in [Action -> Status]
    BY <1>4, <1>8 DEF CommitApprove, Status
  <2>2. QED
    BY <1>3, <1>5, <1>8, <2>1 DEF ServerTypeOK, CommitApprove
<1>9. CASE CommitDecline(h)
  <2>1. status' \in [Action -> Status]
    BY <1>4, <1>9 DEF CommitDecline, Status
  <2>2. QED
    BY <1>3, <1>5, <1>9, <2>1 DEF ServerTypeOK, CommitDecline
<1>10. CASE CommitResult(h)
  BY <1>2, <1>3, <1>4, <1>10 DEF ServerTypeOK, CommitResult, Status, Summary
<1>11. QED
  BY <1>6, <1>7, <1>8, <1>9, <1>10 DEF Commit

LEMMA DeskType ==
  ASSUME ServerTypeOK, Desk
  PROVE  ServerTypeOK'
<1>1. ASSUME NEW t \in Ticket, ViewTicket(t) PROVE ServerTypeOK'
  BY <1>1, RecoverType DEF ViewTicket, RowsOfTicket
<1>2. CASE RecoverStale
  BY <1>2, RecoverType DEF RecoverStale
<1>3. ASSUME NEW t \in Ticket, CloseTicket(t) \/ ReopenTicket(t) PROVE ServerTypeOK'
  BY <1>3 DEF ServerTypeOK, CloseTicket, ReopenTicket, rowVars
<1>4. ASSUME NEW g \in Agent, RevokeAgent(g) PROVE ServerTypeOK'
  BY <1>4 DEF ServerTypeOK, RevokeAgent, rowVars
<1>5. QED
  BY <1>1, <1>2, <1>3, <1>4, BeginType, CommitType DEF Desk

\* Steps of the agents keep both parts' types.
LEMMA AgentStepType ==
  ASSUME TypeOK, NEW g \in Agent, AgentStep(g) \/ Crash(g)
  PROVE  TypeOK'
<1> USE DEF AgentTypeOK, WorkerPc, ResultOp
<1>1. HttpLimit + ChildLimit \in Nat /\ 0 \in 0 .. HttpLimit + ChildLimit
  BY TimersAssumption DEF TimersAssumption
<1>2. ServerTypeOK /\ AgentTypeOK
  BY DEF TypeOK
<1>3. CASE PollNothing(g)
  <2>1. ServerTypeOK'
    BY <1>2, <1>3, RecoverType DEF PollNothing, DeliverNothing, RowsOfAgent
  <2>2. QED
    BY <1>2, <1>3, <2>1 DEF PollNothing, agentVars, TypeOK
<1>4. CASE PollDelivered(g)
  <2>1. PICK a \in RowsOfAgent(g) : Deliver(g, a) /\ job' = [job EXCEPT ![g] = a]
    BY <1>4 DEF PollDelivered
  <2>2. a \in Action /\ AgentOf[a] = g
    BY DEF RowsOfAgent
  <2>3. ServerTypeOK'
    BY <1>2, <2>1, <2>2, DeliverType
  <2>4. AgentTypeOK'
    BY <1>1, <1>2, <1>4, <2>1, <2>2 DEF PollDelivered
  <2>5. QED
    BY <2>3, <2>4 DEF TypeOK
<1>5. ASSUME UNCHANGED serverVars PROVE ServerTypeOK'
  BY <1>2, <1>5 DEF serverVars, rowVars, ServerTypeOK
<1>6. CASE ReplyLost(g)
  BY <1>1, <1>2, <1>5, <1>6 DEF ReplyLost, Finish, TypeOK
<1>7. CASE StartChild(g)
  BY <1>1, <1>2, <1>5, <1>7 DEF StartChild, TypeOK
<1>8. CASE ChildEffect(g)
  <2>1. job[g] \in Action /\ effects[job[g]] + 1 \in Nat
    BY <1>2, <1>8 DEF ChildEffect
  <2>2. QED
    BY <1>1, <1>2, <1>5, <1>8, <2>1 DEF ChildEffect, TypeOK
<1>9. CASE ChildSucceeded(g)
  BY <1>1, <1>2, <1>5, <1>9 DEF ChildSucceeded, ToReport, TypeOK
<1>10. CASE ChildFailed(g)
  BY <1>1, <1>2, <1>5, <1>10 DEF ChildFailed, ToReport, TypeOK
<1>11. CASE PostResult(g)
  <2>1. job[g] \in Action /\ outcome[g] \in ResultOp
    BY <1>2, <1>11 DEF PostResult
  <2>2. posts' \subseteq (Action \X ResultOp)
    BY <1>2, <1>11, <2>1 DEF PostResult
  <2>3. QED
    BY <1>1, <1>2, <1>5, <1>11, <2>2 DEF PostResult, Finish, TypeOK
<1>12. CASE Crash(g)
  <2>1. job[g] \in Action /\ orphans[job[g]] + 1 \in Nat
    BY <1>2, <1>12 DEF Crash
  <2>2. orphans' \in [Action -> Nat]
    BY <1>2, <1>12, <2>1 DEF Crash
  <2>3. QED
    BY <1>1, <1>2, <1>5, <1>12, <2>2 DEF Crash, Finish, TypeOK
<1>13. QED
  BY <1>3, <1>4, <1>6, <1>7, <1>8, <1>9, <1>10, <1>11, <1>12 DEF AgentStep

LEMMA TimePassesType ==
  ASSUME TypeOK, TimePasses
  PROVE  TypeOK'
<1>1. ServerTypeOK'
  BY TickType DEF TimePasses, TypeOK
<1>2. HttpLimit \in Nat /\ ChildLimit \in Nat
  BY TimersAssumption DEF TimersAssumption
<1>3. elapsed' \in [Agent -> 0 .. HttpLimit + ChildLimit]
  <2>1. ASSUME NEW g \in Agent, pc[g] \in {"awaiting", "running", "effected"}
        PROVE  elapsed[g] + 1 \in 0 .. HttpLimit + ChildLimit
    BY <1>2, <2>1 DEF TypeOK, AgentTypeOK, TimePasses, TimeLeft
  <2>2. QED
    BY <2>1 DEF TypeOK, AgentTypeOK, TimePasses
<1>4. QED
  BY <1>1, <1>3 DEF TypeOK, AgentTypeOK, TimePasses

LEMMA NextType == TypeOK /\ [Next]_vars => TypeOK'
<1> SUFFICES ASSUME TypeOK, [Next]_vars PROVE TypeOK'
  OBVIOUS
<1>1. CASE Desk /\ UNCHANGED agentVars
  BY <1>1, DeskType DEF TypeOK, AgentTypeOK, agentVars
<1>2. CASE TimePasses
  BY <1>2, TimePassesType
<1>3. ASSUME NEW g \in Agent, AgentStep(g) \/ Crash(g) PROVE TypeOK'
  BY <1>3, AgentStepType
<1>4. ASSUME NEW a \in Action, OrphanEffect(a) \/ OrphanDies(a) PROVE TypeOK'
  <2>1. /\ orphans[a] - 1 \in Nat
        /\ effects[a] + 1 \in Nat
    BY <1>4 DEF TypeOK, AgentTypeOK, OrphanEffect, OrphanDies
  <2>2. ServerTypeOK'
    BY <1>4 DEF TypeOK, ServerTypeOK, OrphanEffect, OrphanDies, serverVars, rowVars
  <2>3. QED
    BY <1>4, <2>1, <2>2 DEF TypeOK, AgentTypeOK, OrphanEffect, OrphanDies
<1>5. CASE LosePost
  <2>1. ServerTypeOK'
    BY <1>5 DEF TypeOK, ServerTypeOK, LosePost, serverVars, rowVars
  <2>2. QED
    BY <1>5, <2>1 DEF TypeOK, AgentTypeOK, LosePost
<1>6. ASSUME NEW h \in Thread, ReceivePost(h) PROVE TypeOK'
  <2>1. PICK m \in posts : BeginResult(h, m[1], m[2]) /\ posts' = posts \ {m}
    BY <1>6 DEF ReceivePost
  <2>2. m[1] \in Action /\ m[2] \in ResultOp
    BY DEF TypeOK, AgentTypeOK
  <2>3. ServerTypeOK'
    BY <2>1, <2>2, BeginType DEF TypeOK
  <2>4. QED
    BY <1>6, <2>1, <2>3 DEF TypeOK, AgentTypeOK, ReceivePost
<1>7. CASE UNCHANGED vars
  BY <1>7 DEF vars, serverVars, rowVars, agentVars, TypeOK, ServerTypeOK, AgentTypeOK
<1>8. QED
  BY <1>1, <1>2, <1>3, <1>4, <1>5, <1>6, <1>7 DEF Next

LEMMA InitType == Init => TypeOK
<1> SUFFICES ASSUME Init PROVE TypeOK
  OBVIOUS
<1>1. 0 \in 0 .. MaxAttempts /\ 1 \in 0 .. MaxAttempts
  BY LimitsAssumption DEF LimitsAssumption
<1>2. {0, NotDispatched} \subseteq NotDispatched .. AgeCap
  BY LimitsAssumption DEF LimitsAssumption, NotDispatched, AgeCap
<1>3. ServerTypeOK
  BY <1>1, <1>2, RowsAssumption DEF RowsAssumption, Init, ServerInit, ServerTypeOK, Status, Summary
<1>4. 0 \in 0 .. HttpLimit + ChildLimit
  BY TimersAssumption DEF TimersAssumption
<1>5. AgentTypeOK
  BY <1>4 DEF Init, AgentInit, AgentTypeOK, WorkerPc, ResultOp
<1>6. QED
  BY <1>3, <1>5 DEF TypeOK

\* The rows, the handlers in flight and the agents' workers only ever hold
\* the values their code gives them.
THEOREM TypeCorrect == Spec => []TypeOK
BY InitType, NextType, PTL DEF Spec

-----------------------------------------------------------------------------
(* What a step of the whole system does to a row and to a thread.          *)

\* The row keeps its status, a recovery pass moves it, or the handler of some
\* thread commits it.
StatusStep(a) ==
  \/ status'[a] = status[a]
  \/ /\ status[a] \in {"Approved", "Dispatched"}
     /\ status'[a] \in {"Approved", "Failed"}
  \/ \E h \in Thread :
       /\ tx[h] # Idle /\ tx'[h] = Idle
       /\ tx[h].a = a
       /\ \/ tx[h].op = "request" /\ status'[a] = "PendingApproval"
          \/ /\ tx[h].op \in {"approve", "autoApprove"}
             /\ status'[a] = "Approved"
             /\ a \in authorised'
          \/ tx[h].op = "decline" /\ status'[a] = "Declined"
          \/ tx[h].op = "succeeded" /\ status'[a] = "Completed"
          \/ tx[h].op = "failed" /\ status'[a] = "Failed"

\* The thread stays as it is, ends, or starts on a row it found fit.
TxStep(h) ==
  \/ tx'[h] = tx[h]
  \/ tx'[h] = Idle
  \/ /\ tx[h] = Idle
     /\ UNCHANGED status
     /\ \E a \in Action : \E op \in CreateOp \cup DecideOp \cup ResultOp :
          /\ tx'[h] = [op |-> op, a |-> a]
          /\ \A k \in Thread \ {h} : tx'[k] = tx[k]
          /\ op \in CreateOp => status[a] = "none" /\ ~ InHand(a) /\ ~ HasPending(a)
          /\ op \in DecideOp => status[a] = "PendingApproval"
          /\ op \in ResultOp => status[a] \in {"Approved", "Dispatched"}

ServerStep ==
  /\ authorised \subseteq authorised'
  /\ \A a \in Action : StatusStep(a)
  /\ \A h \in Thread : TxStep(h)

LEMMA RecoverStep ==
  ASSUME ServerTypeOK, NEW S \in SUBSET Action, UNCHANGED <<authorised, tx>>,
         status' = StatusAfter(S)
  PROVE  ServerStep
BY StatusAfterRows DEF ServerStep, StatusStep, TxStep

LEMMA BeginStep ==
  ASSUME ServerTypeOK, NEW h \in Thread, NEW a \in Action
  PROVE  /\ \A op \in CreateOp : BeginCreate(h, a, op) => ServerStep
         /\ \A op \in DecideOp : BeginDecide(h, a, op) => ServerStep
         /\ \A op \in ResultOp : BeginResult(h, a, op) => ServerStep
<1>1. ASSUME NEW op \in CreateOp \cup DecideOp \cup ResultOp,
             tx[h] = Idle, UNCHANGED rowVars,
             tx' = [tx EXCEPT ![h] = [op |-> op, a |-> a]],
             op \in CreateOp => status[a] = "none" /\ ~ InHand(a) /\ ~ HasPending(a),
             op \in DecideOp => status[a] = "PendingApproval",
             op \in ResultOp => status[a] \in {"Approved", "Dispatched"}
      PROVE  ServerStep
  <2>1. TxStep(h)
    BY <1>1 DEF ServerTypeOK, TxStep, rowVars
  <2>2. \A k \in Thread \ {h} : TxStep(k)
    BY <1>1 DEF ServerTypeOK, TxStep
  <2>3. QED
    BY <1>1, <2>1, <2>2 DEF ServerStep, StatusStep, rowVars
<1>2. CreateOp \cap DecideOp = {} /\ CreateOp \cap ResultOp = {} /\ DecideOp \cap ResultOp = {}
  BY DEF CreateOp, DecideOp, ResultOp
<1>3. ASSUME NEW op \in CreateOp, BeginCreate(h, a, op) PROVE ServerStep
  BY <1>1, <1>2, <1>3 DEF BeginCreate
<1>4. ASSUME NEW op \in DecideOp, BeginDecide(h, a, op) PROVE ServerStep
  BY <1>1, <1>2, <1>4 DEF BeginDecide
<1>5. ASSUME NEW op \in ResultOp, BeginResult(h, a, op) PROVE ServerStep
  BY <1>1, <1>2, <1>5 DEF BeginResult
<1>6. QED
  BY <1>3, <1>4, <1>5

LEMMA CommitStep ==
  ASSUME ServerTypeOK, NEW h \in Thread, Commit(h)
  PROVE  ServerStep
<1>1. tx[h] # Idle /\ tx' = [tx EXCEPT ![h] = Idle]
  BY DEF Commit, CommitRequest, CommitAutoApproved, CommitApprove, CommitDecline, CommitResult
<1>2. \A k \in Thread : TxStep(k)
  BY <1>1 DEF ServerTypeOK, TxStep
<1>3. authorised \subseteq authorised'
  BY DEF Commit, CommitRequest, CommitAutoApproved, CommitApprove, CommitDecline, CommitResult
<1>4. tx[h].a \in Action
  BY <1>1, BusyThread
<1>5. ASSUME NEW b \in Action, b # tx[h].a PROVE StatusStep(b)
  BY <1>5 DEF ServerTypeOK, StatusStep, Commit, CommitRequest, CommitAutoApproved,
              CommitApprove, CommitDecline, CommitResult
<1>6. StatusStep(tx[h].a)
  <2>1. CASE CommitRequest(h)
    BY <1>1, <1>4, <2>1 DEF ServerTypeOK, StatusStep, CommitRequest
  <2>2. CASE CommitAutoApproved(h)
    BY <1>1, <1>4, <2>2 DEF ServerTypeOK, StatusStep, CommitAutoApproved
  <2>3. CASE CommitApprove(h)
    BY <1>1, <1>4, <2>3 DEF ServerTypeOK, StatusStep, CommitApprove
  <2>4. CASE CommitDecline(h)
    BY <1>1, <1>4, <2>4 DEF ServerTypeOK, StatusStep, CommitDecline
  <2>5. CASE CommitResult(h)
    BY <1>1, <1>4, <2>5 DEF ServerTypeOK, StatusStep, CommitResult, ResultOp
  <2>6. QED
    BY <2>1, <2>2, <2>3, <2>4, <2>5 DEF Commit
<1>7. QED
  BY <1>2, <1>3, <1>5, <1>6 DEF ServerStep

LEMMA StillStep ==
  ASSUME UNCHANGED <<status, authorised, tx>>
  PROVE  ServerStep
BY DEF ServerStep, StatusStep, TxStep

LEMMA DeskStep ==
  ASSUME ServerTypeOK, Desk
  PROVE  ServerStep
<1>1. ASSUME NEW t \in Ticket, ViewTicket(t) PROVE ServerStep
  BY <1>1, RecoverStep DEF ViewTicket, RowsOfTicket, Recover
<1>2. CASE RecoverStale
  BY <1>2, RecoverStep DEF RecoverStale, Recover
<1>3. ASSUME NEW t \in Ticket, CloseTicket(t) \/ ReopenTicket(t) PROVE ServerStep
  BY <1>3, StillStep DEF CloseTicket, ReopenTicket, rowVars
<1>4. ASSUME NEW g \in Agent, RevokeAgent(g) PROVE ServerStep
  BY <1>4, StillStep DEF RevokeAgent, rowVars
<1>5. QED
  BY <1>1, <1>2, <1>3, <1>4, BeginStep, CommitStep DEF Desk

LEMMA NextStep == TypeOK /\ [Next]_vars => ServerStep
<1> SUFFICES ASSUME TypeOK, [Next]_vars PROVE ServerStep
  OBVIOUS
<1>1. ServerTypeOK
  BY DEF TypeOK
<1>2. CASE Desk
  BY <1>1, <1>2, DeskStep
<1>3. CASE TimePasses
  BY <1>3, StillStep DEF TimePasses, Tick
<1>4. ASSUME NEW g \in Agent, NEW a \in RowsOfAgent(g), Deliver(g, a) PROVE ServerStep
  BY <1>1, <1>4, RecoverStep DEF Deliver, RowsOfAgent
<1>5. ASSUME NEW g \in Agent, DeliverNothing(g) PROVE ServerStep
  BY <1>1, <1>5, RecoverStep DEF DeliverNothing, Recover, RowsOfAgent
<1>6. ASSUME UNCHANGED serverVars PROVE ServerStep
  BY <1>6, StillStep DEF serverVars, rowVars
<1>7. ASSUME NEW g \in Agent, AgentStep(g) \/ Crash(g) PROVE ServerStep
  BY <1>4, <1>5, <1>6, <1>7 DEF AgentStep, PollNothing, PollDelivered, ReplyLost, StartChild,
     ChildEffect, ChildSucceeded, ChildFailed, ToReport, PostResult, Crash
<1>8. ASSUME NEW a \in Action, OrphanEffect(a) \/ OrphanDies(a) PROVE ServerStep
  BY <1>6, <1>8 DEF OrphanEffect, OrphanDies
<1>9. CASE LosePost
  BY <1>6, <1>9 DEF LosePost
<1>10. ASSUME NEW h \in Thread, ReceivePost(h) PROVE ServerStep
  <2>1. PICK m \in posts : BeginResult(h, m[1], m[2])
    BY <1>10 DEF ReceivePost
  <2>2. m[1] \in Action /\ m[2] \in ResultOp
    BY DEF TypeOK, AgentTypeOK
  <2>3. QED
    BY <1>1, <2>1, <2>2, BeginStep
<1>11. CASE UNCHANGED vars
  BY <1>6, <1>11 DEF vars
<1>12. QED
  BY <1>2, <1>3, <1>7, <1>8, <1>9, <1>10, <1>11 DEF Next

-----------------------------------------------------------------------------
(* What a step does to an agent's worker and to the traces of an action.   *)

\* A worker that is busy after a step was busy with the same job before it,
\* or the poll has just delivered that job.
LEMMA JobStep ==
  ASSUME TypeOK, [Next]_vars, NEW g \in Agent, pc'[g] # "idle"
  PROVE  \/ pc[g] # "idle" /\ job'[g] = job[g]
         \/ /\ pc[g] = "idle" /\ pc'[g] = "awaiting" /\ elapsed'[g] = 0
            /\ job'[g] \in Action
            /\ Deliver(g, job'[g])
<1>1. ASSUME NEW k \in Agent, AgentStep(k) \/ Crash(k)
      PROVE  \/ pc[g] # "idle" /\ job'[g] = job[g]
             \/ /\ pc[g] = "idle" /\ pc'[g] = "awaiting" /\ elapsed'[g] = 0
                /\ job'[g] \in Action
                /\ Deliver(g, job'[g])
  <2>1. CASE PollNothing(k)
    BY <2>1 DEF PollNothing, agentVars
  <2>2. CASE PollDelivered(k)
    BY <2>2 DEF PollDelivered, TypeOK, AgentTypeOK, RowsOfAgent
  <2>3. CASE ReplyLost(k) \/ PostResult(k) \/ Crash(k)
    BY <2>3 DEF ReplyLost, PostResult, Crash, Finish, TypeOK, AgentTypeOK
  <2>4. CASE StartChild(k) \/ ChildEffect(k)
    BY <2>4 DEF StartChild, ChildEffect, TypeOK, AgentTypeOK
  <2>5. CASE ChildSucceeded(k) \/ ChildFailed(k)
    BY <2>5 DEF ChildSucceeded, ChildFailed, ToReport, TypeOK, AgentTypeOK
  <2>6. QED
    BY <1>1, <2>1, <2>2, <2>3, <2>4, <2>5 DEF AgentStep
<1>2. QED
  BY <1>1 DEF Next, TimePasses, OrphanEffect, OrphanDies, LosePost, ReceivePost, vars, agentVars

\* Traces of an action appear only through a worker that holds it, or move
\* from one kind to the other.
LEMMA TraceStep ==
  ASSUME TypeOK, [Next]_vars, NEW a \in Action, effects'[a] > 0 \/ orphans'[a] > 0
  PROVE  \/ effects[a] > 0 \/ orphans[a] > 0
         \/ \E g \in Agent : pc[g] = "running" /\ job[g] = a
<1>1. ASSUME NEW k \in Agent, AgentStep(k) \/ Crash(k)
      PROVE  \/ effects'[a] = effects[a] /\ orphans'[a] = orphans[a]
             \/ pc[k] = "running" /\ job[k] = a
  BY <1>1 DEF AgentStep, PollNothing, PollDelivered, ReplyLost, StartChild, ChildEffect,
     ChildSucceeded, ChildFailed, ToReport, PostResult, Crash, agentVars, TypeOK, AgentTypeOK
<1>2. ASSUME NEW b \in Action, OrphanEffect(b) \/ OrphanDies(b)
      PROVE  (effects'[a] = effects[a] /\ orphans'[a] = orphans[a]) \/ orphans[a] > 0
  BY <1>2 DEF OrphanEffect, OrphanDies, TypeOK, AgentTypeOK
<1>3. QED
  BY <1>1, <1>2 DEF Next, TimePasses, LosePost, ReceivePost, vars, agentVars

-----------------------------------------------------------------------------
(* Consent *)

LEMMA ConsentInit == Init => Consent
BY DEF Init, ServerInit, AgentInit, Consent

LEMMA ConsentNext == TypeOK /\ Consent /\ [Next]_vars => Consent'
<1> SUFFICES ASSUME TypeOK, Consent, [Next]_vars PROVE Consent'
  OBVIOUS
<1> DEFINE Live == {"Approved", "Dispatched", "Completed", "Failed"}
<1>1. ServerStep
  BY NextStep
<1>2. TypeOK'
  BY NextType
<1>3. ASSUME NEW a \in Action, status'[a] \in Live PROVE a \in authorised'
  <2>1. authorised \subseteq authorised' /\ StatusStep(a)
    BY <1>1 DEF ServerStep
  <2>2. status[a] \in Live => a \in authorised
    BY DEF Consent
  <2>3. ASSUME NEW h \in Thread, tx[h] # Idle, tx[h].a = a, tx[h].op \in ResultOp
        PROVE  a \in authorised
    BY <2>3 DEF Consent
  <2>4. QED
    BY <1>3, <2>1, <2>2, <2>3 DEF StatusStep, ResultOp
<1>4. ASSUME NEW h \in Thread, tx'[h] # Idle, tx'[h].op \in ResultOp
      PROVE  tx'[h].a \in authorised'
  <2>1. authorised \subseteq authorised' /\ TxStep(h)
    BY <1>1 DEF ServerStep
  <2>2. CASE tx'[h] = tx[h]
    BY <1>4, <2>1, <2>2 DEF Consent
  <2>3. ASSUME NEW a \in Action, NEW op \in CreateOp \cup DecideOp \cup ResultOp,
               tx'[h] = [op |-> op, a |-> a],
               op \in ResultOp => status[a] \in {"Approved", "Dispatched"}
        PROVE  tx'[h].a \in authorised'
    BY <1>4, <2>1, <2>3 DEF Consent
  <2>4. QED
    BY <1>4, <2>1, <2>2, <2>3 DEF TxStep
<1>5. ASSUME NEW g \in Agent, pc'[g] # "idle" PROVE job'[g] \in authorised'
  <2>1. CASE pc[g] # "idle" /\ job'[g] = job[g]
    BY <1>1, <2>1 DEF ServerStep, Consent
  <2>2. CASE job'[g] \in Action /\ Deliver(g, job'[g])
    <3>1. status[job'[g]] \in Live
      BY <2>2, StatusAfterRows DEF Deliver, Deliverable, RowsOfAgent, TypeOK
    <3>2. QED
      BY <1>1, <2>2, <3>1 DEF ServerStep, Consent
  <2>3. QED
    BY <1>5, <2>1, <2>2, JobStep
<1>6. ASSUME NEW a \in Action, effects'[a] > 0 \/ orphans'[a] > 0 PROVE a \in authorised'
  BY <1>1, <1>6, TraceStep DEF ServerStep, Consent
<1>7. QED
  BY <1>3, <1>4, <1>5, <1>6 DEF Consent

\* The consent of the requester (or of staff entitled to skip it) comes before
\* every effect on the computer: approve_endpoint_action and
\* _create_auto_approved_action are the only ways in.
THEOREM NothingRunsUnauthorised == Spec => []OnlyAuthorisedEffects
<1>1. TypeOK /\ Consent => OnlyAuthorisedEffects
  <2> SUFFICES ASSUME TypeOK, Consent, NEW a \in Action, effects[a] > 0 \/ InProgress(a) > 0
               PROVE  a \in authorised
    BY DEF OnlyAuthorisedEffects
  <2>1. CASE effects[a] > 0 \/ orphans[a] > 0
    BY <2>1 DEF Consent
  <2>2. CASE pc[AgentOf[a]] # "idle" /\ job[AgentOf[a]] = a
    BY <2>2, RowsAssumption DEF Consent, RowsAssumption
  <2>3. QED
    BY <2>1, <2>2 DEF InProgress, TypeOK, AgentTypeOK
<1>2. QED
  BY <1>1, ConsentInit, ConsentNext, TypeCorrect, PTL DEF Spec

-----------------------------------------------------------------------------
(* Attempts *)

\* A worker counts once as an attempt in progress on its job.
Working(a) ==
  IF pc[AgentOf[a]] \in {"awaiting", "running"} /\ job[AgentOf[a]] = a THEN 1 ELSE 0

LEMMA InProgressType ==
  ASSUME TypeOK, NEW a \in Action
  PROVE  /\ InProgress(a) = orphans[a] + Working(a)
         /\ Working(a) \in {0, 1}
         /\ orphans[a] \in Nat /\ effects[a] \in Nat /\ retryCount[a] \in Nat
<1>1. MaxAttempts \in Nat
  BY LimitsAssumption DEF LimitsAssumption
<1>2. retryCount[a] \in Nat
  BY <1>1 DEF TypeOK, ServerTypeOK
<1>3. QED
  BY <1>2 DEF InProgress, Working, TypeOK, AgentTypeOK

\* A delivery is counted, and nothing else changes the attempts of a row but
\* a requeue, which adds one more.
LEMMA AttemptsGrow ==
  ASSUME TypeOK, [Next]_vars, NEW a \in Action
  PROVE  retryCount'[a] >= retryCount[a]
<1>1. \A S \in SUBSET Action : RetryAfter(S)[a] >= retryCount[a]
  BY RetryAfterType DEF TypeOK
<1>2. retryCount[a] \in Nat
  BY InProgressType
<1>3. ASSUME UNCHANGED retryCount PROVE retryCount'[a] >= retryCount[a]
  BY <1>2, <1>3
<1>4. ASSUME NEW S \in SUBSET Action, Recover(S) PROVE retryCount'[a] >= retryCount[a]
  BY <1>1, <1>4 DEF Recover
<1>5. ASSUME NEW g \in Agent, NEW b \in RowsOfAgent(g), Deliver(g, b)
      PROVE  retryCount'[a] >= retryCount[a]
  <2> DEFINE R == RetryAfter(RowsOfAgent(g))
  <2>1. R \in [Action -> 0 .. MaxAttempts] /\ R[a] >= retryCount[a]
    BY RetryAfterType DEF RowsOfAgent, TypeOK
  <2>2. MaxAttempts \in Nat /\ b \in Action
    BY LimitsAssumption DEF LimitsAssumption, RowsOfAgent
  <2>3. R[a] \in Nat
    BY <2>1, <2>2
  <2>4. retryCount'[a] = R[a] \/ retryCount'[a] = R[a] + 1
    BY <2>1, <2>2, <1>5 DEF Deliver
  <2>5. QED
    BY <1>2, <2>1, <2>3, <2>4
<1>6. CASE Desk
  BY <1>3, <1>4, <1>6 DEF Desk, BeginCreate, BeginDecide, Commit, CommitRequest,
     CommitAutoApproved, CommitApprove, CommitDecline, CommitResult, ViewTicket, RowsOfTicket,
     RecoverStale, CloseTicket, ReopenTicket, RevokeAgent, rowVars
<1>7. ASSUME NEW g \in Agent, AgentStep(g) \/ Crash(g) PROVE retryCount'[a] >= retryCount[a]
  BY <1>3, <1>4, <1>5, <1>7 DEF AgentStep, PollNothing, DeliverNothing, RowsOfAgent,
     PollDelivered, ReplyLost, StartChild, ChildEffect, ChildSucceeded, ChildFailed, ToReport,
     PostResult, Crash, serverVars, rowVars
<1>8. QED
  BY <1>3, <1>6, <1>7 DEF Next, TimePasses, Tick, OrphanEffect, OrphanDies, LosePost,
     ReceivePost, BeginResult, vars, serverVars, rowVars

\* A delivery to an idle worker adds one to retry_count.
LEMMA DeliveryCounted ==
  ASSUME TypeOK, NEW g \in Agent, NEW a \in RowsOfAgent(g), Deliver(g, a)
  PROVE  retryCount'[a] >= retryCount[a] + 1
<1> DEFINE R == RetryAfter(RowsOfAgent(g))
<1>1. a \in Action /\ MaxAttempts \in Nat
  BY LimitsAssumption DEF LimitsAssumption, RowsOfAgent
<1>2. R \in [Action -> 0 .. MaxAttempts] /\ R[a] >= retryCount[a]
  BY <1>1, RetryAfterType DEF RowsOfAgent, TypeOK
<1>3. R[a] \in Nat /\ retryCount[a] \in Nat
  BY <1>1, <1>2, InProgressType
<1>4. retryCount'[a] = R[a] + 1
  BY <1>1, <1>2 DEF Deliver
<1>5. QED
  BY <1>2, <1>3, <1>4

\* The row's own agent: what its step adds to the attempts in progress and to
\* the effects it takes from the other, or it was delivered just now.
LEMMA AttemptsOfAgentStep ==
  ASSUME TypeOK, NEW g \in Agent, AgentStep(g) \/ Crash(g), NEW a \in Action
  PROVE  \/ effects'[a] + orphans'[a] + Working(a)' <= effects[a] + orphans[a] + Working(a)
         \/ /\ retryCount'[a] >= retryCount[a] + 1
            /\ effects'[a] = effects[a] /\ orphans'[a] = orphans[a]
            /\ Working(a) = 0 /\ Working(a)' = 1
<1> DEFINE Sum == effects[a] + orphans[a] + Working(a)
<1>1. /\ effects[a] \in Nat /\ orphans[a] \in Nat
      /\ Working(a) \in {0, 1}
  BY InProgressType
<1>2. AgentOf[a] \in Agent
  BY RowsAssumption DEF RowsAssumption
<1>3. /\ pc \in [Agent -> WorkerPc] /\ job \in [Agent -> Action \cup {NoJob}]
      /\ effects \in [Action -> Nat] /\ orphans \in [Action -> Nat]
      /\ pc[g] # "idle" => job[g] \in Action /\ AgentOf[job[g]] = g
  BY DEF TypeOK, AgentTypeOK
<1>4. CASE PollNothing(g)
  BY <1>1, <1>4 DEF PollNothing, agentVars, Working
<1>5. CASE PollDelivered(g)
  <2>1. PICK b \in RowsOfAgent(g) : Deliver(g, b) /\ job' = [job EXCEPT ![g] = b]
    BY <1>5 DEF PollDelivered
  <2>2. b \in Action /\ AgentOf[b] = g
    BY DEF RowsOfAgent
  <2>3. UNCHANGED <<orphans, effects>> /\ pc[g] = "idle" /\ pc' = [pc EXCEPT ![g] = "awaiting"]
    BY <1>5 DEF PollDelivered
  <2>4. CASE a = b
    <3>1. Working(a) = 0 /\ Working(a)' = 1
      BY <1>3, <2>1, <2>2, <2>3, <2>4 DEF Working
    <3>2. QED
      BY <2>1, <2>3, <2>4, <3>1, DeliveryCounted
  <2>5. CASE a # b
    <3>1. Working(a)' = Working(a)
      BY <1>2, <1>3, <2>1, <2>2, <2>3, <2>5 DEF Working
    <3>2. QED
      BY <1>1, <2>3, <3>1
  <2>6. QED
    BY <2>4, <2>5
<1>6. CASE ReplyLost(g) \/ PostResult(g)
  <2>1. Working(a)' = Working(a) \/ Working(a)' = 0
    BY <1>2, <1>3, <1>6 DEF ReplyLost, PostResult, Finish, Working
  <2>2. UNCHANGED <<orphans, effects>>
    BY <1>6 DEF ReplyLost, PostResult
  <2>3. QED
    BY <1>1, <2>1, <2>2
<1>7. CASE StartChild(g)
  <2>1. Working(a)' = Working(a)
    BY <1>2, <1>3, <1>7 DEF StartChild, Working
  <2>2. QED
    BY <1>1, <1>7, <2>1 DEF StartChild
<1>8. CASE ChildEffect(g)
  <2>1. CASE a = job[g]
    <3>1. Working(a) = 1 /\ Working(a)' = 0
      BY <1>2, <1>3, <1>8, <2>1 DEF ChildEffect, Working
    <3>2. effects'[a] = effects[a] + 1 /\ orphans'[a] = orphans[a]
      BY <1>3, <1>8, <2>1 DEF ChildEffect
    <3>3. QED
      BY <1>1, <3>1, <3>2
  <2>2. CASE a # job[g]
    <3>1. Working(a)' = Working(a)
      BY <1>2, <1>3, <1>8, <2>2 DEF ChildEffect, Working
    <3>2. effects'[a] = effects[a] /\ orphans'[a] = orphans[a]
      BY <1>3, <1>8, <2>2 DEF ChildEffect
    <3>3. QED
      BY <1>1, <3>1, <3>2
  <2>3. QED
    BY <2>1, <2>2
<1>9. CASE ChildSucceeded(g) \/ ChildFailed(g)
  <2>1. Working(a)' = Working(a) \/ Working(a)' = 0
    BY <1>2, <1>3, <1>9 DEF ChildSucceeded, ChildFailed, ToReport, Working
  <2>2. UNCHANGED <<orphans, effects>>
    BY <1>9 DEF ChildSucceeded, ChildFailed, ToReport
  <2>3. QED
    BY <1>1, <2>1, <2>2
<1>10. CASE Crash(g)
  <2>1. UNCHANGED effects
    BY <1>10 DEF Crash
  <2>2. CASE pc[g] = "running" /\ a = job[g]
    <3>1. Working(a) = 1 /\ Working(a)' = 0
      BY <1>2, <1>3, <1>10, <2>2 DEF Crash, Finish, Working
    <3>2. orphans'[a] = orphans[a] + 1
      BY <1>3, <1>10, <2>2 DEF Crash
    <3>3. QED
      BY <1>1, <2>1, <3>1, <3>2
  <2>3. CASE ~ (pc[g] = "running" /\ a = job[g])
    <3>1. Working(a)' = Working(a) \/ Working(a)' = 0
      BY <1>2, <1>3, <1>10 DEF Crash, Finish, Working
    <3>2. orphans'[a] = orphans[a]
      BY <1>3, <1>10, <2>3 DEF Crash
    <3>3. QED
      BY <1>1, <2>1, <3>1, <3>2
  <2>4. QED
    BY <2>2, <2>3
<1>11. QED
  BY <1>4, <1>5, <1>6, <1>7, <1>8, <1>9, <1>10 DEF AgentStep

LEMMA AttemptsNext == TypeOK /\ EffectsWithinAttempts /\ [Next]_vars => EffectsWithinAttempts'
<1> SUFFICES ASSUME TypeOK, EffectsWithinAttempts, [Next]_vars, NEW a \in Action
             PROVE  (effects[a] + InProgress(a) <= retryCount[a])'
  BY DEF EffectsWithinAttempts
<1>1. TypeOK'
  BY NextType
<1>2. /\ effects[a] \in Nat /\ orphans[a] \in Nat /\ Working(a) \in {0, 1}
      /\ retryCount[a] \in Nat /\ InProgress(a) = orphans[a] + Working(a)
  BY InProgressType
<1>3. (/\ effects[a] \in Nat /\ orphans[a] \in Nat /\ Working(a) \in {0, 1}
       /\ retryCount[a] \in Nat /\ InProgress(a) = orphans[a] + Working(a))'
  <2>1. MaxAttempts \in Nat
    BY LimitsAssumption DEF LimitsAssumption
  <2>2. retryCount'[a] \in Nat
    BY <1>1, <2>1 DEF TypeOK, ServerTypeOK
  <2>3. QED
    BY <1>1, <2>2 DEF TypeOK, AgentTypeOK, InProgress, Working
<1>4. effects[a] + (orphans[a] + Working(a)) <= retryCount[a]
  BY <1>2 DEF EffectsWithinAttempts
<1>5. retryCount'[a] >= retryCount[a]
  BY AttemptsGrow
<1>6. ASSUME effects'[a] + orphans'[a] + Working(a)' <= effects[a] + orphans[a] + Working(a)
      PROVE  (effects[a] + InProgress(a) <= retryCount[a])'
  BY <1>2, <1>3, <1>4, <1>5, <1>6
<1>7. ASSUME NEW g \in Agent, AgentStep(g) \/ Crash(g)
      PROVE  (effects[a] + InProgress(a) <= retryCount[a])'
  BY <1>2, <1>3, <1>4, <1>6, <1>7, AttemptsOfAgentStep
<1>8. ASSUME UNCHANGED <<pc, job, orphans, effects>>
      PROVE  (effects[a] + InProgress(a) <= retryCount[a])'
  <2>1. Working(a)' = Working(a)
    BY <1>8 DEF Working
  <2>2. QED
    BY <1>2, <1>6, <1>8, <2>1
<1>9. ASSUME NEW b \in Action, OrphanEffect(b) \/ OrphanDies(b)
      PROVE  (effects[a] + InProgress(a) <= retryCount[a])'
  <2>1. Working(a)' = Working(a)
    BY <1>9 DEF OrphanEffect, OrphanDies, Working
  <2>2. effects'[a] + orphans'[a] <= effects[a] + orphans[a]
    BY <1>2, <1>9 DEF OrphanEffect, OrphanDies, TypeOK, AgentTypeOK
  <2>3. QED
    BY <1>2, <1>3, <1>6, <2>1, <2>2
<1>10. QED
  BY <1>7, <1>8, <1>9 DEF Next, TimePasses, LosePost, ReceivePost, agentVars, vars

LEMMA AttemptsInit == Init => EffectsWithinAttempts
<1> SUFFICES ASSUME Init, NEW a \in Action PROVE effects[a] + InProgress(a) <= retryCount[a]
  BY DEF EffectsWithinAttempts
<1>1. effects[a] = 0 /\ orphans[a] = 0 /\ retryCount[a] \in {0, 1}
  BY DEF Init, ServerInit, AgentInit
<1>2. pc[AgentOf[a]] = "idle"
  BY RowsAssumption DEF Init, AgentInit, RowsAssumption
<1>3. InProgress(a) = 0
  BY <1>1, <1>2 DEF InProgress
<1>4. QED
  BY <1>1, <1>3

\* An action is carried out at most retry_count times, whatever is lost,
\* crashes or is delivered again: next_endpoint_action counts the attempt in
\* the transaction that delivers it.
THEOREM EffectsBounded == Spec => []EffectsWithinAttempts
BY AttemptsInit, AttemptsNext, TypeCorrect, PTL DEF Spec

-----------------------------------------------------------------------------
(* Evidence *)

LEMMA EffectsGrow ==
  ASSUME TypeOK, [Next]_vars, NEW a \in Action, effects[a] > 0
  PROVE  effects'[a] > 0
<1>1. effects \in [Action -> Nat]
  BY DEF TypeOK, AgentTypeOK
<1>2. ASSUME NEW b, effects' = [effects EXCEPT ![b] = effects[b] + 1] PROVE effects'[a] > 0
  BY <1>1, <1>2
<1>3. ASSUME UNCHANGED effects PROVE effects'[a] > 0
  BY <1>3
<1>4. QED
  BY <1>2, <1>3 DEF Next, agentVars, TimePasses, AgentStep, PollNothing, PollDelivered,
     ReplyLost, StartChild, ChildEffect, ChildSucceeded, ChildFailed, ToReport, PostResult,
     Crash, OrphanEffect, OrphanDies, LosePost, ReceivePost, vars

\* Where a claim of success in the worker comes from.
Claims(g) == pc[g] = "effected" \/ (pc[g] = "reporting" /\ outcome[g] = "succeeded")

LEMMA ClaimStep ==
  ASSUME TypeOK, [Next]_vars, NEW g \in Agent, Claims(g)'
  PROVE  /\ job'[g] = job[g] /\ job[g] \in Action
         /\ Claims(g) \/ effects'[job[g]] > 0
<1>1. /\ pc \in [Agent -> WorkerPc] /\ job \in [Agent -> Action \cup {NoJob}]
      /\ outcome \in [Agent -> ResultOp] /\ effects \in [Action -> Nat]
      /\ \A k \in Agent : pc[k] # "idle" => job[k] \in Action
  BY DEF TypeOK, AgentTypeOK
<1>2. ASSUME UNCHANGED <<pc, job, outcome>>
      PROVE  job'[g] = job[g] /\ job[g] \in Action /\ Claims(g)
  BY <1>1, <1>2 DEF Claims
<1>3. ASSUME NEW k \in Agent, AgentStep(k) \/ Crash(k)
      PROVE  /\ job'[g] = job[g] /\ job[g] \in Action
             /\ Claims(g) \/ effects'[job[g]] > 0
  <2>1. CASE PollNothing(k)
    BY <1>2, <2>1 DEF PollNothing, agentVars
  <2>2. CASE PollDelivered(k)
    BY <1>1, <2>2 DEF PollDelivered, Claims
  <2>3. CASE ReplyLost(k) \/ PostResult(k) \/ Crash(k)
    BY <1>1, <2>3 DEF ReplyLost, PostResult, Crash, Finish, Claims
  <2>4. CASE StartChild(k)
    BY <1>1, <2>4 DEF StartChild, Claims
  <2>5. CASE ChildEffect(k)
    <3>1. CASE g = k
      <4>1. job[k] \in Action /\ effects'[job[k]] = effects[job[k]] + 1
        BY <1>1, <2>5 DEF ChildEffect
      <4>2. QED
        BY <1>1, <2>5, <3>1, <4>1 DEF ChildEffect
    <3>2. CASE g # k
      BY <1>1, <2>5, <3>2 DEF ChildEffect, Claims
    <3>3. QED
      BY <3>1, <3>2
  <2>6. CASE ChildSucceeded(k)
    BY <1>1, <2>6 DEF ChildSucceeded, ToReport, Claims
  <2>7. CASE ChildFailed(k)
    BY <1>1, <2>7 DEF ChildFailed, ToReport, Claims
  <2>8. QED
    BY <1>3, <2>1, <2>2, <2>3, <2>4, <2>5, <2>6, <2>7 DEF AgentStep
<1>4. QED
  BY <1>2, <1>3 DEF Next, agentVars, TimePasses, OrphanEffect, OrphanDies, LosePost,
     ReceivePost, vars

\* A result enters the network with the worker's claim, and a handler with a
\* result from the network.
LEMMA PostStep ==
  ASSUME TypeOK, [Next]_vars, NEW m \in posts'
  PROVE  m \in posts \/ \E g \in Agent : pc[g] = "reporting" /\ m = <<job[g], outcome[g]>>
BY DEF Next, agentVars, TimePasses, AgentStep, PollNothing, PollDelivered, ReplyLost, StartChild,
   ChildEffect, ChildSucceeded, ChildFailed, ToReport, PostResult, Crash, OrphanEffect,
   OrphanDies, LosePost, ReceivePost, vars

LEMMA ResultStep ==
  ASSUME TypeOK, [Next]_vars, NEW h \in Thread, tx'[h] # Idle, tx'[h].op = "succeeded"
  PROVE  tx'[h] = tx[h] \/ \E m \in posts : m[2] = "succeeded" /\ tx'[h].a = m[1]
<1>1. tx \in [Thread -> {Idle} \cup Busy]
  BY DEF TypeOK, ServerTypeOK
<1>2. ASSUME Desk PROVE tx'[h] = tx[h]
  <2>1. ASSUME NEW k \in Thread, NEW a \in Action, NEW op \in CreateOp \cup DecideOp,
               tx' = [tx EXCEPT ![k] = [op |-> op, a |-> a]]
        PROVE  tx'[h] = tx[h]
    BY <1>1, <2>1 DEF CreateOp, DecideOp
  <2>2. ASSUME NEW k \in Thread, tx' = [tx EXCEPT ![k] = Idle] PROVE tx'[h] = tx[h]
    BY <1>1, <2>2
  <2>3. ASSUME NEW k \in Thread, Commit(k) PROVE tx'[h] = tx[h]
    BY <2>2, <2>3 DEF Commit, CommitRequest, CommitAutoApproved, CommitApprove,
       CommitDecline, CommitResult
  <2>4. ASSUME UNCHANGED tx PROVE tx'[h] = tx[h]
    BY <2>4
  <2>5. QED
    BY <1>2, <2>1, <2>3, <2>4 DEF Desk, BeginCreate, BeginDecide, ViewTicket, RecoverStale,
       Recover, CloseTicket, ReopenTicket, RevokeAgent
<1>3. ASSUME NEW k \in Thread, ReceivePost(k)
      PROVE  tx'[h] = tx[h] \/ \E m \in posts : m[2] = "succeeded" /\ tx'[h].a = m[1]
  <2>1. PICK m \in posts : BeginResult(k, m[1], m[2])
    BY <1>3 DEF ReceivePost
  <2>2. tx' = [tx EXCEPT ![k] = [op |-> m[2], a |-> m[1]]]
    BY <2>1 DEF BeginResult
  <2>3. QED
    BY <1>1, <2>2
<1>4. QED
  BY <1>2, <1>3 DEF Next, TimePasses, Tick, AgentStep, PollNothing, DeliverNothing, Recover,
     PollDelivered, Deliver, ReplyLost, StartChild, ChildEffect, ChildSucceeded, ChildFailed,
     ToReport, PostResult, Crash, OrphanEffect, OrphanDies, LosePost, vars, serverVars

LEMMA EvidenceInit == Init => Evidence
BY DEF Init, ServerInit, AgentInit, Evidence

LEMMA EvidenceNext == TypeOK /\ Evidence /\ [Next]_vars => Evidence'
<1> SUFFICES ASSUME TypeOK, Evidence, [Next]_vars PROVE Evidence'
  OBVIOUS
<1>1. ServerStep /\ ServerTypeOK
  BY NextStep DEF TypeOK
<1>2. ASSUME NEW g \in Agent, Claims(g)' PROVE effects'[job'[g]] > 0
  BY <1>2, ClaimStep, EffectsGrow DEF Evidence, Claims
<1>3. ASSUME NEW m \in posts', m[2] = "succeeded" PROVE effects'[m[1]] > 0
  <2>1. CASE m \in posts
    BY <1>3, <2>1, EffectsGrow DEF Evidence, TypeOK, AgentTypeOK
  <2>2. ASSUME NEW g \in Agent, pc[g] = "reporting", m = <<job[g], outcome[g]>>
        PROVE  effects'[m[1]] > 0
    <3>1. effects[job[g]] > 0 /\ job[g] \in Action
      BY <1>3, <2>2 DEF Evidence, TypeOK, AgentTypeOK
    <3>2. QED
      BY <2>2, <3>1, EffectsGrow
  <2>3. QED
    BY <2>1, <2>2, PostStep
<1>4. ASSUME NEW h \in Thread, tx'[h] # Idle, tx'[h].op = "succeeded"
      PROVE  effects'[tx'[h].a] > 0
  <2>1. CASE tx'[h] = tx[h]
    BY <1>1, <1>4, <2>1, BusyThread, EffectsGrow DEF Evidence
  <2>2. ASSUME NEW m \in posts, m[2] = "succeeded", tx'[h].a = m[1]
        PROVE  effects'[tx'[h].a] > 0
    BY <2>2, EffectsGrow DEF Evidence, TypeOK, AgentTypeOK
  <2>3. QED
    BY <1>4, <2>1, <2>2, ResultStep
<1>5. ASSUME NEW a \in Action, status'[a] = "Completed" PROVE effects'[a] > 0
  <2>1. effects[a] > 0
    BY <1>1, <1>5 DEF ServerStep, StatusStep, Evidence
  <2>2. QED
    BY <2>1, EffectsGrow
<1>6. QED
  BY <1>2, <1>3, <1>4, <1>5 DEF Evidence, Claims

\* "Completed" is never recorded for an action that had no effect: the worker
\* reports success only for a child that ended with its result.
THEOREM CompletedIsTrue == Spec => []CompletedMeansEffected
<1>1. Evidence => CompletedMeansEffected
  BY DEF Evidence, CompletedMeansEffected
<1>2. QED
  BY <1>1, EvidenceInit, EvidenceNext, TypeCorrect, PTL DEF Spec

-----------------------------------------------------------------------------
(* Freshness *)

\* While a worker is busy, only time changes the age of its row.
LEMMA AgeOfJob ==
  ASSUME TypeOK, [Next]_vars, NEW g \in Agent, pc[g] # "idle", ~ TimePasses
  PROVE  age'[job[g]] = age[job[g]]
<1>1. age \in [Action -> NotDispatched .. AgeCap] /\ job[g] \in Action /\ AgentOf[job[g]] = g
  BY DEF TypeOK, ServerTypeOK, AgentTypeOK
<1>2. ASSUME UNCHANGED age PROVE age'[job[g]] = age[job[g]]
  BY <1>2
<1>3. ASSUME NEW k \in Agent, PollDelivered(k) PROVE age'[job[g]] = age[job[g]]
  <2>1. PICK b \in RowsOfAgent(k) : Deliver(k, b)
    BY <1>3 DEF PollDelivered
  <2>2. b # job[g]
    BY <1>1, <1>3 DEF PollDelivered, RowsOfAgent
  <2>3. QED
    BY <1>1, <2>1, <2>2 DEF Deliver, RowsOfAgent
<1>4. CASE Desk
  BY <1>2, <1>4 DEF Desk, BeginCreate, BeginDecide, Commit, CommitRequest, CommitAutoApproved,
     CommitApprove, CommitDecline, CommitResult, ViewTicket, RecoverStale, Recover,
     CloseTicket, ReopenTicket, RevokeAgent, rowVars
<1>5. QED
  BY <1>2, <1>3, <1>4 DEF Next, AgentStep, PollNothing, DeliverNothing, Recover, ReplyLost,
     StartChild, ChildEffect, ChildSucceeded, ChildFailed, ToReport, PostResult, Crash,
     OrphanEffect, OrphanDies, LosePost, ReceivePost, BeginResult, vars, serverVars, rowVars

LEMMA FreshnessInit == Init => Freshness
BY DEF Init, AgentInit, Freshness

LEMMA FreshnessNext == TypeOK /\ Freshness /\ [Next]_vars => Freshness'
<1> SUFFICES ASSUME TypeOK, Freshness, [Next]_vars, NEW g \in Agent
             PROVE  /\ pc'[g] = "awaiting" =>
                         elapsed'[g] <= HttpLimit /\ age'[job'[g]] <= elapsed'[g]
                    /\ pc'[g] \in {"running", "effected"} =>
                         elapsed'[g] <= ChildLimit /\ age'[job'[g]] <= HttpLimit + elapsed'[g]
  BY DEF Freshness
<1>1. HttpLimit \in Nat /\ ChildLimit \in Nat /\ AgeCap \in Nat /\ NotDispatched = -1
  BY TimersAssumption, LimitsAssumption DEF TimersAssumption, LimitsAssumption, AgeCap, NotDispatched
<1>2. /\ pc \in [Agent -> WorkerPc] /\ elapsed \in [Agent -> 0 .. HttpLimit + ChildLimit]
      /\ job \in [Agent -> Action \cup {NoJob}]
      /\ pc[g] # "idle" => job[g] \in Action /\ AgentOf[job[g]] = g
      /\ age \in [Action -> NotDispatched .. AgeCap]
  BY DEF TypeOK, ServerTypeOK, AgentTypeOK
<1>3. /\ pc[g] = "awaiting" => elapsed[g] <= HttpLimit /\ age[job[g]] <= elapsed[g]
      /\ pc[g] \in {"running", "effected"} =>
           elapsed[g] <= ChildLimit /\ age[job[g]] <= HttpLimit + elapsed[g]
  BY DEF Freshness
<1>4. elapsed[g] \in Nat /\ (pc[g] # "idle" => age[job[g]] \in Int)
  BY <1>1, <1>2
<1>5. CASE TimePasses
  <2>1. UNCHANGED <<pc, job>>
    BY <1>5 DEF TimePasses
  <2>2. pc[g] # "idle" => age'[job[g]] = age[job[g]] \/ age'[job[g]] = age[job[g]] + 1
    BY <1>2, <1>5 DEF TimePasses, Tick, AgeAll
  <2>3. pc[g] \in {"awaiting", "running", "effected"} => elapsed'[g] = elapsed[g] + 1
    BY <1>5 DEF TimePasses
  <2>4. /\ pc[g] = "awaiting" => elapsed[g] < HttpLimit
        /\ pc[g] \in {"running", "effected"} => elapsed[g] < ChildLimit
    BY <1>5 DEF TimePasses, TimeLeft
  <2>5. QED
    BY <1>1, <1>3, <1>4, <2>1, <2>2, <2>3, <2>4
<1>6. CASE ~ TimePasses
  <2>1. pc[g] # "idle" => age'[job[g]] = age[job[g]]
    BY <1>6, AgeOfJob
  <2>2. ASSUME UNCHANGED <<pc[g], job[g], elapsed[g]>>
        PROVE  /\ pc'[g] = "awaiting" =>
                    elapsed'[g] <= HttpLimit /\ age'[job'[g]] <= elapsed'[g]
               /\ pc'[g] \in {"running", "effected"} =>
                    elapsed'[g] <= ChildLimit /\ age'[job'[g]] <= HttpLimit + elapsed'[g]
    BY <1>3, <2>1, <2>2
  <2>3. ASSUME pc'[g] \in {"idle", "reporting"}
        PROVE  /\ pc'[g] = "awaiting" =>
                    elapsed'[g] <= HttpLimit /\ age'[job'[g]] <= elapsed'[g]
               /\ pc'[g] \in {"running", "effected"} =>
                    elapsed'[g] <= ChildLimit /\ age'[job'[g]] <= HttpLimit + elapsed'[g]
    BY <2>3
  <2>4. ASSUME NEW k \in Agent, k # g, AgentStep(k) \/ Crash(k)
        PROVE  UNCHANGED <<pc[g], job[g], elapsed[g]>>
    BY <1>2, <2>4 DEF AgentStep, PollNothing, PollDelivered, ReplyLost, StartChild, ChildEffect,
       ChildSucceeded, ChildFailed, ToReport, PostResult, Crash, Finish, agentVars
  <2>5. CASE PollDelivered(g)
    <3>1. PICK b \in RowsOfAgent(g) : Deliver(g, b) /\ job' = [job EXCEPT ![g] = b]
      BY <2>5 DEF PollDelivered
    <3>2. b \in Action
      BY DEF RowsOfAgent
    <3>3. age'[b] = 0 /\ job'[g] = b
      BY <1>2, <3>1, <3>2 DEF Deliver
    <3>4. pc'[g] = "awaiting" /\ elapsed'[g] = 0
      BY <1>2, <2>5 DEF PollDelivered
    <3>5. QED
      BY <1>1, <3>3, <3>4
  <2>6. CASE StartChild(g)
    <3>1. pc[g] = "awaiting" /\ pc'[g] = "running" /\ elapsed'[g] = 0 /\ job'[g] = job[g]
      BY <1>2, <2>6 DEF StartChild
    <3>2. QED
      BY <1>1, <1>3, <1>4, <2>1, <3>1
  <2>7. CASE ChildEffect(g)
    <3>1. /\ pc[g] = "running" /\ pc'[g] = "effected"
          /\ elapsed'[g] = elapsed[g] /\ job'[g] = job[g]
      BY <1>2, <2>7 DEF ChildEffect
    <3>2. QED
      BY <1>3, <2>1, <3>1
  <2>8. CASE ReplyLost(g) \/ PostResult(g) \/ Crash(g) \/ ChildSucceeded(g) \/ ChildFailed(g)
    BY <1>2, <2>3, <2>8 DEF ReplyLost, PostResult, Crash, Finish, ChildSucceeded, ChildFailed, ToReport
  <2>9. CASE PollNothing(g)
    BY <2>2, <2>9 DEF PollNothing, agentVars
  <2>10. QED
    BY <1>6, <2>2, <2>4, <2>5, <2>6, <2>7, <2>8, <2>9 DEF Next, AgentStep, agentVars,
       OrphanEffect, OrphanDies, LosePost, ReceivePost, vars
<1>7. QED
  BY <1>5, <1>6

\* "Agent did not respond" is recorded only for a row nobody works on any
\* more: ENDPOINT_ACTION_NO_RESPONSE_SECONDS is at least the transport's
\* timeout and the child's together (TimersAssumption).
THEOREM NoResponseIsTrue == Spec => NoResponseMeansNotWorking
<1>1. TypeOK /\ Freshness /\ [Next]_vars => [GivenUpRightly("noResponse")]_vars
  <2> SUFFICES ASSUME TypeOK, Freshness, [Next]_vars, NEW a \in Action,
                      summary'[a] = "noResponse", summary[a] # "noResponse"
               PROVE  ~ WorkedOn(a)
    BY DEF GivenUpRightly
  <2>1. ServerTypeOK /\ summary \in [Action -> Summary]
    BY DEF TypeOK, ServerTypeOK
  <2>2. ASSUME NEW S \in SUBSET Action, summary' = SummaryAfter(S)
        PROVE  age[a] > NoResponseAge
    BY <2>1, <2>2, SummaryAfterRows
  <2>3. ASSUME NEW h \in Thread, CommitResult(h) PROVE FALSE
    BY <2>1, <2>3 DEF CommitResult
  <2>4. ASSUME Desk PROVE age[a] > NoResponseAge
    BY <2>2, <2>3, <2>4 DEF Desk, BeginCreate, BeginDecide, Commit, CommitRequest,
       CommitAutoApproved, CommitApprove, CommitDecline, ViewTicket, RowsOfTicket,
       RecoverStale, Recover, CloseTicket, ReopenTicket, RevokeAgent, rowVars
  <2>5. ASSUME NEW g \in Agent, AgentStep(g) \/ Crash(g) PROVE age[a] > NoResponseAge
    BY <2>2, <2>5 DEF AgentStep, PollNothing, DeliverNothing, Recover, RowsOfAgent,
       PollDelivered, Deliver, ReplyLost, StartChild, ChildEffect, ChildSucceeded,
       ChildFailed, ToReport, PostResult, Crash, serverVars, rowVars
  <2>6. age[a] > NoResponseAge
    BY <2>4, <2>5 DEF Next, TimePasses, Tick, OrphanEffect, OrphanDies, LosePost, ReceivePost,
       BeginResult, vars, serverVars, rowVars
  <2>7. ASSUME WorkedOn(a) PROVE FALSE
    <3>1. AgentOf[a] \in Agent
      BY RowsAssumption DEF RowsAssumption
    <3>2. /\ HttpLimit \in Nat /\ ChildLimit \in Nat /\ NoResponseAge \in Nat
          /\ HttpLimit + ChildLimit <= NoResponseAge /\ AgeCap \in Nat /\ NotDispatched = -1
      BY TimersAssumption, LimitsAssumption
         DEF TimersAssumption, LimitsAssumption, AgeCap, NotDispatched
    <3>3. elapsed[AgentOf[a]] \in Nat /\ age[a] \in Int
      BY <3>1, <3>2 DEF TypeOK, ServerTypeOK, AgentTypeOK
    <3>4. \/ elapsed[AgentOf[a]] <= HttpLimit /\ age[a] <= elapsed[AgentOf[a]]
          \/ elapsed[AgentOf[a]] <= ChildLimit /\ age[a] <= HttpLimit + elapsed[AgentOf[a]]
      BY <2>7, <3>1 DEF Freshness, WorkedOn
    <3>5. QED
      BY <2>6, <3>2, <3>3, <3>4
  <2>8. QED
    BY <2>7
<1>2. QED
  BY <1>1, FreshnessInit, FreshnessNext, TypeCorrect, PTL DEF Spec, NoResponseMeansNotWorking

-----------------------------------------------------------------------------
(* Creation, and the whole invariant *)

LEMMA CreationNext == TypeOK /\ CreationExclusive /\ [Next]_vars => CreationExclusive'
<1> SUFFICES ASSUME TypeOK, CreationExclusive, [Next]_vars,
                    NEW h \in Thread, tx'[h] # Idle, tx'[h].op \in CreateOp
             PROVE  /\ status'[tx'[h].a] = "none"
                    /\ \A k \in Thread : (tx'[k] # Idle /\ tx'[k].a = tx'[h].a) => k = h
  BY DEF CreationExclusive
<1>1. ServerStep
  BY NextStep
<1>2. \A k \in Thread : TxStep(k)
  BY <1>1 DEF ServerStep
<1>3. CASE tx'[h] = tx[h]
  <2> DEFINE row == tx[h].a
  <2>1. /\ row \in Action /\ status[row] = "none"
        /\ \A k \in Thread : (tx[k] # Idle /\ tx[k].a = row) => k = h
    BY <1>3, BusyThread DEF CreationExclusive, TypeOK
  <2>2. status'[row] = "none"
    <3>1. StatusStep(row)
      BY <1>1, <2>1 DEF ServerStep
    <3>2. QED
      BY <1>3, <2>1, <3>1 DEF StatusStep
  <2>3. ASSUME NEW k \in Thread, tx'[k] # Idle, tx'[k].a = row PROVE k = h
    <3>1. CASE tx'[k] = tx[k]
      BY <2>1, <2>3, <3>1
    <3>2. ASSUME NEW b \in Action, NEW op \in CreateOp \cup DecideOp \cup ResultOp,
                 tx'[k] = [op |-> op, a |-> b],
                 op \in CreateOp => status[b] = "none" /\ ~ InHand(b),
                 op \in DecideOp => status[b] = "PendingApproval",
                 op \in ResultOp => status[b] \in {"Approved", "Dispatched"}
          PROVE  k = h
      <4>1. b = row
        BY <2>3, <3>2
      <4>2. InHand(row)
        BY <1>3 DEF InHand
      <4>3. QED
        BY <2>1, <3>2, <4>1, <4>2
    <3>3. QED
      BY <1>2, <2>3, <3>1, <3>2 DEF TxStep
  <2>4. QED
    BY <1>3, <2>2, <2>3
<1>4. ASSUME NEW b \in Action, NEW op \in CreateOp \cup DecideOp \cup ResultOp,
             UNCHANGED status,
             tx'[h] = [op |-> op, a |-> b],
             \A k \in Thread \ {h} : tx'[k] = tx[k],
             op \in CreateOp => status[b] = "none" /\ ~ InHand(b)
      PROVE  /\ status'[tx'[h].a] = "none"
             /\ \A k \in Thread : (tx'[k] # Idle /\ tx'[k].a = tx'[h].a) => k = h
  BY <1>4 DEF InHand
<1>5. QED
  BY <1>2, <1>3, <1>4 DEF TxStep

LEMMA IInvNext == IInv /\ [Next]_vars => IInv'
BY NextType, ConsentNext, AttemptsNext, EvidenceNext, FreshnessNext, CreationNext DEF IInv

LEMMA IInvInit == Init => IInv
<1>1. Init => CreationExclusive
  BY DEF Init, ServerInit, CreationExclusive
<1>2. QED
  BY <1>1, InitType, ConsentInit, AttemptsInit, EvidenceInit, FreshnessInit DEF IInv

\* IInv holds always: consent, attempts, evidence, freshness and the
\* exclusiveness of creation are preserved together by every step.
THEOREM Inductive == Spec => []IInv
BY IInvInit, IInvNext, PTL DEF Spec

-----------------------------------------------------------------------------
(* What a row was settled as.                                              *)

\* A row that is settled, with no handler left that read it earlier, is in none again.
SettledRow(a) ==
  settledAs[a] # "open" =>
    status[a] = settledAs[a] /\ status[a] \in {"Declined", "Completed", "Failed"} /\ ~ InHand(a)

LEMMA SettledStays ==
  ASSUME TypeOK, [Next]_vars, NEW a \in Action,
         status[a] \in {"Declined", "Completed", "Failed"}, ~ InHand(a)
  PROVE  status'[a] = status[a] /\ ~ InHand(a)'
<1>1. ServerStep
  BY NextStep
<1>2. status'[a] = status[a]
  BY <1>1 DEF ServerStep, StatusStep, InHand
<1>3. ASSUME NEW h \in Thread, tx'[h] # Idle, tx'[h].a = a PROVE FALSE
  <2>1. TxStep(h)
    BY <1>1 DEF ServerStep
  <2>2. CASE tx'[h] = tx[h]
    BY <1>3, <2>2 DEF InHand
  <2>3. ASSUME NEW b \in Action, NEW op \in CreateOp \cup DecideOp \cup ResultOp,
               tx'[h] = [op |-> op, a |-> b],
               op \in CreateOp => status[b] = "none",
               op \in DecideOp => status[b] = "PendingApproval",
               op \in ResultOp => status[b] \in {"Approved", "Dispatched"}
        PROVE  FALSE
    BY <1>3, <2>3
  <2>4. QED
    BY <1>3, <2>1, <2>2, <2>3 DEF TxStep
<1>4. QED
  BY <1>2, <1>3 DEF InHand

\* A declined action never becomes deliverable, and a recorded result is the row's last
\* word: once no handler holds what it read before, no later decision, result, retry or
\* recovery changes it, on any number of threads.
THEOREM SettledForGood == HSpec => []SettledIsFinal
<1> DEFINE Rows == settledAs \in [Action -> {"open"} \cup Status] /\ \A a \in Action : SettledRow(a)
<1>1. HInit => Rows
  BY DEF HInit, SettledRow
<1>2. TypeOK /\ Rows /\ [HNext]_<<vars, settledAs>> => Rows'
  <2> SUFFICES ASSUME TypeOK, Rows, [HNext]_<<vars, settledAs>> PROVE Rows'
    OBVIOUS
  <2>1. [Next]_vars
    BY DEF HNext
  <2>2. TypeOK' /\ status' \in [Action -> Status]
    BY <2>1, NextType DEF TypeOK, ServerTypeOK
  <2>3. CASE UNCHANGED <<vars, settledAs>>
    BY <2>3 DEF vars, serverVars, rowVars, SettledRow, InHand
  <2>4. CASE HNext
    <3>1. settledAs' = [a \in Action |-> IF settledAs[a] = "open" /\ Settled(a)' THEN status'[a]
                                         ELSE settledAs[a]]
      BY <2>4 DEF HNext
    <3>2. settledAs' \in [Action -> {"open"} \cup Status]
      BY <2>2, <3>1
    <3>3. ASSUME NEW a \in Action PROVE SettledRow(a)'
      <4>1. CASE settledAs[a] # "open"
        <5>1. status'[a] = status[a] /\ ~ InHand(a)'
          BY <2>1, <4>1, SettledStays DEF SettledRow
        <5>2. settledAs'[a] = settledAs[a]
          BY <3>1, <4>1
        <5>3. QED
          BY <4>1, <5>1, <5>2 DEF SettledRow
      <4>2. CASE settledAs[a] = "open" /\ Settled(a)'
        <5>1. settledAs'[a] = status'[a]
          BY <3>1, <4>2
        <5>2. QED
          BY <4>2, <5>1 DEF SettledRow, Settled
      <4>3. CASE settledAs[a] = "open" /\ ~ Settled(a)'
        <5>1. settledAs'[a] = "open"
          BY <3>1, <4>3
        <5>2. QED
          BY <5>1 DEF SettledRow
      <4>4. QED
        BY <4>1, <4>2, <4>3
    <3>4. QED
      BY <3>2, <3>3
  <2>5. QED
    BY <2>3, <2>4
<1>3. Rows => SettledIsFinal
  BY DEF SettledRow, SettledIsFinal
<1>4. HInit => TypeOK
  BY InitType DEF HInit
<1>5. TypeOK /\ [HNext]_<<vars, settledAs>> => TypeOK'
  <2>1. [HNext]_<<vars, settledAs>> => [Next]_vars
    BY DEF HNext
  <2>2. QED
    BY <2>1, NextType
<1>6. QED
  BY <1>1, <1>2, <1>3, <1>4, <1>5, PTL DEF HSpec

-----------------------------------------------------------------------------
(* One open action.                                                        *)

\* Handlers on the same target do not overlap.
Serialised ==
  \A h, k \in Thread :
    (tx[h] # Idle /\ tx[k] # Idle /\ SameTarget(tx[h].a, tx[k].a)) => h = k

\* The older release did not leave two open actions for a target either.
LegacyDistinct == \A a, b \in Legacy : SameTarget(a, b) => a = b

\* What a handler found still holds when it commits: no open action where one is to be
\* created, a pending one where it is to be decided.
Vacant(h) ==
  tx[h] # Idle /\ tx[h].op \in CreateOp =>
    \A c \in Action : SameTarget(tx[h].a, c) => status[c] \notin OpenStatus
Deciding(h) ==
  tx[h] # Idle /\ tx[h].op \in DecideOp => status[tx[h].a] = "PendingApproval"
Undisturbed == \A h \in Thread : Vacant(h) /\ Deciding(h)

\* A row opens only where a handler creates it.
LEMMA Opens ==
  ASSUME TypeOK, Undisturbed, [Next]_vars, NEW a \in Action,
         status'[a] \in OpenStatus, status[a] \notin OpenStatus
  PROVE  \E h \in Thread : tx[h] # Idle /\ tx'[h] = Idle /\ tx[h].a = a /\ tx[h].op \in CreateOp
<1>1. StatusStep(a)
  BY NextStep DEF ServerStep
<1>2. PICK h \in Thread :
        tx[h] # Idle /\ tx'[h] = Idle /\ tx[h].a = a /\ tx[h].op \in {"request", "approve", "autoApprove"}
  BY <1>1 DEF StatusStep, OpenStatus
<1>3. tx[h].op # "approve"
  BY <1>2 DEF Undisturbed, Deciding, DecideOp, OpenStatus
<1>4. QED
  BY <1>2, <1>3 DEF CreateOp

LEMMA UndisturbedNext ==
  ASSUME TypeOK, Serialised, Undisturbed, [Next]_vars
  PROVE  Undisturbed'
<1> SUFFICES ASSUME NEW h \in Thread, tx'[h] # Idle PROVE Vacant(h)' /\ Deciding(h)'
  BY DEF Undisturbed, Vacant, Deciding
<1>1. TxStep(h)
  BY NextStep DEF ServerStep
<1>2. CASE tx'[h] = tx[h]
  <2>1. tx[h].a \in Action
    BY <1>2, BusyThread DEF TypeOK
  <2>2. ASSUME tx[h].op \in CreateOp, NEW c \in Action, SameTarget(tx[h].a, c), status'[c] \in OpenStatus
        PROVE  FALSE
    <3>1. status[c] \notin OpenStatus
      BY <1>2, <2>2 DEF Undisturbed, Vacant
    <3>2. PICK k \in Thread : tx[k] # Idle /\ tx'[k] = Idle /\ tx[k].a = c
      BY <2>2, <3>1, Opens
    <3>3. QED
      BY <1>2, <2>2, <3>2 DEF Serialised
  <2>3. ASSUME tx[h].op \in DecideOp PROVE status'[tx[h].a] = "PendingApproval"
    <3>1. status[tx[h].a] = "PendingApproval" /\ StatusStep(tx[h].a)
      BY <1>2, <2>1, <2>3, NextStep DEF Undisturbed, Deciding, ServerStep
    <3>2. ASSUME NEW k \in Thread, tx[k] # Idle, tx'[k] = Idle, tx[k].a = tx[h].a PROVE FALSE
      BY <1>2, <3>2 DEF Serialised, SameTarget
    <3>3. QED
      BY <3>1, <3>2 DEF StatusStep
  <2>4. QED
    BY <1>2, <2>2, <2>3 DEF Vacant, Deciding
<1>3. CASE tx'[h] # tx[h]
  <2>1. PICK a \in Action, op \in CreateOp \cup DecideOp \cup ResultOp :
          /\ tx'[h] = [op |-> op, a |-> a] /\ UNCHANGED status
          /\ op \in CreateOp => ~ HasPending(a)
          /\ op \in DecideOp => status[a] = "PendingApproval"
    BY <1>1, <1>3 DEF TxStep
  <2>2. QED
    BY <2>1 DEF Vacant, Deciding, HasPending
<1>4. QED
  BY <1>2, <1>3

LEMMA OneOpenNext ==
  ASSUME TypeOK, Serialised, Undisturbed, OneOpenActionPerTarget, [Next]_vars
  PROVE  OneOpenActionPerTarget'
<1> SUFFICES ASSUME NEW a \in Action, NEW b \in Action, SameTarget(a, b),
                    status'[a] \in OpenStatus, status'[b] \in OpenStatus
             PROVE  a = b
  BY DEF OneOpenActionPerTarget
<1>1. SameTarget(b, a)
  BY DEF SameTarget
<1>2. CASE status[a] \in OpenStatus /\ status[b] \in OpenStatus
  BY <1>2 DEF OneOpenActionPerTarget
<1>3. CASE status[a] \notin OpenStatus /\ status[b] \notin OpenStatus
  <2>1. PICK h \in Thread : tx[h] # Idle /\ tx[h].a = a
    BY <1>3, Opens
  <2>2. PICK k \in Thread : tx[k] # Idle /\ tx[k].a = b
    BY <1>3, Opens
  <2>3. QED
    BY <2>1, <2>2 DEF Serialised
<1>4. CASE status[a] \notin OpenStatus /\ status[b] \in OpenStatus
  <2>1. PICK h \in Thread : tx[h] # Idle /\ tx[h].a = a /\ tx[h].op \in CreateOp
    BY <1>4, Opens
  <2>2. QED
    BY <1>4, <2>1 DEF Undisturbed, Vacant
<1>5. CASE status[a] \in OpenStatus /\ status[b] \notin OpenStatus
  <2>1. PICK h \in Thread : tx[h] # Idle /\ tx[h].a = b /\ tx[h].op \in CreateOp
    BY <1>5, Opens
  <2>2. QED
    BY <1>1, <1>5, <2>1 DEF Undisturbed, Vacant
<1>6. QED
  BY <1>2, <1>3, <1>4, <1>5

\* A target on a computer has at most one unsettled action per ticket, on any number of
\* threads, wherever the handlers on the same target do not overlap: the check of
\* _pending_action fails only against another handler in flight, never against the poll,
\* the recovery, the agent or time.
THEOREM OneOpenIfSerialised ==
  LegacyDistinct /\ Spec /\ []Serialised => []OneOpenActionPerTarget
<1>1. LegacyDistinct /\ Init => OneOpenActionPerTarget /\ Undisturbed
  BY DEF LegacyDistinct, Init, ServerInit, OneOpenActionPerTarget, Undisturbed, Vacant, Deciding, OpenStatus
<1>2. TypeOK /\ Serialised /\ Undisturbed /\ OneOpenActionPerTarget /\ [Next]_vars
        => (Undisturbed /\ OneOpenActionPerTarget)'
  BY UndisturbedNext, OneOpenNext
<1>3. QED
  BY <1>1, <1>2, TypeCorrect, PTL DEF Spec

-----------------------------------------------------------------------------
(* The contract.                                                           *)

verdict == [a \in Action |-> VerdictOf(a)]

LEMMA VerdictCases ==
  ASSUME NEW a \in Action
  PROVE  /\ verdict[a] = VerdictOf(a)
         /\ VerdictOf(a) \in {"succeeded", "failed", "refused", "open"}
         /\ VerdictOf(a) = "succeeded" <=> status[a] = "Completed"
         /\ VerdictOf(a) = "failed" <=> status[a] = "Failed"
         /\ VerdictOf(a) = "open" <=> status[a] \notin {"Completed", "Failed", "Declined"}
BY DEF verdict, VerdictOf

LEMMA InitRefines == Init => Contract!ContractInit
<1> SUFFICES ASSUME Init PROVE Contract!ContractInit
  OBVIOUS
<1>1. verdict = [a \in Action |-> "open"]
  BY VerdictCases DEF Init, ServerInit, verdict
<1>2. QED
  BY <1>1 DEF Init, ServerInit, AgentInit, Contract!ContractInit, verdict

-----------------------------------------------------------------------------
(* A step grants a row, performs it, or passes verdicts.                   *)

Granting(h) == CommitApprove(h) \/ CommitAutoApproved(h)

\* Only a commit ends a handler, and only an approval grants anything.
LEMMA OnlyCommitsEnd ==
  ASSUME TypeOK, [Next]_vars, NEW h \in Thread, tx[h] # Idle, tx'[h] = Idle
  PROVE  Commit(h)
<1>1. tx \in [Thread -> {Idle} \cup Busy]
  BY DEF TypeOK, ServerTypeOK
<1>2. ASSUME UNCHANGED tx PROVE FALSE
  BY <1>2
<1>3. ASSUME NEW k \in Thread, NEW r, tx[k] = Idle, tx' = [tx EXCEPT ![k] = r] PROVE FALSE
  BY <1>1, <1>3
<1>4. ASSUME NEW k \in Thread, Commit(k) PROVE k = h
  BY <1>1, <1>4 DEF Commit, CommitRequest, CommitAutoApproved, CommitApprove, CommitDecline,
     CommitResult
<1>5. CASE Desk
  BY <1>2, <1>3, <1>4, <1>5 DEF Desk, BeginCreate, BeginDecide, ViewTicket, RecoverStale,
     Recover, CloseTicket, ReopenTicket, RevokeAgent
<1>6. ASSUME NEW k \in Thread, ReceivePost(k) PROVE FALSE
  BY <1>3, <1>6 DEF ReceivePost, BeginResult
<1>7. QED
  BY <1>2, <1>5, <1>6 DEF Next, TimePasses, Tick, AgentStep, PollNothing, DeliverNothing,
     Recover, PollDelivered, Deliver, ReplyLost, StartChild, ChildEffect, ChildSucceeded,
     ChildFailed, ToReport, PostResult, Crash, OrphanEffect, OrphanDies, LosePost, vars,
     serverVars

LEMMA OnlyApprovalsGrant ==
  ASSUME [Next]_vars, \A h \in Thread : ~ Granting(h)
  PROVE  UNCHANGED authorised
<1>1. CASE Desk
  BY <1>1 DEF Desk, BeginCreate, BeginDecide, Commit, CommitRequest, CommitDecline,
     CommitResult, ViewTicket, RecoverStale, Recover, CloseTicket, ReopenTicket,
     RevokeAgent, rowVars, Granting
<1>2. QED
  BY <1>1 DEF Next, TimePasses, Tick, AgentStep, PollNothing, DeliverNothing, Recover,
     PollDelivered, Deliver, ReplyLost, StartChild, ChildEffect, ChildSucceeded, ChildFailed,
     ToReport, PostResult, Crash, OrphanEffect, OrphanDies, LosePost, ReceivePost,
     BeginResult, vars, serverVars, rowVars

LEMMA GrantRefines ==
  ASSUME TypeOK, NEW h \in Thread, Granting(h), UNCHANGED agentVars
  PROVE  \E a \in Action : Contract!Grant(a)
<1> DEFINE row == tx[h].a
<1>1. row \in Action
  BY BusyThread DEF TypeOK, Granting, CommitApprove, CommitAutoApproved
<1>2. /\ status' = [status EXCEPT ![row] = "Approved"]
      /\ authorised' = authorised \cup {row}
      /\ UNCHANGED effects
  BY DEF Granting, CommitApprove, CommitAutoApproved, agentVars
<1>3. verdict' = [verdict EXCEPT ![row] = "open"]
  <2>1. status \in [Action -> Status]
    BY DEF TypeOK, ServerTypeOK
  <2>2. verdict'[row] = "open" /\ \A b \in Action \ {row} : verdict'[b] = verdict[b]
    BY <1>1, <1>2, <2>1 DEF verdict, VerdictOf
  <2>3. QED
    BY <1>1, <2>2 DEF verdict
<1>4. Contract!Grant(row)
  BY <1>2, <1>3 DEF Contract!Grant, verdict
<1>5. QED
  BY <1>1, <1>4

LEMMA PerformRefines ==
  ASSUME IInv, NEW a \in Action, InProgress(a) > 0,
         effects' = [effects EXCEPT ![a] = @ + 1], UNCHANGED <<status, authorised>>
  PROVE  Contract!Perform(a)
<1>1. a \in authorised
  <2>1. CASE orphans[a] > 0
    BY <2>1 DEF IInv, Consent
  <2>2. CASE pc[AgentOf[a]] # "idle" /\ job[AgentOf[a]] = a
    BY <2>2, RowsAssumption DEF IInv, Consent, RowsAssumption
  <2>3. QED
    BY <2>1, <2>2 DEF InProgress, IInv, TypeOK, AgentTypeOK
<1>2. effects[a] < MaxAttempts
  <2>1. MaxAttempts \in Nat
    BY LimitsAssumption DEF LimitsAssumption
  <2>2. /\ effects[a] \in Nat /\ InProgress(a) \in Nat
        /\ retryCount[a] \in Nat /\ retryCount[a] <= MaxAttempts
    BY <2>1, InProgressType DEF IInv, TypeOK, ServerTypeOK
  <2>3. effects[a] + InProgress(a) <= retryCount[a]
    BY DEF IInv, EffectsWithinAttempts
  <2>4. QED
    BY <2>1, <2>2, <2>3
<1>3. UNCHANGED verdict
  BY DEF verdict, VerdictOf
<1>4. QED
  BY <1>1, <1>2, <1>3 DEF Contract!Perform, verdict

LEMMA JudgeRefines ==
  ASSUME IInv, [Next]_vars, UNCHANGED effects, \A h \in Thread : ~ Granting(h)
  PROVE  Contract!Judge
<1>1. ServerStep /\ TypeOK /\ UNCHANGED authorised
  BY NextStep, OnlyApprovalsGrant DEF IInv
<1>2. ASSUME NEW h \in Thread, tx[h] # Idle, tx'[h] = Idle
      PROVE  tx[h].op \notin {"approve", "autoApprove"}
  BY <1>1, <1>2, OnlyCommitsEnd DEF Commit, Granting, CommitRequest, CommitDecline,
     CommitResult, ResultOp
<1>3. verdict' \in [Action -> Contract!Verdict]
  BY DEF verdict, VerdictOf, Contract!Verdict
<1>4. ASSUME NEW a \in Action
      PROVE  /\ verdict'[a] = "succeeded" => verdict[a] = "succeeded" \/ effects[a] > 0
             /\ verdict'[a] = "failed" => verdict[a] = "failed" \/ a \in authorised
             /\ verdict'[a] = "open" => verdict[a] = "open"
  <2> DEFINE Row == /\ verdict'[a] = "succeeded" => verdict[a] = "succeeded" \/ effects[a] > 0
                    /\ verdict'[a] = "failed" => verdict[a] = "failed" \/ a \in authorised
                    /\ verdict'[a] = "open" => verdict[a] = "open"
  <2>1. verdict[a] = VerdictOf(a) /\ verdict'[a] = VerdictOf(a)'
    BY DEF verdict
  <2>2. CASE status'[a] = status[a]
    BY <2>1, <2>2 DEF VerdictOf
  <2>3. CASE status[a] \in {"Approved", "Dispatched"} /\ status'[a] \in {"Approved", "Failed"}
    <3>1. a \in authorised
      BY <2>3 DEF IInv, Consent
    <3>2. verdict[a] = "open" /\ verdict'[a] \in {"open", "failed"}
      BY <2>1, <2>3 DEF VerdictOf
    <3>3. QED
      BY <3>1, <3>2
  <2>4. ASSUME NEW h \in Thread, tx[h] # Idle, tx'[h] = Idle, tx[h].a = a,
               tx[h].op = "request", status'[a] = "PendingApproval"
        PROVE  Row
    <3>1. status[a] = "none"
      BY <2>4 DEF IInv, CreationExclusive, CreateOp
    <3>2. verdict[a] = "open" /\ verdict'[a] = "open"
      BY <2>1, <2>4, <3>1 DEF VerdictOf
    <3>3. QED
      BY <3>2
  <2>5. ASSUME NEW h \in Thread, status'[a] = "Declined" PROVE Row
    <3>1. verdict'[a] = "refused"
      BY <2>1, <2>5 DEF VerdictOf
    <3>2. QED
      BY <3>1
  <2>6. ASSUME NEW h \in Thread, tx[h] # Idle, tx[h].a = a, tx[h].op = "succeeded",
               status'[a] = "Completed"
        PROVE  Row
    <3>1. verdict'[a] = "succeeded" /\ effects[a] > 0
      BY <2>1, <2>6 DEF VerdictOf, IInv, Evidence
    <3>2. QED
      BY <3>1
  <2>7. ASSUME NEW h \in Thread, tx[h] # Idle, tx[h].a = a, tx[h].op = "failed",
               status'[a] = "Failed"
        PROVE  Row
    <3>1. verdict'[a] = "failed" /\ a \in authorised
      BY <2>1, <2>7 DEF VerdictOf, IInv, Consent, ResultOp
    <3>2. QED
      BY <3>1
  <2>8. StatusStep(a)
    BY <1>1 DEF ServerStep
  <2>9. QED
    BY <1>2, <2>2, <2>3, <2>4, <2>5, <2>6, <2>7, <2>8 DEF StatusStep
<1>5. QED
  BY <1>1, <1>3, <1>4 DEF Contract!Judge, verdict

-----------------------------------------------------------------------------
LEMMA NextRefines == IInv /\ [Next]_vars => [Contract!ContractNext]_(Contract!contractVars)
<1> SUFFICES ASSUME IInv, [Next]_vars PROVE Contract!ContractNext
  OBVIOUS
<1>1. TypeOK /\ tx \in [Thread -> {Idle} \cup Busy]
  BY DEF IInv, TypeOK, ServerTypeOK
<1>2. ASSUME UNCHANGED effects, \A h \in Thread : ~ Granting(h) PROVE Contract!ContractNext
  BY <1>2, JudgeRefines DEF Contract!ContractNext
<1>3. ASSUME UNCHANGED <<tx, effects>> PROVE Contract!ContractNext
  <2>1. ASSUME NEW h \in Thread, Granting(h) PROVE FALSE
    BY <1>1, <1>3, <2>1 DEF Granting, CommitApprove, CommitAutoApproved
  <2>2. QED
    BY <1>2, <1>3, <2>1
<1>4. CASE Desk /\ UNCHANGED agentVars
  <2>1. ASSUME NEW h \in Thread, Granting(h) PROVE Contract!ContractNext
    BY <1>1, <1>4, <2>1, GrantRefines DEF Contract!ContractNext
  <2>2. QED
    BY <1>2, <1>4, <2>1 DEF agentVars
<1>5. ASSUME NEW g \in Agent, ChildEffect(g) PROVE Contract!ContractNext
  <2>1. job[g] \in Action /\ AgentOf[job[g]] = g /\ pc[g] = "running"
    BY <1>1, <1>5 DEF TypeOK, AgentTypeOK, ChildEffect
  <2>2. InProgress(job[g]) > 0
    BY <2>1, <1>1 DEF InProgress, TypeOK, AgentTypeOK
  <2>3. QED
    BY <1>5, <2>1, <2>2, PerformRefines
       DEF ChildEffect, serverVars, rowVars, Contract!ContractNext
<1>6. ASSUME NEW g \in Agent, AgentStep(g) \/ Crash(g) PROVE Contract!ContractNext
  BY <1>3, <1>5, <1>6 DEF AgentStep, PollNothing, DeliverNothing, Recover, PollDelivered,
     Deliver, ReplyLost, StartChild, ChildSucceeded, ChildFailed, ToReport, PostResult, Crash,
     agentVars, serverVars
<1>7. ASSUME NEW a \in Action, OrphanEffect(a) PROVE Contract!ContractNext
  <2>1. InProgress(a) > 0
    BY <1>1, <1>7, InProgressType DEF OrphanEffect
  <2>2. QED
    BY <1>7, <2>1, PerformRefines DEF OrphanEffect, serverVars, rowVars, Contract!ContractNext
<1>8. ASSUME NEW h \in Thread, ReceivePost(h) PROVE Contract!ContractNext
  <2>1. tx[h] = Idle /\ (\E r : tx' = [tx EXCEPT ![h] = r]) /\ UNCHANGED effects
    BY <1>8 DEF ReceivePost, BeginResult
  <2>2. ASSUME NEW k \in Thread, Granting(k) PROVE FALSE
    BY <1>1, <2>1, <2>2 DEF Granting, CommitApprove, CommitAutoApproved
  <2>3. QED
    BY <1>2, <2>1, <2>2
<1>9. QED
  BY <1>3, <1>4, <1>6, <1>7, <1>8 DEF Next, TimePasses, Tick, OrphanDies, LosePost, vars,
     agentVars, serverVars

\* Whatever is lost, repeated, overtaken or crashes, endpoint remediation does
\* what its contract says: effects only with consent and within the attempts,
\* success only with an effect.
THEOREM ImplementsContract == Spec => ContractRefined
BY InitRefines, NextRefines, Inductive, PTL DEF Spec, ContractRefined, Contract!ContractSpec

=============================================================================
