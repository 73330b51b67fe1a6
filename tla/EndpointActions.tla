--------------------------- MODULE EndpointActions ---------------------------
(***************************************************************************)
(* The server's side of endpoint remediation (backend/itsm/agent_api.py):  *)
(* the rows of table endpoint_actions and every handler that changes them. *)
(* A technician requests an action on a requester's computer, the          *)
(* requester approves or declines it (or staff approve it outright), the   *)
(* agent polls for it, runs it and posts a result; rows whose agent stays  *)
(* silent are recovered or failed by whoever polls or looks next.          *)
(*                                                                         *)
(* Handlers run in server threads.  approve, decline, request and result   *)
(* read the row without a lock and write it when they commit, so they are  *)
(* two steps here and other handlers run in between.  Recovery and the     *)
(* agent's poll take the rows FOR UPDATE and are one step.                 *)
(***************************************************************************)
EXTENDS Integers

CONSTANTS
  Action,         \* the rows the table can come to hold
  Ticket, Agent,  \* tickets and enrolled endpoint agents
  Target,         \* programs or services an action is aimed at
  TicketOf,       \* ticket_id of each row
  AgentOf,        \* agent_id of each row
  TargetOf,       \* (action_type, target) of each row
  Legacy,         \* rows an older release left in status "Dispatched"
  Thread,         \* server threads that can be inside a handler at once
  MaxAttempts,    \* ENDPOINT_ACTION_MAX_ATTEMPTS
  StaleAge,       \* ENDPOINT_ACTION_STALE_SECONDS, in clock ticks
  NoResponseAge   \* ENDPOINT_ACTION_NO_RESPONSE_SECONDS, in clock ticks

ASSUME RowsAssumption ==
  /\ TicketOf \in [Action -> Ticket]
  /\ AgentOf \in [Action -> Agent]
  /\ TargetOf \in [Action -> Target]
  /\ Legacy \subseteq Action

ASSUME LimitsAssumption ==
  /\ MaxAttempts \in Nat \ {0}
  /\ StaleAge \in Nat
  /\ NoResponseAge \in Nat
  /\ StaleAge < NoResponseAge

VARIABLES
  status,      \* EndpointAction.status; "none" before the row exists
  retryCount,  \* EndpointAction.retry_count
  age,         \* ticks since dispatched_at, or NotDispatched
  approvedAt,  \* approved_at, as a position in the order of decisions
  decisions,   \* the latest such position
  summary,     \* who wrote result_summary: recovery (and why) or the agent
  authorised,  \* rows the requester approved, or staff auto-approved
  closed,      \* tickets in status Closed or Cancelled
  revoked,     \* agents whose credential is revoked
  tx           \* what each thread has read and is about to write

rowVars == <<status, retryCount, age, approvedAt, decisions, summary, authorised>>
serverVars == <<rowVars, closed, revoked, tx>>

-----------------------------------------------------------------------------
(* Types *)

Status == {"none", "PendingApproval", "Approved", "Dispatched", "Declined",
           "Completed", "Failed"}
Summary == {"none", "noResponse", "exhausted", "agent"}

\* The statuses _pending_action looks for.
OpenStatus == {"PendingApproval", "Approved", "Dispatched"}

CreateOp == {"request", "autoApprove"}
DecideOp == {"approve", "decline"}
ResultOp == {"succeeded", "failed"}
Idle == [op |-> "idle"]
Busy == [op : CreateOp \cup DecideOp \cup ResultOp, a : Action]

NotDispatched == -1
AgeCap == NoResponseAge + 1  \* bound of the clock: older than every limit

ServerTypeOK ==
  /\ status \in [Action -> Status]
  /\ retryCount \in [Action -> 0 .. MaxAttempts]
  /\ age \in [Action -> NotDispatched .. AgeCap]
  /\ approvedAt \in [Action -> Nat]
  /\ decisions \in Nat
  /\ summary \in [Action -> Summary]
  /\ authorised \subseteq Action
  /\ closed \subseteq Ticket
  /\ revoked \subseteq Agent
  /\ tx \in [Thread -> {Idle} \cup Busy]

ServerInit ==
  /\ status = [a \in Action |-> IF a \in Legacy THEN "Dispatched" ELSE "none"]
  /\ retryCount = [a \in Action |-> IF a \in Legacy THEN 1 ELSE 0]
  /\ age = [a \in Action |-> IF a \in Legacy THEN 0 ELSE NotDispatched]
  /\ approvedAt = [a \in Action |-> 0]
  /\ decisions = 0
  /\ summary = [a \in Action |-> "none"]
  /\ authorised = Legacy
  /\ closed = {}
  /\ revoked = {}
  /\ tx = [h \in Thread |-> Idle]

-----------------------------------------------------------------------------
(* Helpers *)

SameTarget(a, b) ==
  /\ TicketOf[a] = TicketOf[b]
  /\ AgentOf[a] = AgentOf[b]
  /\ TargetOf[a] = TargetOf[b]

\* Mutant of HasPending: an action an agent still holds is overlooked.
HasUndelivered(a) ==
  \E b \in Action : SameTarget(a, b) /\ status[b] \in {"PendingApproval", "Approved"}

\* _pending_action: some row aims at the same target and is not settled.
HasPending(a) == \E b \in Action : SameTarget(a, b) /\ status[b] \in OpenStatus

\* The rows some thread is working on; the one that is committing holds its lock.
InHand(a) == \E h \in Thread : tx[h] # Idle /\ tx[h].a = a

RowsOfAgent(g) == {a \in Action : AgentOf[a] = g}
RowsOfTicket(t) == {a \in Action : TicketOf[a] = t}

\* Mutant of NoResponse: the shorter of the two limits.
NoResponseEarly(a) == status[a] = "Approved" /\ age[a] > StaleAge

\* The two queries of _recover_stale_endpoint_actions; the second one sees
\* what the first one wrote.
NoResponse(a) == status[a] = "Approved" /\ age[a] > NoResponseAge

Stale(a) ==
  /\ age[a] > StaleAge
  /\ ~ NoResponse(a)
  /\ \/ status[a] = "Dispatched"
     \/ status[a] = "Approved" /\ retryCount[a] >= MaxAttempts

Requeued(a) == Stale(a) /\ status[a] = "Dispatched" /\ retryCount[a] < MaxAttempts
Exhausted(a) == Stale(a) /\ ~ Requeued(a)

\* The table after recovering the rows of S.
StatusAfter(S) ==
  [a \in Action |->
     IF a \in S /\ (NoResponse(a) \/ Exhausted(a)) THEN "Failed"
     ELSE IF a \in S /\ Requeued(a) THEN "Approved"
     ELSE status[a]]

RetryAfter(S) ==
  [a \in Action |-> IF a \in S /\ Requeued(a) THEN retryCount[a] + 1 ELSE retryCount[a]]

SummaryAfter(S) ==
  [a \in Action |->
     IF a \in S /\ NoResponse(a) THEN "noResponse"
     ELSE IF a \in S /\ Exhausted(a) THEN "exhausted"
     ELSE summary[a]]

\* Mutant of Deliverable: approval not awaited.
DeliverableUnapproved(g) ==
  {a \in RowsOfAgent(g) :
     /\ StatusAfter(RowsOfAgent(g))[a] \in {"PendingApproval", "Approved"}
     /\ RetryAfter(RowsOfAgent(g))[a] < MaxAttempts}

\* What the poll of agent g can pick from after its own recovery pass.
Deliverable(g) ==
  {a \in RowsOfAgent(g) : /\ StatusAfter(RowsOfAgent(g))[a] = "Approved"
                          /\ RetryAfter(RowsOfAgent(g))[a] < MaxAttempts}

-----------------------------------------------------------------------------
(* Staff: request_endpoint_action, auto_close_application,                 *)
(* auto_detect_and_close_frozen_app                                        *)

BeginCreate(h, a, op) ==
  /\ tx[h] = Idle
  /\ status[a] = "none"
  /\ ~ InHand(a)
  /\ TicketOf[a] \notin closed
  /\ AgentOf[a] \notin revoked
  /\ ~ HasPending(a)
  /\ tx' = [tx EXCEPT ![h] = [op |-> op, a |-> a]]
  /\ UNCHANGED <<rowVars, closed, revoked>>

CommitRequest(h) ==
  /\ tx[h] # Idle /\ tx[h].op = "request"
  /\ status' = [status EXCEPT ![tx[h].a] = "PendingApproval"]
  /\ tx' = [tx EXCEPT ![h] = Idle]
  /\ UNCHANGED <<retryCount, age, approvedAt, decisions, summary, authorised,
                 closed, revoked>>

CommitAutoApproved(h) ==
  /\ tx[h] # Idle /\ tx[h].op = "autoApprove"
  /\ status' = [status EXCEPT ![tx[h].a] = "Approved"]
  /\ decisions' = decisions + 1
  /\ approvedAt' = [approvedAt EXCEPT ![tx[h].a] = decisions + 1]
  /\ authorised' = authorised \cup {tx[h].a}
  /\ tx' = [tx EXCEPT ![h] = Idle]
  /\ UNCHANGED <<retryCount, age, summary, closed, revoked>>

(* The requester: approve_endpoint_action, decline_endpoint_action *)

BeginDecide(h, a, op) ==
  /\ tx[h] = Idle
  /\ status[a] = "PendingApproval"
  /\ tx' = [tx EXCEPT ![h] = [op |-> op, a |-> a]]
  /\ UNCHANGED <<rowVars, closed, revoked>>

CommitApprove(h) ==
  /\ tx[h] # Idle /\ tx[h].op = "approve"
  /\ status' = [status EXCEPT ![tx[h].a] = "Approved"]
  /\ decisions' = decisions + 1
  /\ approvedAt' = [approvedAt EXCEPT ![tx[h].a] = decisions + 1]
  /\ authorised' = authorised \cup {tx[h].a}
  /\ tx' = [tx EXCEPT ![h] = Idle]
  /\ UNCHANGED <<retryCount, age, summary, closed, revoked>>

\* Mutant of CommitDecline: the status of its neighbour, approve.
CommitDeclineAsApproved(h) ==
  /\ tx[h] # Idle /\ tx[h].op = "decline"
  /\ status' = [status EXCEPT ![tx[h].a] = "Approved"]
  /\ decisions' = decisions + 1
  /\ approvedAt' = [approvedAt EXCEPT ![tx[h].a] = decisions + 1]
  /\ tx' = [tx EXCEPT ![h] = Idle]
  /\ UNCHANGED <<retryCount, age, summary, authorised, closed, revoked>>

CommitDecline(h) ==
  /\ tx[h] # Idle /\ tx[h].op = "decline"
  /\ status' = [status EXCEPT ![tx[h].a] = "Declined"]
  /\ decisions' = decisions + 1
  /\ approvedAt' = [approvedAt EXCEPT ![tx[h].a] = decisions + 1]
  /\ tx' = [tx EXCEPT ![h] = Idle]
  /\ UNCHANGED <<retryCount, age, summary, authorised, closed, revoked>>

-----------------------------------------------------------------------------
(* The agent's requests.  A revoked credential is answered 401.            *)

\* Mutant of Deliver: dispatched_at is not set.
DeliverUnstamped(g, a) ==
  /\ g \notin revoked
  /\ a \in Deliverable(g)
  /\ \A b \in Deliverable(g) : approvedAt[a] <= approvedAt[b] \/ InHand(b)
  /\ status' = StatusAfter(RowsOfAgent(g))
  /\ retryCount' = [RetryAfter(RowsOfAgent(g)) EXCEPT ![a] = @ + 1]
  /\ summary' = SummaryAfter(RowsOfAgent(g))
  /\ UNCHANGED <<age, approvedAt, decisions, authorised, closed, revoked, tx>>

\* next_endpoint_action delivers row a: the deliverable row approved first,
\* leaving out rows another transaction has locked (SKIP LOCKED).
Deliver(g, a) ==
  /\ g \notin revoked
  /\ a \in Deliverable(g)
  /\ \A b \in Deliverable(g) : approvedAt[a] <= approvedAt[b] \/ InHand(b)
  /\ status' = StatusAfter(RowsOfAgent(g))
  /\ retryCount' = [RetryAfter(RowsOfAgent(g)) EXCEPT ![a] = @ + 1]
  /\ summary' = SummaryAfter(RowsOfAgent(g))
  /\ age' = [age EXCEPT ![a] = 0]
  /\ UNCHANGED <<approvedAt, decisions, authorised, closed, revoked, tx>>

\* The rows of S are recovered and nothing is delivered.
Recover(S) ==
  /\ status' = StatusAfter(S)
  /\ retryCount' = RetryAfter(S)
  /\ summary' = SummaryAfter(S)
  /\ UNCHANGED <<age, approvedAt, decisions, authorised, closed, revoked, tx>>

\* next_endpoint_action answers {"action": None}.
DeliverNothing(g) ==
  /\ g \notin revoked
  /\ \A b \in Deliverable(g) : InHand(b)
  /\ Recover(RowsOfAgent(g))

\* Mutant of BeginResult: already_recorded is not looked at.
BeginResultAnytime(h, a, op) ==
  /\ tx[h] = Idle
  /\ AgentOf[a] \notin revoked
  /\ status[a] \in {"Approved", "Dispatched", "Completed", "Failed"}
  /\ tx' = [tx EXCEPT ![h] = [op |-> op, a |-> a]]
  /\ UNCHANGED <<rowVars, closed, revoked>>

\* endpoint_action_result.  On a settled row it answers already_recorded, on
\* one that is not ready 409: neither changes anything.
BeginResult(h, a, op) ==
  /\ tx[h] = Idle
  /\ AgentOf[a] \notin revoked
  /\ status[a] \in {"Approved", "Dispatched"}
  /\ tx' = [tx EXCEPT ![h] = [op |-> op, a |-> a]]
  /\ UNCHANGED <<rowVars, closed, revoked>>

\* Mutant of CommitResult: payload.succeeded is ignored.
CommitResultAsCompleted(h) ==
  /\ tx[h] # Idle /\ tx[h].op \in ResultOp
  /\ status' = [status EXCEPT ![tx[h].a] = "Completed"]
  /\ summary' = [summary EXCEPT ![tx[h].a] = "agent"]
  /\ tx' = [tx EXCEPT ![h] = Idle]
  /\ UNCHANGED <<retryCount, age, approvedAt, decisions, authorised, closed, revoked>>

CommitResult(h) ==
  /\ tx[h] # Idle /\ tx[h].op \in ResultOp
  /\ status' = [status EXCEPT ![tx[h].a] =
                  IF tx[h].op = "succeeded" THEN "Completed" ELSE "Failed"]
  /\ summary' = [summary EXCEPT ![tx[h].a] = "agent"]
  /\ tx' = [tx EXCEPT ![h] = Idle]
  /\ UNCHANGED <<retryCount, age, approvedAt, decisions, authorised, closed, revoked>>

-----------------------------------------------------------------------------
(* Looking at a ticket's actions, and the administrator's maintenance call *)

ViewTicket(t) == Recover(RowsOfTicket(t))
RecoverStale == Recover(Action)

\* The ticket's own status and the agent's credential change elsewhere;
\* neither handler touches endpoint_actions.
CloseTicket(t) ==
  /\ t \notin closed
  /\ closed' = closed \cup {t}
  /\ UNCHANGED <<rowVars, revoked, tx>>

ReopenTicket(t) ==
  /\ t \in closed
  /\ closed' = closed \ {t}
  /\ UNCHANGED <<rowVars, revoked, tx>>

RevokeAgent(g) ==
  /\ g \notin revoked
  /\ revoked' = revoked \cup {g}
  /\ UNCHANGED <<rowVars, closed, tx>>

\* A unit of wall-clock time; ages saturate at AgeCap.
AgeAll ==
  age' = [a \in Action |-> IF age[a] \in {NotDispatched, AgeCap} THEN age[a]
                           ELSE age[a] + 1]

Tick ==
  /\ AgeAll
  /\ UNCHANGED <<status, retryCount, approvedAt, decisions, summary, authorised,
                 closed, revoked, tx>>

-----------------------------------------------------------------------------
Commit(h) ==
  \/ CommitRequest(h) \/ CommitAutoApproved(h)
  \/ CommitApprove(h) \/ CommitDecline(h) \/ CommitResult(h)

\* Steps of people and of the server itself.
Desk ==
  \/ \E h \in Thread, a \in Action :
       \/ \E op \in CreateOp : BeginCreate(h, a, op)
       \/ \E op \in DecideOp : BeginDecide(h, a, op)
  \/ \E h \in Thread : Commit(h)
  \/ \E t \in Ticket : ViewTicket(t) \/ CloseTicket(t) \/ ReopenTicket(t)
  \/ \E g \in Agent : RevokeAgent(g)
  \/ RecoverStale

-----------------------------------------------------------------------------
(* Property of the server.                                                 *)

\* With one handler at a time, a target on a computer has at most one unsettled
\* action per ticket.
OneOpenActionPerTarget ==
  \A a, b \in Action :
    (SameTarget(a, b) /\ status[a] \in OpenStatus /\ status[b] \in OpenStatus) => a = b

=============================================================================
