--------------------------- MODULE TicketApproval ---------------------------
(***************************************************************************)
(* A request submitted through a form with an approval workflow (main.py): *)
(* the ticket, its approval request, the sequential decisions, the         *)
(* checklist that stays blocked until the approval, and the other handlers *)
(* that move the same ticket: staff updates, bulk updates, reassignment,   *)
(* the requester's replies, confirmation and reopening.                    *)
(*                                                                         *)
(* decide_approval reads the approval request without a lock and commits   *)
(* later; decisions in progress are kept in "deciding".                    *)
(***************************************************************************)
EXTENDS Naturals

CONSTANTS
  Steps,     \* length of the approval workflow
  Thread,    \* request threads that decide approvals
  MaxReopen  \* bound on reopened_count

ASSUME WorkflowAssumption == Steps \in Nat \ {0} /\ MaxReopen \in Nat

VARIABLES
  status,      \* of the ticket
  assigned,    \* it has a technician
  summary,     \* it has a resolution_summary
  resolvedAt,  \* resolved_at: unset, inside or before the reopen window
  reopened,    \* reopened_count
  approval,    \* status of the approval request
  step,        \* its current_step
  approvedSteps,  \* step_index of the Approved decisions on record
  checklist,   \* status of the required checklist
  itemsDone,   \* its required items are completed
  deciding     \* decisions between their read and their commit

ticketVars == <<status, assigned, summary, resolvedAt, reopened>>
approvalVars == <<approval, step, approvedSteps>>
checklistVars == <<checklist, itemsDone>>
requestVars == <<ticketVars, approvalVars, checklistVars, deciding>>

TicketStatus == {"New", "Assigned", "InProgress", "WaitingUser", "WaitingApproval",
           "Resolved", "Closed", "Cancelled"}
Ended == {"Resolved", "Closed", "Cancelled"}
NotDeciding == Steps

ApprovalTypeOK ==
  /\ status \in TicketStatus
  /\ assigned \in BOOLEAN
  /\ summary \in BOOLEAN
  /\ resolvedAt \in {"unset", "recent", "old"}
  /\ reopened \in 0 .. MaxReopen
  /\ approval \in {"Pending", "Approved", "Rejected"}
  /\ step \in 0 .. Steps - 1
  /\ approvedSteps \subseteq 0 .. Steps - 1
  /\ checklist \in {"Blocked", "Active", "Completed", "Cancelled"}
  /\ itemsDone \in BOOLEAN
  /\ deciding \in [Thread -> 0 .. Steps]

\* submit_form with an active workflow; route_incident found a technician or not.
ApprovalInit ==
  /\ status = "WaitingApproval"
  /\ assigned \in BOOLEAN
  /\ summary = FALSE
  /\ resolvedAt = "unset"
  /\ reopened = 0
  /\ approval = "Pending"
  /\ step = 0
  /\ approvedSteps = {}
  /\ checklist = "Blocked"
  /\ itemsDone = FALSE
  /\ deciding = [t \in Thread |-> NotDeciding]

-----------------------------------------------------------------------------
(* decide_approval.                                                        *)

\* Mutant of Decidable: a decision on what is already decided.
DecidableAlways == TRUE

Decidable == approval = "Pending"

BeginDecision(t) ==
  /\ deciding[t] = NotDeciding
  /\ Decidable
  /\ deciding' = [deciding EXCEPT ![t] = step]
  /\ UNCHANGED <<ticketVars, approvalVars, checklistVars>>

Return(t) == deciding' = [deciding EXCEPT ![t] = NotDeciding]

Reject(t) ==
  /\ deciding[t] # NotDeciding
  /\ approval' = "Rejected"
  /\ status' = "Cancelled"
  /\ checklist' = "Cancelled"
  /\ Return(t)
  /\ UNCHANGED <<assigned, summary, resolvedAt, reopened, step, approvedSteps, itemsDone>>

\* Mutant of IsLast: off by one.
IsLastTooEarly(s) == s + 2 >= Steps

IsLast(s) == s + 1 >= Steps

\* The ORM writes the step it computed from the one it read.
ApproveStep(t) ==
  /\ deciding[t] # NotDeciding
  /\ ~IsLast(deciding[t])
  /\ approvedSteps' = approvedSteps \cup {deciding[t]}
  /\ step' = deciding[t] + 1
  /\ Return(t)
  /\ UNCHANGED <<ticketVars, approval, checklistVars>>

\* The ticket is released whatever its status is by now.
ApproveFinally(t) ==
  /\ deciding[t] # NotDeciding
  /\ IsLast(deciding[t])
  /\ approvedSteps' = approvedSteps \cup {deciding[t]}
  /\ approval' = "Approved"
  /\ status' = IF assigned THEN "Assigned" ELSE "New"
  /\ checklist' = IF checklist = "Blocked" THEN "Active" ELSE checklist
  /\ Return(t)
  /\ UNCHANGED <<assigned, summary, resolvedAt, reopened, step, itemsDone>>

-----------------------------------------------------------------------------
(* The ticket's other handlers.                                            *)

\* update_checklist_item, which looks at the items only.
UpdateChecklist(done) ==
  /\ itemsDone' = done
  /\ checklist' = IF done THEN "Completed" ELSE "Active"
  /\ UNCHANGED <<ticketVars, approvalVars, deciding>>

\* update_ticket: any status, with conditions on Resolved only, and perhaps a technician.
Resolvable == checklist = "Completed"

StaffResolves ==
  /\ Resolvable
  /\ status' = "Resolved"
  /\ summary' = TRUE
  /\ resolvedAt' = "recent"
  /\ assigned' \in {assigned, TRUE}
  /\ UNCHANGED <<reopened, approvalVars, checklistVars, deciding>>

StaffSetsStatus(new) ==
  /\ new # "Resolved"
  /\ status' = new
  /\ assigned' \in {assigned, TRUE}
  /\ UNCHANGED <<summary, resolvedAt, reopened, approvalVars, checklistVars, deciding>>

\* bulk_update: any status, without conditions.
BulkStatus(new) ==
  /\ status' = new
  /\ assigned' \in {assigned, TRUE}
  /\ UNCHANGED <<summary, resolvedAt, reopened, approvalVars, checklistVars, deciding>>

ReassignTicket(toTechnician) ==
  /\ status \notin Ended
  /\ assigned' = toTechnician
  /\ status' = IF toTechnician /\ status = "New" THEN "Assigned" ELSE status
  /\ UNCHANGED <<summary, resolvedAt, reopened, approvalVars, checklistVars, deciding>>

\* add_message by the requester: a reply to a waiting ticket ...
RequesterReplies ==
  /\ status = "WaitingUser"
  /\ status' = "InProgress"
  /\ UNCHANGED <<assigned, summary, resolvedAt, reopened, approvalVars, checklistVars, deciding>>

\* ... or an explicit instruction to close it.
RequesterCloses ==
  /\ status \notin {"Closed", "Cancelled"}
  /\ status' = "Closed"
  /\ UNCHANGED <<assigned, summary, resolvedAt, reopened, approvalVars, checklistVars, deciding>>

ConfirmResolution ==
  /\ status = "Resolved"
  /\ status' = "Closed"
  /\ UNCHANGED <<assigned, summary, resolvedAt, reopened, approvalVars, checklistVars, deciding>>

ReopenTicket ==
  /\ reopened < MaxReopen
  /\ status \in {"Resolved", "Closed"}
  /\ resolvedAt = "recent"
  /\ status' = "InProgress"
  /\ reopened' = reopened + 1
  /\ UNCHANGED <<assigned, summary, resolvedAt, approvalVars, checklistVars, deciding>>

\* settings.reopen_days go by.
WindowEnds ==
  /\ resolvedAt = "recent"
  /\ resolvedAt' = "old"
  /\ UNCHANGED <<status, assigned, summary, reopened, approvalVars, checklistVars, deciding>>

Decision(t) == BeginDecision(t) \/ Reject(t) \/ ApproveStep(t) \/ ApproveFinally(t)

StaffStep ==
  \/ \E done \in BOOLEAN : UpdateChecklist(done)
  \/ StaffResolves
  \/ \E new \in TicketStatus : StaffSetsStatus(new) \/ BulkStatus(new)
  \/ \E toTechnician \in BOOLEAN : ReassignTicket(toTechnician)

ApprovalNext ==
  \/ \E t \in Thread : Decision(t)
  \/ StaffStep
  \/ RequesterReplies \/ RequesterCloses \/ ConfirmResolution \/ ReopenTicket \/ WindowEnds

ApprovalSpec == ApprovalInit /\ [][ApprovalNext]_requestVars

-----------------------------------------------------------------------------
(* Properties.                                                             *)

\* Decisions that overlap, repeat or come late never let a request through
\* without a recorded approval of every step of its workflow.
ApprovedMeansEveryStep == approval = "Approved" => approvedSteps = 0 .. Steps - 1

\* STUDIO_GUIDE.md: "An approval advances to the next step."  No approved step is
\* ever ahead of one that nobody approved, and the current step is the next.
StepsInOrder ==
  /\ \A s \in approvedSteps : 0 .. s \subseteq approvedSteps
  /\ 0 .. step - 1 \subseteq approvedSteps

\* The inductive invariant behind both.
IInv ==
  /\ ApprovalTypeOK
  /\ StepsInOrder
  /\ ApprovedMeansEveryStep
  /\ \A t \in Thread :
       deciding[t] # NotDeciding => 0 .. deciding[t] - 1 \subseteq approvedSteps

=============================================================================
