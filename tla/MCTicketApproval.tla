-------------------------- MODULE MCTicketApproval --------------------------
(* Small instances of TicketApproval for TLC.                              *)
EXTENDS TicketApproval, TLC
CONSTANTS h1, h2, h3
Symmetry == Permutations(Thread)

(* A history variable: the decision that stood when no other one that read *)
(* the request as pending was still to be committed.                       *)
VARIABLE decided

HInit == ApprovalInit /\ decided = "Pending"

HNext ==
  /\ ApprovalNext
  /\ decided' = IF decided = "Pending" /\ (\A t \in Thread : deciding'[t] = NotDeciding)
                THEN approval' ELSE decided

HSpec == HInit /\ [][HNext]_<<requestVars, decided>>

\* decide_approval: "Pending approval not found".  Once the decisions that overlapped
\* it are through, a rejection (or approval) is final.
DecisionIsFinal == decided # "Pending" => approval = decided
=============================================================================
