--------------------------- MODULE Tickets_proofs ---------------------------
(***************************************************************************)
(* Proofs about tickets: their approval (TicketApproval), their numbers,   *)
(* sources, clocks and the rules that route them (SlaClock, Routing, Desk, *)
(* Telephony), and the mail they come from and give rise to (Mail); for    *)
(* any number of steps of a workflow, of decisions, technicians, rules,    *)
(* queues, calendars, calls, transactions, messages and stops.             *)
(*                                                                         *)
(* Approval: a decision knows only the step it read; what makes it safe is *)
(* that every step below the one it read has been approved, and stays      *)
(* approved.  Numbers and sources: what was read too early is refused by a *)
(* unique column.  Rules: a rule and its queue stay together unless edits  *)
(* overlap.  Targets: each day that add_operational_minutes passes over    *)
(* counts just the minutes it is open, and an update of a ticket that is   *)
(* not off is the only one in flight.  Mail: copies are counted against    *)
(* stops.                                                                  *)
(***************************************************************************)
EXTENDS MCTicketApproval, Telephony, Mail, FiniteSetTheorems, WellFoundedInduction, TLAPS

(* TicketApproval.                                                         *)

\* The ticket, its approval request and its checklist only ever hold the values
\* their handlers give them.
LEMMA InitTypes == ApprovalInit => ApprovalTypeOK
<1> SUFFICES ASSUME ApprovalInit PROVE ApprovalTypeOK
  OBVIOUS
<1>1. assigned \in BOOLEAN /\ summary \in BOOLEAN /\ itemsDone \in BOOLEAN
  BY Zenon DEF ApprovalInit
<1>2. deciding \in [Thread -> 0 .. Steps]
  BY WorkflowAssumption DEF ApprovalInit, WorkflowAssumption, NotDeciding
<1>3. reopened \in 0 .. MaxReopen /\ step \in 0 .. Steps - 1 /\ approvedSteps \subseteq 0 .. Steps - 1
  BY WorkflowAssumption DEF ApprovalInit, WorkflowAssumption
<1>4. /\ status \in TicketStatus
      /\ resolvedAt \in {"unset", "recent", "old"}
      /\ approval \in {"Pending", "Approved", "Rejected"}
      /\ checklist \in {"Blocked", "Active", "Completed", "Cancelled"}
  BY DEF ApprovalInit, TicketStatus
<1> QED BY <1>1, <1>2, <1>3, <1>4 DEF ApprovalTypeOK

THEOREM ApprovalTypeCorrect == ApprovalSpec => []ApprovalTypeOK
<1>1. ApprovalInit => ApprovalTypeOK
  BY InitTypes
<1>2. ApprovalTypeOK /\ [ApprovalNext]_requestVars => ApprovalTypeOK'
  <2> SUFFICES ASSUME ApprovalTypeOK, [ApprovalNext]_requestVars PROVE ApprovalTypeOK'
    OBVIOUS
  <2> USE WorkflowAssumption DEF ApprovalTypeOK, WorkflowAssumption, TicketStatus, NotDeciding
  <2>1. ASSUME NEW t \in Thread, Decision(t) PROVE ApprovalTypeOK'
    <3>1. CASE BeginDecision(t)
      BY <3>1 DEF BeginDecision, ticketVars, approvalVars, checklistVars
    <3>2. CASE Reject(t)
      BY <3>2 DEF Reject, Return
    <3>3. CASE ApproveStep(t)
      <4>1. deciding[t] \in 0 .. Steps - 1 /\ deciding[t] + 1 \in 0 .. Steps - 1
        BY <3>3 DEF ApproveStep, IsLast
      <4>2. approvedSteps' \subseteq 0 .. Steps - 1 /\ step' \in 0 .. Steps - 1
        BY <3>3, <4>1 DEF ApproveStep
      <4>3. deciding' \in [Thread -> 0 .. Steps]
        BY <3>3 DEF ApproveStep, Return
      <4> QED BY <3>3, <4>2, <4>3 DEF ApproveStep, ticketVars, checklistVars
    <3>4. CASE ApproveFinally(t)
      <4>1. status' \in TicketStatus
        <5>1. CASE assigned
          BY <3>4, <5>1, Zenon DEF ApproveFinally
        <5>2. CASE ~assigned
          BY <3>4, <5>2, Zenon DEF ApproveFinally
        <5> QED BY <5>1, <5>2
      <4>5. checklist' \in {"Blocked", "Active", "Completed", "Cancelled"}
        BY <3>4, Zenon DEF ApproveFinally
      <4>2. approvedSteps' \subseteq 0 .. Steps - 1
        <5>1. deciding[t] \in 0 .. Steps - 1
          BY <3>4 DEF ApproveFinally
        <5>2. approvedSteps' = approvedSteps \cup {deciding[t]}
          BY <3>4 DEF ApproveFinally
        <5> QED BY <5>1, <5>2
      <4>3. deciding' \in [Thread -> 0 .. Steps]
        BY <3>4 DEF ApproveFinally, Return
      <4>4. approval' = "Approved" /\ UNCHANGED <<assigned, summary, resolvedAt, reopened, step, itemsDone>>
        BY <3>4 DEF ApproveFinally
      <4> QED BY <4>1, <4>2, <4>3, <4>4, <4>5
    <3> QED BY <2>1, <3>1, <3>2, <3>3, <3>4 DEF Decision
  <2>2. ASSUME StaffStep PROVE ApprovalTypeOK'
    <3>1. ASSUME NEW done \in BOOLEAN, UpdateChecklist(done) PROVE ApprovalTypeOK'
      BY <3>1 DEF UpdateChecklist, ticketVars, approvalVars
    <3>2. CASE StaffResolves
      BY <3>2 DEF StaffResolves, approvalVars, checklistVars
    <3>3. ASSUME NEW new \in TicketStatus, StaffSetsStatus(new) \/ BulkStatus(new) PROVE ApprovalTypeOK'
      <4>1. assigned' \in BOOLEAN
        BY <3>3, Zenon DEF StaffSetsStatus, BulkStatus
      <4>2. status' = new /\ UNCHANGED <<summary, resolvedAt, reopened, approval, step,
                                         approvedSteps, checklist, itemsDone, deciding>>
        BY <3>3, Zenon DEF StaffSetsStatus, BulkStatus, approvalVars, checklistVars
      <4> QED BY <4>1, <4>2
    <3>4. ASSUME NEW tech \in BOOLEAN, ReassignTicket(tech) PROVE ApprovalTypeOK'
      BY <3>4 DEF ReassignTicket, approvalVars, checklistVars
    <3> QED BY <2>2, <3>1, <3>2, <3>3, <3>4 DEF StaffStep
  <2>3. CASE RequesterReplies \/ RequesterCloses \/ ConfirmResolution
    BY <2>3 DEF RequesterReplies, RequesterCloses, ConfirmResolution, approvalVars, checklistVars
  <2>4. CASE ReopenTicket
    BY <2>4 DEF ReopenTicket, approvalVars, checklistVars
  <2>5. CASE WindowEnds
    BY <2>5 DEF WindowEnds, approvalVars, checklistVars
  <2>6. CASE UNCHANGED requestVars
    BY <2>6 DEF requestVars, ticketVars, approvalVars, checklistVars
  <2> QED BY <2>1, <2>2, <2>3, <2>4, <2>5, <2>6 DEF ApprovalNext
<1> QED BY <1>1, <1>2, PTL DEF ApprovalSpec

-----------------------------------------------------------------------------
(* What a decision knows is that the steps before the one it read are done. *)
KnownSteps == \A t \in Thread :
  deciding[t] # NotDeciding => 0 .. deciding[t] - 1 \subseteq approvedSteps

\* A step that leaves the approval request alone and starts no decision keeps
\* the approval part of the invariant.
LEMMA ApprovalUntouched ==
  ASSUME IInv, UNCHANGED <<approval, step, approvedSteps, deciding>>
  PROVE  (StepsInOrder /\ ApprovedMeansEveryStep /\ KnownSteps)'
BY DEF IInv, StepsInOrder, ApprovedMeansEveryStep, KnownSteps

\* One more approved step, right after those that are known to be approved,
\* keeps them in order.
LEMMA AddStep ==
  ASSUME NEW S, NEW k \in Nat, 0 .. k - 1 \subseteq S, \A s \in S : 0 .. s \subseteq S
  PROVE  /\ 0 .. k \subseteq S \cup {k}
         /\ \A s \in S \cup {k} : 0 .. s \subseteq S \cup {k}
<1>1. 0 .. k \subseteq S \cup {k}
  BY SMT
<1> QED BY <1>1

\* The invariant is inductive: ApprovalInit establishes it and every step keeps it.
THEOREM ApprovalInductive == ApprovalSpec => []IInv
<1>1. ApprovalInit => IInv
  <2> SUFFICES ASSUME ApprovalInit PROVE IInv
    OBVIOUS
  <2>1. ApprovalTypeOK
    BY InitTypes
  <2>2. StepsInOrder /\ ApprovedMeansEveryStep /\ KnownSteps
    BY DEF ApprovalInit, StepsInOrder, ApprovedMeansEveryStep, KnownSteps
  <2> QED BY <2>1, <2>2 DEF IInv, KnownSteps
<1>2. IInv /\ ApprovalTypeOK' /\ [ApprovalNext]_requestVars => IInv'
  <2> SUFFICES ASSUME IInv, ApprovalTypeOK', [ApprovalNext]_requestVars PROVE IInv'
    OBVIOUS
  <2>0. /\ ApprovalTypeOK /\ StepsInOrder /\ ApprovedMeansEveryStep /\ KnownSteps
        /\ Steps \in Nat \ {0}
        /\ \A t \in Thread : deciding[t] \in 0 .. Steps
    BY WorkflowAssumption DEF IInv, KnownSteps, WorkflowAssumption, ApprovalTypeOK
  <2> SUFFICES (StepsInOrder /\ ApprovedMeansEveryStep /\ KnownSteps)'
    BY DEF IInv, KnownSteps
  <2>1. ASSUME NEW t \in Thread, BeginDecision(t)
        PROVE (StepsInOrder /\ ApprovedMeansEveryStep /\ KnownSteps)'
    <3>1. (StepsInOrder /\ ApprovedMeansEveryStep)'
      BY <2>0, <2>1 DEF BeginDecision, approvalVars, StepsInOrder, ApprovedMeansEveryStep
    <3>2. ASSUME NEW r \in Thread, deciding'[r] # NotDeciding
          PROVE  0 .. deciding'[r] - 1 \subseteq approvedSteps'
      <4>1. CASE r = t
        BY <2>0, <2>1, <4>1 DEF BeginDecision, approvalVars, StepsInOrder, ApprovalTypeOK
      <4>2. CASE r # t
        BY <2>0, <2>1, <3>2, <4>2 DEF BeginDecision, approvalVars, KnownSteps, ApprovalTypeOK
      <4> QED BY <4>1, <4>2
    <3> QED BY <3>1, <3>2 DEF KnownSteps, NotDeciding
  <2>2. ASSUME NEW t \in Thread, Reject(t)
        PROVE (StepsInOrder /\ ApprovedMeansEveryStep /\ KnownSteps)'
    BY <2>0, <2>2 DEF Reject, Return, StepsInOrder, ApprovedMeansEveryStep, KnownSteps, ApprovalTypeOK, NotDeciding
  <2>3. ASSUME NEW t \in Thread, deciding[t] # NotDeciding,
               approvedSteps' = approvedSteps \cup {deciding[t]}
        PROVE  /\ 0 .. deciding[t] \subseteq approvedSteps'
               /\ \A s \in approvedSteps' : 0 .. s \subseteq approvedSteps'
    <3>1. deciding[t] \in Nat
      BY <2>0
    <3>2. 0 .. deciding[t] - 1 \subseteq approvedSteps
      BY <2>0, <2>3 DEF KnownSteps
    <3>3. \A s \in approvedSteps : 0 .. s \subseteq approvedSteps
      BY <2>0 DEF StepsInOrder
    <3> HIDE DEF StepsInOrder
    <3> QED BY <2>3, <3>1, <3>2, <3>3, AddStep
  <2>4. ASSUME NEW t \in Thread, ApproveStep(t)
        PROVE (StepsInOrder /\ ApprovedMeansEveryStep /\ KnownSteps)'
    <3>1. /\ 0 .. deciding[t] \subseteq approvedSteps'
          /\ \A s \in approvedSteps' : 0 .. s \subseteq approvedSteps'
      BY <2>3, <2>4 DEF ApproveStep
    <3>2. step' - 1 = deciding[t]
      BY <2>0, <2>4 DEF ApproveStep
    <3>3. StepsInOrder'
      BY <3>1, <3>2 DEF StepsInOrder
    <3>4. approvedSteps \subseteq approvedSteps' /\ approvedSteps' \subseteq 0 .. Steps - 1
      BY <2>4 DEF ApproveStep, ApprovalTypeOK
    <3>5. ApprovedMeansEveryStep'
      BY <2>0, <2>4, <3>4 DEF ApproveStep, ApprovedMeansEveryStep
    <3>6. KnownSteps'
      BY <2>0, <2>4, <3>4 DEF ApproveStep, Return, KnownSteps, ApprovalTypeOK, NotDeciding
    <3> QED BY <3>3, <3>5, <3>6
  <2>5. ASSUME NEW t \in Thread, ApproveFinally(t)
        PROVE (StepsInOrder /\ ApprovedMeansEveryStep /\ KnownSteps)'
    <3>1. /\ 0 .. deciding[t] \subseteq approvedSteps'
          /\ \A s \in approvedSteps' : 0 .. s \subseteq approvedSteps'
      BY <2>3, <2>5 DEF ApproveFinally
    <3>2. approvedSteps \subseteq approvedSteps' /\ approvedSteps' \subseteq 0 .. Steps - 1
      BY <2>5 DEF ApproveFinally, ApprovalTypeOK
    <3>3. StepsInOrder'
      BY <2>0, <2>5, <3>1, <3>2 DEF ApproveFinally, StepsInOrder
    <3>4. deciding[t] = Steps - 1
      BY <2>0, <2>5 DEF ApproveFinally, IsLast, NotDeciding
    <3>5. ApprovedMeansEveryStep'
      BY <3>1, <3>2, <3>4 DEF ApprovedMeansEveryStep
    <3>6. KnownSteps'
      BY <2>0, <2>5, <3>2 DEF ApproveFinally, Return, KnownSteps, ApprovalTypeOK, NotDeciding
    <3> QED BY <3>3, <3>5, <3>6
  <2>6. CASE StaffStep
    <3>1. UNCHANGED <<approval, step, approvedSteps, deciding>>
      BY <2>6 DEF StaffStep, UpdateChecklist, StaffResolves, StaffSetsStatus, BulkStatus,
                  ReassignTicket, approvalVars
    <3> QED BY <3>1, ApprovalUntouched
  <2>7. CASE RequesterReplies \/ RequesterCloses \/ ConfirmResolution \/ ReopenTicket \/ WindowEnds
    <3>1. UNCHANGED <<approval, step, approvedSteps, deciding>>
      BY <2>7 DEF RequesterReplies, RequesterCloses, ConfirmResolution, ReopenTicket, WindowEnds, approvalVars
    <3> QED BY <3>1, ApprovalUntouched
  <2>8. CASE UNCHANGED requestVars
    BY <2>8, ApprovalUntouched DEF requestVars, approvalVars
  <2> QED BY <2>1, <2>2, <2>4, <2>5, <2>6, <2>7, <2>8 DEF ApprovalNext, Decision
<1> QED BY <1>1, <1>2, ApprovalTypeCorrect, PTL DEF ApprovalSpec

\* However decisions overlap, a request is approved only with a recorded approval
\* of every step of its workflow.
THEOREM NoStepSkipped == ApprovalSpec => []ApprovedMeansEveryStep
<1>1. IInv => ApprovedMeansEveryStep
  BY DEF IInv
<1> QED BY <1>1, ApprovalInductive, PTL

\* The approvals on record are those of the first steps, without a gap.
THEOREM InOrder == ApprovalSpec => []StepsInOrder
<1>1. IInv => StepsInOrder
  BY DEF IInv
<1> QED BY <1>1, ApprovalInductive, PTL

-----------------------------------------------------------------------------
(* The decision that stood when no other one was left that had read the    *)
(* request as pending is final: nobody finds it pending again.             *)
Recorded == decided # "Pending" => approval = decided /\ \A t \in Thread : deciding[t] = NotDeciding

LEMMA RecordedStep == Recorded /\ [HNext]_<<requestVars, decided>> => Recorded'
<1> SUFFICES ASSUME Recorded, [HNext]_<<requestVars, decided>> PROVE Recorded'
  OBVIOUS
<1>1. CASE HNext /\ decided = "Pending"
  BY <1>1 DEF HNext, Recorded
<1>2. CASE HNext /\ decided # "Pending"
  <2>1. decided' = decided /\ approval = decided /\ approval # "Pending"
        /\ \A t \in Thread : deciding[t] = NotDeciding
    BY <1>2 DEF HNext, Recorded
  <2>2. ASSUME NEW t \in Thread, Decision(t) PROVE FALSE
    BY <2>1, <2>2 DEF Decision, BeginDecision, Decidable, Reject, ApproveStep, ApproveFinally
  <2>3. UNCHANGED <<approval, deciding>>
    <3>1. CASE StaffStep
      BY <3>1 DEF StaffStep, UpdateChecklist, StaffResolves, StaffSetsStatus, BulkStatus, ReassignTicket, approvalVars
    <3>2. CASE RequesterReplies \/ RequesterCloses \/ ConfirmResolution \/ ReopenTicket \/ WindowEnds
      BY <3>2 DEF RequesterReplies, RequesterCloses, ConfirmResolution, ReopenTicket, WindowEnds, approvalVars
    <3> QED BY <1>2, <2>2, <3>1, <3>2 DEF HNext, ApprovalNext
  <2> QED BY <2>1, <2>3 DEF Recorded
<1>3. CASE UNCHANGED <<requestVars, decided>>
  BY <1>3 DEF Recorded, requestVars, approvalVars
<1> QED BY <1>1, <1>2, <1>3

\* A rejection, or a last approval, is final once the decisions that overlapped it are
\* through, whatever else happens to the ticket (decide_approval: "Pending approval not
\* found").
THEOREM DecisionStands == HSpec => []DecisionIsFinal
<1>1. HInit => Recorded
  BY DEF HInit, Recorded
<1>2. Recorded => DecisionIsFinal
  BY DEF Recorded, DecisionIsFinal
<1> QED BY <1>1, <1>2, RecordedStep, PTL DEF HSpec

-----------------------------------------------------------------------------
(* Rows and what is written to them.                                       *)

\* What is changed from a row to another makes the other of it, and a row of any row.
LEMMA RuleWritten ==
  ASSUME NEW old \in Rule, NEW new \in Rule, NEW row \in Rule
  PROVE  Written(old, Writes(old, new)) = new /\ Written(row, Writes(old, new)) \in Rule
BY DEF Written, Writes, Rule

LEMMA QueueWritten ==
  ASSUME NEW old \in Queue, NEW new \in Queue, NEW row \in Queue
  PROVE  Written(old, Writes(old, new)) = new /\ Written(row, Writes(old, new)) \in Queue
BY DEF Written, Writes, Queue

-----------------------------------------------------------------------------
(* Numbers and sources.                                                    *)

Identity == {"prefix", "number", "source"}

\* What a request has read of the tickets stays true until it commits.
Sound(t) ==
  /\ t.kind = "ticket" =>
       /\ t.ticket.prefix \in Prefixes /\ t.ticket.number \in 1 .. sequence[t.ticket.prefix] + 1
       /\ Identity \subseteq DOMAIN t.ticket
  /\ t.kind = "update" => t.id \in DOMAIN tickets /\ DOMAIN t.writes \cap Identity = {}

Of(p) == {i \in DOMAIN tickets : tickets[i].prefix = p}

Listed ==
  /\ Len(tickets) \in Nat /\ tickets = [i \in 1 .. Len(tickets) |-> tickets[i]]
  /\ \A i \in DOMAIN tickets : Identity \subseteq DOMAIN tickets[i]

NumbersInv ==
  /\ sequence \in [Prefixes -> Nat]
  /\ Listed /\ NumbersInSequence /\ OneTicketPerSource
  /\ \A t \in inflight : Sound(t)

\* A list grows by one.
LEMMA Appended ==
  ASSUME NEW s, NEW x, Len(s) \in Nat, s = [i \in 1 .. Len(s) |-> s[i]]
  PROVE  /\ Append(s, x) = [i \in 1 .. Len(s) + 1 |-> IF i = Len(s) + 1 THEN x ELSE s[i]]
         /\ Len(Append(s, x)) = Len(s) + 1
<1> DEFINE S == {s[i] : i \in 1 .. Len(s)} \cup {x}
<1>1. s \in Seq(S)
  <2>1. s \in [1 .. Len(s) -> S]
    OBVIOUS
  <2> QED BY <2>1
<1>2. x \in S
  OBVIOUS
<1>3. /\ Append(s, x) \in Seq(S) /\ Len(Append(s, x)) = Len(s) + 1
      /\ \A i \in 1 .. Len(s) : Append(s, x)[i] = s[i]
      /\ Append(s, x)[Len(s) + 1] = x
  BY <1>1, <1>2
<1>4. Append(s, x) = [i \in 1 .. Len(s) + 1 |-> Append(s, x)[i]]
  <2> HIDE DEF S
  <2>1. \A q \in Seq(S) : q = [i \in 1 .. Len(q) |-> q[i]]
    OBVIOUS
  <2> QED BY <1>3, <2>1
<1> QED BY <1>3, <1>4

LEMMA InitNumbers == DeskInit => NumbersInv
<1> SUFFICES ASSUME DeskInit PROVE NumbersInv
  OBVIOUS
<1>1. Listed /\ OneTicketPerSource /\ inflight = {}
  BY DEF DeskInit, RoutingInit, Listed, OneTicketPerSource
<1>2. NumbersInSequence
  <2> SUFFICES ASSUME NEW p \in Prefixes PROVE {tickets[i].number : i \in Of(p)} = 1 .. sequence[p] /\ Cardinality(Of(p)) = sequence[p]
    BY DEF NumbersInSequence, Of
  <2>1. Of(p) = {} /\ sequence[p] = 0
    BY DEF Of, DeskInit
  <2> QED BY <2>1, FS_EmptySet
<1> QED BY <1>1, <1>2 DEF DeskInit, NumbersInv

\* A step that leaves the tickets alone; what begins has read them.
Quiet ==
  /\ tickets' = tickets /\ sequence' = sequence
  /\ \A t \in inflight' : t \in inflight \/ Sound(t)

LEMMA QuietStep == ASSUME NumbersInv, Quiet PROVE NumbersInv'
BY DEF NumbersInv, Quiet, Listed, NumbersInSequence, OneTicketPerSource, Sound

LEMMA NewTicketIsQuiet ==
  ASSUME NumbersInv, NEW prefix \in Prefixes, NEW source, NEW starting, NEW target, NEW routed, NEW by,
         BeginTicket(prefix, source, starting, target, routed, by), UNCHANGED deskVars
  PROVE  Quiet
<1> DEFINE t == [kind |-> "ticket", by |-> by, turn |-> routed.turn, target |-> target,
         ticket |-> [prefix |-> prefix, number |-> sequence[prefix] + 1, source |-> source, status |-> starting,
                     team |-> routed.team, assignee |-> routed.assignee, pausedAt |-> None,
                     due |-> Due(target)]]
<1>1. inflight' = inflight \cup {t}
  BY DEF BeginTicket, Begin
<1>2. t.kind = "ticket" /\ t.ticket.prefix = prefix /\ t.ticket.number = sequence[prefix] + 1
  OBVIOUS
<1>3. Identity \subseteq DOMAIN t.ticket
  BY DEF Identity
<1>4. sequence[prefix] \in Nat
  BY DEF NumbersInv
<1>5. Sound(t)
  <2> HIDE DEF t
  <2> QED BY <1>2, <1>3, <1>4 DEF Sound
<1> QED BY <1>1, <1>5 DEF Quiet, deskVars

SameTicket(i, new) == \A f \in Identity : new[f] = tickets[i][f]

LEMMA UpdateIsQuiet ==
  ASSUME NumbersInv, NEW i \in DOMAIN tickets, NEW new, NEW kept, NEW by,
         BeginUpdate(i, new, kept, by), UNCHANGED <<tickets, sequence>>,
         SameTicket(i, new)
  PROVE  Quiet
<1> DEFINE t == Updates(i, new, kept, by)
<1>1. inflight' = inflight \cup {t}
  BY DEF BeginUpdate, Begin
<1>2. t.kind = "update" /\ t.id = i /\ t.writes = Writes(tickets[i], new)
  BY DEF Updates
<1>3. DOMAIN Writes(tickets[i], new) \cap Identity = {}
  BY DEF Writes, SameTicket
<1>4. Sound(t)
  <2> HIDE DEF t
  <2> QED BY <1>2, <1>3 DEF Sound
<1> QED BY <1>1, <1>4 DEF Quiet

\* The other columns are not the identity.
LEMMA WorkIsQuiet == ASSUME NumbersInv, Work PROVE Quiet
<1>1. UNCHANGED <<tickets, sequence>>
  BY DEF Work
<1>2. PICK i \in DOMAIN tickets : \/ UpdateTicket(i) \/ Reply(i) \/ Confirm(i) \/ Reopen(i) \/ BulkUpdate(i)
                                  \/ \E q \in Queues : Reassign(i, q)
  BY DEF Work
<1>3. \A a, b, c :
        /\ SameTicket(i, [tickets[i] EXCEPT !.status = a])
        /\ SameTicket(i, [tickets[i] EXCEPT !.assignee = a])
        /\ SameTicket(i, [tickets[i] EXCEPT !.status = a, !.due = b, !.pausedAt = c])
  BY DEF NumbersInv, Listed, Identity, SameTicket
<1>4. \A new, kept : Works(i, new, kept) /\ SameTicket(i, new) => Quiet
  BY <1>1, UpdateIsQuiet DEF Works
<1>5. CASE UpdateTicket(i)
  <2>1. CASE \E u \in Staff : Works(i, [tickets[i] EXCEPT !.assignee = u], TRUE)
    BY <1>3, <1>4, <2>1, Zenon
  <2>2. CASE \E s \in Status \ {tickets[i].status} :
               LET clock == PauseTransition(tickets[i], s, now, settings.pauses)
               IN  Works(i, [tickets[i] EXCEPT !.status = s, !.due = clock.due, !.pausedAt = clock.pausedAt], TRUE)
    <3>1. PICK s, due, at : Works(i, [tickets[i] EXCEPT !.status = s, !.due = due, !.pausedAt = at], TRUE)
      BY <2>2
    <3>2. SameTicket(i, [tickets[i] EXCEPT !.status = s, !.due = due, !.pausedAt = at])
      BY <1>3
    <3> QED BY <1>4, <3>1, <3>2, Zenon
  <2> QED BY <1>5, <2>1, <2>2 DEF UpdateTicket
<1>6. CASE Reply(i) \/ Confirm(i) \/ Reopen(i)
  <2>1. PICK s : Works(i, [tickets[i] EXCEPT !.status = s], FALSE)
    BY <1>6 DEF Reply, Confirm, Reopen
  <2> QED BY <1>3, <1>4, <2>1, Zenon
<1>7. CASE BulkUpdate(i)
  <2>1. CASE \E u \in Staff : Works(i, [tickets[i] EXCEPT !.assignee = u], FALSE)
    BY <1>3, <1>4, <2>1, Zenon
  <2>2. CASE \E s \in Status \ {tickets[i].status} : Works(i, [tickets[i] EXCEPT !.status = s], FALSE)
    BY <1>3, <1>4, <2>2, Zenon
  <2> QED BY <1>7, <2>1, <2>2 DEF BulkUpdate
<1>8. CASE \E q \in Queues : Reassign(i, q)
  <2>1. PICK t, u : Works(i, [tickets[i] EXCEPT !.team = t, !.assignee = u,
                                 !.status = IF u # None /\ @ = "New" THEN "Assigned" ELSE @], FALSE)
    BY <1>8 DEF Reassign
  <2>2. SameTicket(i, [tickets[i] EXCEPT !.team = t, !.assignee = u,
                          !.status = IF u # None /\ @ = "New" THEN "Assigned" ELSE @])
    BY DEF NumbersInv, Listed, Identity, SameTicket
  <2> QED BY <1>4, <2>1, <2>2, Zenon
<1> QED BY <1>2, <1>5, <1>6, <1>7, <1>8

\* A number that is not taken is the next one.
LEMMA NextNumber ==
  ASSUME NumbersInv, NEW t \in inflight, t.kind = "ticket", ~Conflicts(t)
  PROVE  t.ticket.prefix \in Prefixes /\ t.ticket.number = sequence[t.ticket.prefix] + 1
<1> DEFINE p == t.ticket.prefix
<1>1. p \in Prefixes /\ t.ticket.number \in 1 .. sequence[p] + 1 /\ sequence[p] \in Nat
  BY DEF NumbersInv, Sound
<1>2. {tickets[i].number : i \in Of(p)} = 1 .. sequence[p]
  BY <1>1 DEF NumbersInv, NumbersInSequence, Of
<1>3. t.ticket.number \notin {tickets[i].number : i \in Of(p)}
  BY DEF Conflicts, Of
<1> QED BY <1>1, <1>2, <1>3

LEMMA TicketCommitted == ASSUME NumbersInv, NEW t \in inflight, CommitTicket(t) PROVE NumbersInv'
<1>1. inflight' \subseteq inflight /\ t.kind = "ticket"
  BY DEF CommitTicket
<1>2. CASE Conflicts(t)
  BY <1>1, <1>2, QuietStep DEF CommitTicket, Quiet
<1>3. CASE ~Conflicts(t)
  <2> DEFINE p == t.ticket.prefix
             n == Len(tickets) + 1
  <2>1. /\ tickets' = Append(tickets, t.ticket)
        /\ sequence' = [sequence EXCEPT ![p] = t.ticket.number]
    BY <1>3 DEF CommitTicket
  <2>2. /\ Len(tickets) \in Nat /\ tickets = [i \in 1 .. Len(tickets) |-> tickets[i]]
        /\ DOMAIN tickets = 1 .. Len(tickets)
    BY DEF NumbersInv, Listed
  <2>3. tickets' = [i \in 1 .. n |-> IF i = n THEN t.ticket ELSE tickets[i]] /\ Len(tickets') = n
    BY <2>1, <2>2, Appended
  <2>4. /\ p \in Prefixes /\ t.ticket.number \in 1 .. sequence[p] + 1 /\ Identity \subseteq DOMAIN t.ticket
        /\ sequence[p] \in Nat /\ sequence \in [Prefixes -> Nat]
    BY <1>1 DEF NumbersInv, Sound
  <2>5. t.ticket.number = sequence[p] + 1
    BY <1>1, <1>3, NextNumber
  <2> HIDE DEF p, n
  <2>6. sequence' \in [Prefixes -> Nat] /\ \A q \in Prefixes : sequence'[q] = IF q = p THEN sequence[p] + 1 ELSE sequence[q]
    BY <2>1, <2>4, <2>5
  <2>7. DOMAIN tickets' = 1 .. n /\ n = Len(tickets) + 1 /\ n \notin DOMAIN tickets
        /\ DOMAIN tickets' = DOMAIN tickets \cup {n}
    BY <2>2, <2>3 DEF n
  <2>8. tickets'[n] = t.ticket /\ \A i \in DOMAIN tickets : tickets'[i] = tickets[i]
    BY <2>2, <2>3, <2>7
  <2>9. Listed'
    <3>1. \A i \in DOMAIN tickets' : Identity \subseteq DOMAIN tickets'[i]
      BY <2>4, <2>7, <2>8 DEF NumbersInv, Listed
    <3> QED BY <2>2, <2>3, <2>7, <3>1 DEF Listed
  <2>10. NumbersInSequence'
    <3> SUFFICES ASSUME NEW q \in Prefixes
                 PROVE  {tickets'[i].number : i \in Of(q)'} = 1 .. sequence'[q] /\ Cardinality(Of(q)') = sequence'[q]
      BY DEF NumbersInSequence, Of
    <3>1. {tickets[i].number : i \in Of(q)} = 1 .. sequence[q] /\ Cardinality(Of(q)) = sequence[q] /\ sequence[q] \in Nat
      BY <2>4 DEF NumbersInv, NumbersInSequence, Of
    <3>2. CASE q # p
      <4>1. Of(q)' = Of(q)
        BY <2>7, <2>8, <3>2 DEF Of, p
      <4>2. {tickets'[i].number : i \in Of(q)} = {tickets[i].number : i \in Of(q)}
        BY <2>8 DEF Of
      <4> QED BY <2>6, <3>1, <3>2, <4>1, <4>2
    <3>3. CASE q = p
      <4>1. Of(q)' = Of(q) \cup {n}
        BY <2>7, <2>8, <3>3 DEF Of, p
      <4>2. n \notin Of(q)
        BY <2>7 DEF Of
      <4>3. {tickets'[i].number : i \in Of(q)'} = {tickets[i].number : i \in Of(q)} \cup {t.ticket.number}
        <5>1. \A i \in Of(q) : tickets'[i].number = tickets[i].number
          BY <2>8 DEF Of
        <5>2. tickets'[n].number = t.ticket.number
          BY <2>8
        <5> QED BY <4>1, <5>1, <5>2
      <4>4. 1 .. sequence'[q] = 1 .. sequence[q] \cup {sequence[q] + 1} /\ sequence'[q] = sequence[q] + 1
        BY <2>6, <3>1, <3>3
      <4>5. IsFiniteSet(Of(q))
        <5>1. IsFiniteSet(DOMAIN tickets)
          <6>1. 1 \in Int /\ Len(tickets) \in Int
            BY <2>2
          <6>2. IsFiniteSet(1 .. Len(tickets))
            BY <6>1, FS_Interval
          <6> QED BY <2>2, <6>2
        <5> QED BY <5>1, FS_Subset DEF Of
      <4>6. Cardinality(Of(q)') = Cardinality(Of(q)) + 1
        BY <4>1, <4>2, <4>5, FS_AddElement
      <4> QED BY <2>5, <3>1, <3>3, <4>3, <4>4, <4>6
    <3> QED BY <3>2, <3>3
  <2>11. OneTicketPerSource'
    <3>1. \A i \in DOMAIN tickets : tickets[i].source = t.ticket.source => t.ticket.source = None
      BY <1>3 DEF Conflicts, From
    <3>2. \A i, j \in DOMAIN tickets : tickets[i].source = tickets[j].source => i = j \/ tickets[i].source = None
      BY DEF NumbersInv, OneTicketPerSource
    <3> QED BY <2>7, <2>8, <3>1, <3>2 DEF OneTicketPerSource
  <2>12. \A o \in inflight' : Sound(o)'
    <3> SUFFICES ASSUME NEW o \in inflight' PROVE Sound(o)'
      OBVIOUS
    <3>1. Sound(o)
      BY <1>1 DEF NumbersInv
    <3>2. \A q \in Prefixes : sequence[q] \in Nat /\ (sequence'[q] = sequence[q] \/ sequence'[q] = sequence[q] + 1)
      BY <2>4, <2>6
    <3> QED BY <2>7, <3>1, <3>2 DEF Sound
  <2> QED BY <2>6, <2>9, <2>10, <2>11, <2>12 DEF NumbersInv
<1> QED BY <1>2, <1>3

\* Work leaves the identity of a ticket.
LEMMA IdentityStays ==
  ASSUME NumbersInv, NEW t \in inflight, CommitUpdate(t)
  PROVE  /\ DOMAIN tickets' = DOMAIN tickets /\ tickets' = [i \in 1 .. Len(tickets) |-> tickets'[i]]
         /\ \A i \in DOMAIN tickets : /\ DOMAIN tickets'[i] = DOMAIN tickets[i]
                                      /\ tickets'[i].prefix = tickets[i].prefix
                                      /\ tickets'[i].number = tickets[i].number
                                      /\ tickets'[i].source = tickets[i].source
<1>1. tickets' = [tickets EXCEPT ![t.id] = Written(@, t.writes)]
  BY DEF CommitUpdate
<1>2. t.id \in DOMAIN tickets /\ DOMAIN t.writes \cap Identity = {}
  BY DEF NumbersInv, Sound, CommitUpdate
<1>3. /\ tickets = [i \in 1 .. Len(tickets) |-> tickets[i]] /\ DOMAIN tickets = 1 .. Len(tickets)
      /\ \A i \in DOMAIN tickets : Identity \subseteq DOMAIN tickets[i]
  BY DEF NumbersInv, Listed
<1>4. DOMAIN tickets' = DOMAIN tickets /\ tickets' = [i \in 1 .. Len(tickets) |-> tickets'[i]]
  BY <1>1, <1>3
<1>5. \A i \in DOMAIN tickets :
        /\ DOMAIN tickets'[i] = DOMAIN tickets[i]
        /\ \A f \in Identity : tickets'[i][f] = tickets[i][f]
  <2>1. \A i \in DOMAIN tickets : tickets'[i] = IF i = t.id THEN Written(tickets[i], t.writes) ELSE tickets[i]
    BY <1>1, <1>2, <1>3
  <2>2. /\ DOMAIN Written(tickets[t.id], t.writes) = DOMAIN tickets[t.id]
        /\ \A f \in Identity : Written(tickets[t.id], t.writes)[f] = tickets[t.id][f]
    BY <1>2, <1>3 DEF Written
  <2> QED BY <2>1, <2>2
<1> QED BY <1>4, <1>5 DEF Identity

LEMMA UpdateCommitted == ASSUME NumbersInv, NEW t \in inflight, CommitUpdate(t) PROVE NumbersInv'
<1>1. inflight' \subseteq inflight /\ sequence' = sequence
  BY DEF CommitUpdate
<1>3. /\ Len(tickets) \in Nat /\ DOMAIN tickets = 1 .. Len(tickets)
      /\ \A i \in DOMAIN tickets : Identity \subseteq DOMAIN tickets[i]
  BY DEF NumbersInv, Listed
<1>4. DOMAIN tickets' = DOMAIN tickets /\ tickets' = [i \in 1 .. Len(tickets) |-> tickets'[i]]
  BY IdentityStays
<1>5. \A i \in DOMAIN tickets : DOMAIN tickets'[i] = DOMAIN tickets[i]
  BY IdentityStays
<1>6. \A i \in DOMAIN tickets : /\ tickets'[i].prefix = tickets[i].prefix
                                /\ tickets'[i].number = tickets[i].number
                                /\ tickets'[i].source = tickets[i].source
  BY IdentityStays
<1>7. Listed'
  <2>1. Len(tickets') = Len(tickets)
    <3> DEFINE S == {tickets'[i] : i \in 1 .. Len(tickets)}
    <3>1. tickets' \in [1 .. Len(tickets) -> S]
      BY <1>4
    <3> HIDE DEF S
    <3> QED BY <1>3, <3>1
  <2> QED BY <1>3, <1>4, <1>5, <2>1 DEF Listed
<1>8. NumbersInSequence'
  <2>1. \A p : Of(p)' = Of(p)
    BY <1>4, <1>6 DEF Of
  <2>2. \A p : {tickets'[i].number : i \in Of(p)} = {tickets[i].number : i \in Of(p)}
    BY <1>6 DEF Of
  <2>3. \A p \in Prefixes : {tickets[i].number : i \in Of(p)} = 1 .. sequence[p] /\ Cardinality(Of(p)) = sequence[p]
    BY DEF NumbersInv, NumbersInSequence, Of
  <2>4. \A p \in Prefixes : {tickets'[i].number : i \in Of(p)'} = 1 .. sequence'[p] /\ Cardinality(Of(p)') = sequence'[p]
    BY <1>1, <2>1, <2>2, <2>3
  <2> QED BY <2>4 DEF NumbersInSequence, Of
<1>9. OneTicketPerSource'
  BY <1>4, <1>6 DEF NumbersInv, OneTicketPerSource
<1>10. \A o \in inflight' : Sound(o)'
  BY <1>1, <1>4 DEF NumbersInv, Sound
<1> QED BY <1>1, <1>7, <1>8, <1>9, <1>10 DEF NumbersInv

LEMMA NewTicketIsSound == ASSUME NumbersInv, NewTicket PROVE Quiet
<1>1. UNCHANGED deskVars
  BY DEF NewTicket
<1>2. CASE \E p \in Prefixes, sample \in Samples : CreateTicket(p, sample)
  <2>1. PICK p \in Prefixes, sample \in Samples : CreateTicket(p, sample)
    BY <1>2
  <2> QED BY <1>1, <2>1, NewTicketIsQuiet DEF CreateTicket
<1>3. CASE \E r \in Requests, sample \in Samples : SubmitIncident(r, sample)
  <2>1. PICK r \in Requests, sample \in Samples : SubmitIncident(r, sample)
    BY <1>3
  <2>2. \E choice : BeginTicket(Incident, r, "Open", IncidentTarget, choice, None)
    BY <2>1 DEF SubmitIncident
  <2>3. Incident \in Prefixes
    BY DeskAssumption DEF DeskAssumption
  <2> QED BY <1>1, <2>2, <2>3, NewTicketIsQuiet
<1> QED BY <1>2, <1>3 DEF NewTicket

LEMMA HearIsQuiet == ASSUME NumbersInv, NEW c, NEW call, Hear(c, call) PROVE Quiet
<1>1. PICK tech \in Answering :
        NewCall(c, call, tech) \/ \E i \in Known(call) : AnsweredCall(c, i, tech)
  BY DEF Hear
<1>2. CASE NewCall(c, call, tech)
  <2>1. UNCHANGED deskVars /\ \E starting, routed : BeginTicket(Incident, call, starting, PlainTarget, routed, c)
    BY <1>2 DEF NewCall
  <2>2. Incident \in Prefixes
    BY DeskAssumption DEF DeskAssumption
  <2> QED BY <2>1, <2>2, NewTicketIsQuiet
<1>3. CASE \E i \in Known(call) : AnsweredCall(c, i, tech)
  <2>1. PICK i \in Known(call) : AnsweredCall(c, i, tech)
    BY <1>3
  <2>2. i \in DOMAIN tickets
    BY DEF Known, From
  <2>3. SameTicket(i, [tickets[i] EXCEPT !.assignee = tech, !.status = "Assigned"])
    BY <2>2 DEF NumbersInv, Listed, Identity, SameTicket
  <2>4. /\ BeginUpdate(i, [tickets[i] EXCEPT !.assignee = tech, !.status = "Assigned"], FALSE, c)
        /\ UNCHANGED <<tickets, sequence>>
    BY <2>1 DEF AnsweredCall
  <2> QED BY <2>2, <2>3, <2>4, UpdateIsQuiet
<1> QED BY <1>1, <1>2, <1>3

\* Administration, which is in flight too, leaves the tickets.
LEMMA AdministrationBegins ==
  ASSUME Administration
  PROVE  \E t, astray :
           /\ t.kind \in {"rule", "queue", "team"} /\ inflight' = inflight \cup {t}
           /\ BeginAdministration(t, astray)
BY DEF Administration, SaveRule, RollbackRule, ArchiveRule, ArchiveQueue, UpdateQueue, UpdateTeam,
  BeginRule, BeginQueue, BeginAdministration, Begin

\* All but the commits.
LEMMA StepIsQuiet ==
  ASSUME NumbersInv, [Next]_vars, ~\E t \in inflight : CommitTicket(t) \/ CommitUpdate(t)
  PROVE  Quiet
<1>1. CASE UNCHANGED vars
  BY <1>1 DEF vars, deskVars, Quiet
<1>2. CASE NewTicket
  BY <1>2, NewTicketIsSound
<1>3. CASE Work
  BY <1>3, WorkIsQuiet
<1>4. CASE Organize
  <2>1. UNCHANGED <<tickets, sequence>>
    BY <1>4 DEF Organize, deskVars
  <2>2. \A t \in inflight' : t \in inflight \/ t.kind \in {"rule", "queue", "team"}
    <3>1. CASE Administration
      BY <3>1, AdministrationBegins
    <3>2. CASE \E u \in Staff : StaffChanges(u)
      BY <3>2 DEF StaffChanges
    <3>3. CASE \E t \in inflight : t.kind \in {"rule", "queue", "team"} /\ CommitAdministration(t)
      BY <3>3 DEF CommitAdministration
    <3> QED BY <1>4, <3>1, <3>2, <3>3 DEF Organize
  <2> QED BY <2>1, <2>2 DEF Quiet, Sound
<1>5. CASE Tick \/ \E new \in Settings : Publish(new)
  BY <1>5 DEF Tick, Publish, Quiet
<1>6. CASE PhoneNext
  <2>1. CASE \E c \in Connections, call \in Calls : Hear(c, call)
    BY <2>1, HearIsQuiet
  <2>2. CASE ~\E c \in Connections, call \in Calls : Hear(c, call)
    <3>1. UNCHANGED deskVars /\ inflight' \subseteq inflight
      BY <1>6, <2>2 DEF PhoneNext, StartAuthorization, AuthorizationReturns, AuthorizationExpires, TestConnection,
        TestFails, UpdateConnection, ArchiveConnection, Edits, Supervise, Connect, Disconnect, Listener, Restart
    <3> QED BY <3>1 DEF Quiet, deskVars
  <2> QED BY <2>1, <2>2
<1> QED BY <1>1, <1>2, <1>3, <1>4, <1>5, <1>6 DEF Next, DeskNext

LEMMA StepNumbers == NumbersInv /\ [Next]_vars => NumbersInv'
<1> SUFFICES ASSUME NumbersInv, [Next]_vars PROVE NumbersInv'
  OBVIOUS
<1>1. CASE \E t \in inflight : CommitTicket(t) \/ CommitUpdate(t)
  BY <1>1, TicketCommitted, UpdateCommitted
<1>2. CASE ~\E t \in inflight : CommitTicket(t) \/ CommitUpdate(t)
  BY <1>2, StepIsQuiet, QuietStep
<1> QED BY <1>1, <1>2

LEMMA NumbersInvariant == Spec => []NumbersInv
<1>1. Init => NumbersInv
  BY InitNumbers DEF Init
<1> QED BY <1>1, StepNumbers, PTL DEF Spec

\* The numbers of a prefix run from 1 to its sequence, each of one ticket, whatever
\* create_ticket, create_incident and the listeners read at the same moment.
THEOREM NumbersRun == Spec => []NumbersInSequence
BY NumbersInvariant, PTL DEF NumbersInv

\* An incident that is submitted again, and a call that several listeners hear, has one
\* ticket.
THEOREM OnePerSource == Spec => []OneTicketPerSource
BY NumbersInvariant, PTL DEF NumbersInv

-----------------------------------------------------------------------------
(* Rules and queues.                                                       *)

\* What a transaction writes makes rows of rows.
RowsSound(t) ==
  /\ t.kind = "rule" =>
       t.rule \in Rules /\ t.queue \in Queues \cup {None} /\ \A row \in Rule : Written(row, t.writes) \in Rule
  /\ t.kind = "queue" => t.queue \in Queues /\ \A row \in Queue : Written(row, t.writes) \in Queue

Rows ==
  /\ rule \in [Rules -> Rule] /\ queue \in [Queues -> Queue] /\ versions \subseteq Rules \X Rule
  /\ \A t \in inflight : RowsSound(t)

\* A row that routes names a queue that is open and that nobody is about to close.
Open(row) ==
  row.active /\ row.queue # None => queue[row.queue].active /\ \A d \in inflight : ~Deactivates(d, row.queue)

\* A rule that is not astray is open as it is, and as the one save of it that is in flight,
\* if there is one, will leave it.
OnCourse(r) ==
  /\ Open(rule[r])
  /\ \A t \in inflight : Saves(t, r) => Open(Written(rule[r], t.writes)) /\ Written(rule[r], t.writes).queue = t.queue
  /\ \A t, o \in inflight : Saves(t, r) /\ Saves(o, r) => t = o

RoutingInv == Rows /\ \A r \in Rules : r \in strayed \/ OnCourse(r)

LEMMA InitRouting == RoutingInit => RoutingInv
<1> SUFFICES ASSUME RoutingInit PROVE RoutingInv
  OBVIOUS
<1>1. Rows
  BY RowsAssumption DEF RowsAssumption, RoutingInit, Rows
<1>2. ASSUME NEW r \in Rules PROVE OnCourse(r)
  <2>1. rule[r] = GivenRule(r) /\ inflight = {} /\ \A q \in Queues : queue[q] = GivenQueue(q)
    BY DEF RoutingInit
  <2>2. rule[r].queue # None => rule[r].queue \in Queues
    BY <2>1, RowsAssumption DEF RowsAssumption, Rule
  <2> QED BY <2>1, <2>2, RowsAssumption DEF RowsAssumption, OnCourse, Open
<1> QED BY <1>1, <1>2 DEF RoutingInv

\* A step that leaves rules and queues, and starts no administration.
Elsewhere ==
  /\ UNCHANGED <<rule, queue, versions, strayed>>
  /\ \A t \in inflight' : t \in inflight \/ t.kind \notin {"rule", "queue"}

LEMMA ElsewhereStep == ASSUME RoutingInv, Elsewhere PROVE RoutingInv'
<1>1. Rows'
  BY DEF Elsewhere, RoutingInv, Rows, RowsSound
<1>2. \A row : Open(row) => Open(row)'
  BY DEF Elsewhere, Open, Deactivates
<1>3. \A r \in Rules : OnCourse(r) => OnCourse(r)'
  <2> SUFFICES ASSUME NEW r \in Rules, OnCourse(r) PROVE OnCourse(r)'
    OBVIOUS
  <2>1. \A t \in inflight' : Saves(t, r) => t \in inflight
    BY DEF Elsewhere, Saves
  <2>2. rule' = rule
    BY DEF Elsewhere
  <2> QED BY <1>2, <2>1, <2>2 DEF OnCourse
<1> QED BY <1>1, <1>3 DEF Elsewhere, RoutingInv

\* A save begins: it is the only one, and its queue stays open, or the rule is astray.
LEMMA RuleBegins ==
  ASSUME RoutingInv, NEW r \in Rules, NEW new \in Rule, NEW snapshot, NEW astray,
         BeginRule(r, new, snapshot, astray),
         astray \/ (new.active /\ new.queue # None => queue[new.queue].active)
  PROVE  RoutingInv'
<1> DEFINE t == [kind |-> "rule", rule |-> r, queue |-> new.queue, writes |-> Writes(rule[r], new), snapshot |-> snapshot]
<1>1. /\ inflight' = inflight \cup {t} /\ UNCHANGED <<rule, queue, versions>>
      /\ strayed' = strayed \cup (IF astray \/ \E o \in inflight : Saves(o, r) \/ Deactivates(o, new.queue) THEN {r} ELSE {})
  BY DEF BeginRule, BeginAdministration, Begin
<1>2. t.kind = "rule" /\ t.rule = r /\ t.queue = new.queue /\ t.writes = Writes(rule[r], new)
  OBVIOUS
<1> HIDE DEF t
<1>3. rule[r] \in Rule /\ new.queue \in Queues \cup {None}
  BY DEF RoutingInv, Rows, Rule
<1>4. Written(rule[r], t.writes) = new /\ RowsSound(t)
  BY <1>2, <1>3, RuleWritten DEF RowsSound
<1>5. Rows'
  BY <1>1, <1>4 DEF RoutingInv, Rows, RowsSound
<1>6. \A row : Open(row) => Open(row)'
  BY <1>1, <1>2 DEF Open, Deactivates
<1>7. ASSUME NEW s \in Rules, s \notin strayed' PROVE OnCourse(s)'
  <2>1. OnCourse(s)
    BY <1>1, <1>7 DEF RoutingInv
  <2>2. CASE s # r
    <3>1. ~Saves(t, s)
      BY <1>2, <2>2 DEF Saves
    <3> QED BY <1>1, <1>6, <2>1, <3>1 DEF OnCourse, Saves
  <2>3. CASE s = r
    <3>1. ~astray /\ \A o \in inflight : ~Saves(o, r) /\ ~Deactivates(o, new.queue)
      BY <1>1, <1>7, <2>3
    <3>2. Open(new)
      BY <3>1 DEF Open
    <3>3. \A o \in inflight' : Saves(o, r) => o = t
      BY <1>1, <3>1
    <3> QED BY <1>1, <1>2, <1>4, <1>6, <2>1, <2>3, <3>2, <3>3 DEF OnCourse
  <2> QED BY <2>2, <2>3
<1> QED BY <1>5, <1>7 DEF RoutingInv

\* An edit of a queue begins: when it closes the queue, the rules that use it, as they are
\* or as they are being saved, are astray or inactive.
LEMMA QueueBegins ==
  ASSUME RoutingInv, NEW q \in Queues, NEW new \in Queue, NEW users, BeginQueue(q, new, users),
         \A r \in Rules : rule[r].active /\ rule[r].queue = q => r \in users \/ new.active
  PROVE  RoutingInv'
<1> DEFINE t == [kind |-> "queue", queue |-> q, writes |-> Writes(queue[q], new)]
<1>1. /\ inflight' = inflight \cup {t} /\ UNCHANGED <<rule, queue, versions>>
      /\ strayed' = strayed \cup
           (IF Deactivates(t, q) THEN users \cup {o.rule : o \in {o \in inflight : o.kind = "rule" /\ o.queue = q}} ELSE {})
  BY DEF BeginQueue, BeginAdministration, Begin
<1>2. t.kind = "queue" /\ t.queue = q /\ t.writes = Writes(queue[q], new)
  OBVIOUS
<1> HIDE DEF t
<1>3. RowsSound(t)
  <2>1. queue[q] \in Queue
    BY DEF RoutingInv, Rows
  <2> QED BY <1>2, <2>1, QueueWritten DEF RowsSound
<1>4. Rows'
  BY <1>1, <1>3 DEF RoutingInv, Rows, RowsSound
<1>5. Deactivates(t, q) => ~new.active
  BY <1>2 DEF Deactivates, Writes
<1>6. \A row : Open(row) /\ ~(row.active /\ row.queue = q /\ Deactivates(t, q)) => Open(row)'
  <2>1. \A p : p # q => ~Deactivates(t, p)
    BY <1>2 DEF Deactivates
  <2> QED BY <1>1, <2>1 DEF Open
<1>7. ASSUME NEW s \in Rules, s \notin strayed' PROVE OnCourse(s)'
  <2>1. OnCourse(s) /\ rule'[s] = rule[s]
    BY <1>1, <1>7 DEF RoutingInv
  <2>2. Open(rule[s])'
    BY <1>1, <1>5, <1>6, <1>7, <2>1 DEF OnCourse
  <2>3. ASSUME NEW o \in inflight', Saves(o, s)
        PROVE  o \in inflight /\ Open(Written(rule[s], o.writes))' /\ Written(rule[s], o.writes).queue = o.queue
    <3>1. o \in inflight /\ o.kind = "rule" /\ o.rule = s
      BY <1>1, <1>2, <2>3 DEF Saves
    <3>2. Open(Written(rule[s], o.writes)) /\ Written(rule[s], o.writes).queue = o.queue
      BY <2>1, <2>3, <3>1 DEF OnCourse
    <3>3. ~(o.queue = q /\ Deactivates(t, q))
      BY <1>1, <1>7, <3>1
    <3> QED BY <1>1, <1>6, <3>1, <3>2, <3>3
  <2> QED BY <2>1, <2>2, <2>3 DEF OnCourse
<1> QED BY <1>4, <1>7 DEF RoutingInv

LEMMA AdministrationStep == ASSUME RoutingInv, Administration PROVE RoutingInv'
<1>1. ASSUME NEW r \in Rules, NEW new \in RuleEdits, SaveRule(r, new) PROVE RoutingInv'
  BY <1>1, RuleBegins, RowsAssumption DEF RowsAssumption, SaveRule, Valid
<1>2. ASSUME NEW r \in Rules, NEW v \in versions, v[1] = r, RollbackRule(r, v[2]) PROVE RoutingInv'
  <2>1. v[2] \in Rule
    BY DEF RoutingInv, Rows
  <2>2. BeginRule(r, v[2], TRUE, v[2].queue # None /\ ~queue[v[2].queue].active)
    BY <1>2 DEF RollbackRule
  <2> QED BY <2>1, <2>2, RuleBegins
<1>3. ASSUME NEW r \in Rules, ArchiveRule(r) PROVE RoutingInv'
  <2>1. [rule[r] EXCEPT !.active = FALSE] \in Rule /\ ~[rule[r] EXCEPT !.active = FALSE].active
    BY DEF RoutingInv, Rows, Rule
  <2> QED BY <1>3, <2>1, RuleBegins DEF ArchiveRule
<1>4. ASSUME NEW q \in Queues, ArchiveQueue(q) PROVE RoutingInv'
  <2>1. [queue[q] EXCEPT !.active = FALSE] \in Queue
    BY DEF RoutingInv, Rows, Queue
  <2> QED BY <1>4, <2>1, QueueBegins DEF ArchiveQueue, InUse
<1>5. ASSUME NEW q \in Queues, NEW new \in QueueEdits, UpdateQueue(q, new) PROVE RoutingInv'
  <2> DEFINE row == [new EXCEPT !.eligible = {t \in (IF @ = {} THEN {new.team} ELSE @) : team[t].active}]
  <2>1. row \in Queue
    BY RowsAssumption DEF RowsAssumption, Queue
  <2>2. BeginQueue(q, row, UsersOf(q))
    BY <1>5 DEF UpdateQueue
  <2> HIDE DEF row
  <2> QED BY <2>1, <2>2, QueueBegins DEF UsersOf
<1>6. ASSUME NEW t \in Teams, NEW M, NEW a, UpdateTeam(t, M, a) PROVE RoutingInv'
  <2>1. Elsewhere
    BY <1>6 DEF UpdateTeam, BeginAdministration, Begin, Elsewhere
  <2> QED BY <2>1, ElsewhereStep
<1> QED BY <1>1, <1>2, <1>3, <1>4, <1>5, <1>6 DEF Administration

\* What a rule that is on course becomes was open when it was decided, and still is; a
\* queue that is closed has no such rule.
LEMMA AdministrationCommitted ==
  ASSUME RoutingInv, NEW t \in inflight, t.kind \in {"rule", "queue", "team"}, CommitAdministration(t)
  PROVE  RoutingInv'
<1>1. inflight' = inflight \ {t} /\ strayed' = strayed
  BY DEF CommitAdministration
<1>2. CASE t.kind = "rule"
  <2> DEFINE new == Written(rule[t.rule], t.writes)
  <2>1. t.rule \in Rules /\ new \in Rule
    BY <1>2 DEF RoutingInv, Rows, RowsSound
  <2>2. /\ rule' = [rule EXCEPT ![t.rule] = new] /\ queue' = queue
        /\ versions' \subseteq versions \cup {<<t.rule, rule'[t.rule]>>}
    BY <1>2 DEF CommitAdministration
  <2>3. rule'[t.rule] = new /\ \A r \in Rules \ {t.rule} : rule'[r] = rule[r]
    BY <2>1, <2>2 DEF RoutingInv, Rows
  <2>4. OnCourse(t.rule) => Open(new)
    BY <1>2 DEF OnCourse, Saves
  <2> HIDE DEF new
  <2>5. Rows'
    <3>1. rule' \in [Rules -> Rule] /\ versions' \subseteq Rules \X Rule
      BY <2>1, <2>2, <2>3 DEF RoutingInv, Rows
    <3> QED BY <1>1, <2>2, <3>1 DEF RoutingInv, Rows, RowsSound
  <2>6. \A row : Open(row) => Open(row)'
    BY <1>1, <2>2 DEF Open, Deactivates
  <2>7. ASSUME NEW s \in Rules, s \notin strayed PROVE OnCourse(s)'
    <3>1. OnCourse(s)
      BY <2>7 DEF RoutingInv
    <3>2. CASE s # t.rule
      BY <1>1, <2>3, <2>6, <3>1, <3>2 DEF OnCourse, Saves
    <3>3. CASE s = t.rule
      <4>1. \A o \in inflight' : ~Saves(o, s)
        BY <1>1, <1>2, <3>1, <3>3 DEF OnCourse, Saves
      <4> QED BY <2>3, <2>4, <2>6, <3>1, <3>3, <4>1 DEF OnCourse
    <3> QED BY <3>2, <3>3
  <2> QED BY <1>1, <2>5, <2>7 DEF RoutingInv
<1>3. CASE t.kind = "queue"
  <2> DEFINE new == Written(queue[t.queue], t.writes)
  <2>1. t.queue \in Queues /\ new \in Queue /\ queue[t.queue] \in Queue
    BY <1>3 DEF RoutingInv, Rows, RowsSound
  <2>2. /\ queue' = [queue EXCEPT ![t.queue] = new] /\ rule' = rule /\ versions' = versions
    BY <1>3 DEF CommitAdministration
  <2>3. queue'[t.queue] = new /\ \A q \in Queues \ {t.queue} : queue'[q] = queue[q]
    BY <2>1, <2>2 DEF RoutingInv, Rows
  <2>4. ~Deactivates(t, t.queue) /\ queue[t.queue].active => new.active
    BY <1>3, <2>1 DEF Deactivates, Written, Queue
  <2> HIDE DEF new
  <2>5. Rows'
    <3>1. queue' \in [Queues -> Queue]
      BY <2>1, <2>2, <2>3 DEF RoutingInv, Rows
    <3> QED BY <1>1, <2>2, <3>1 DEF RoutingInv, Rows, RowsSound
  <2>6. \A row \in Rule : Open(row) => Open(row)'
    <3> SUFFICES ASSUME NEW row \in Rule, Open(row), row.active, row.queue # None
                 PROVE  queue'[row.queue].active /\ \A d \in inflight' : ~Deactivates(d, row.queue)
      BY DEF Open, Deactivates
    <3>1. row.queue \in Queues
      BY DEF Rule
    <3>2. queue[row.queue].active /\ \A d \in inflight : ~Deactivates(d, row.queue)
      BY DEF Open
    <3>3. ~Deactivates(t, row.queue)
      BY <3>2
    <3> QED BY <1>1, <2>3, <2>4, <3>1, <3>2, <3>3
  <2>7. ASSUME NEW s \in Rules, s \notin strayed PROVE OnCourse(s)'
    <3>1. OnCourse(s) /\ rule[s] \in Rule
      BY <2>7 DEF RoutingInv, Rows
    <3>2. \A o \in inflight : Saves(o, s) => Written(rule[s], o.writes) \in Rule
      BY <3>1 DEF RoutingInv, Rows, RowsSound, Saves
    <3>3. \A o \in inflight' : o \in inflight
      BY <1>1
    <3> QED BY <2>2, <2>6, <3>1, <3>2, <3>3 DEF OnCourse, Saves
  <2> QED BY <1>1, <2>5, <2>7 DEF RoutingInv
<1>4. CASE t.kind = "team"
  <2>1. Elsewhere
    BY <1>1, <1>4 DEF CommitAdministration, Elsewhere
  <2> QED BY <2>1, ElsewhereStep
<1> QED BY <1>2, <1>3, <1>4

\* A step that leaves people and rules, and starts no administration.
Apart ==
  /\ UNCHANGED <<staff, team, queue, rule, versions, strayed>>
  /\ \A t \in inflight' : t \in inflight \/ t.kind \notin {"rule", "queue", "team"}

\* Nothing but an administration changes people and rules.
LEMMA DeskIsApart == ASSUME [Next]_vars, ~Organize PROVE Apart
<1>1. UNCHANGED <<staff, team, queue, rule, versions, strayed>>
  BY DEF vars, routingVars, Next, DeskNext, NewTicket, Work, Tick, CommitTicket, CommitUpdate, Publish, PhoneNext,
    StartAuthorization, AuthorizationReturns, AuthorizationExpires, TestConnection, TestFails, UpdateConnection,
    ArchiveConnection, Edits, Supervise, Connect, Disconnect, Listener, Restart, Hear
<1>2. ASSUME NEW t \in inflight', t \notin inflight PROVE t.kind \in {"ticket", "update"}
  <2>1. CASE NewTicket
    BY <1>2, <2>1 DEF NewTicket, CreateTicket, SubmitIncident, BeginTicket, Begin
  <2>2. CASE Work
    <3>1. PICK i, new, kept : Works(i, new, kept)
      BY <2>2, Zenon DEF Work, UpdateTicket, Reply, Confirm, Reopen, BulkUpdate, Reassign
    <3>2. BeginUpdate(i, new, kept, None)
      BY <3>1 DEF Works
    <3> QED BY <1>2, <3>2 DEF BeginUpdate, Updates, Begin
  <2>3. CASE \E c \in Connections, call \in Calls : Hear(c, call)
    <3>1. PICK c \in Connections, call \in Calls, tech \in Answering :
            NewCall(c, call, tech) \/ \E i \in Known(call) : AnsweredCall(c, i, tech)
      BY <2>3 DEF Hear
    <3>2. CASE NewCall(c, call, tech)
      BY <1>2, <3>2 DEF NewCall, BeginTicket, Begin
    <3>3. CASE \E i \in Known(call) : AnsweredCall(c, i, tech)
      <4>1. PICK i, new : BeginUpdate(i, new, FALSE, c)
        BY <3>3, Zenon DEF AnsweredCall
      <4> QED BY <1>2, <4>1 DEF BeginUpdate, Updates, Begin
    <3> QED BY <3>1, <3>2, <3>3
  <2>4. CASE ~NewTicket /\ ~Work /\ ~\E c \in Connections, call \in Calls : Hear(c, call)
    BY <1>2, <2>4 DEF vars, Next, DeskNext, Tick, CommitTicket, CommitUpdate, Publish, PhoneNext,
      StartAuthorization, AuthorizationReturns, AuthorizationExpires, TestConnection, TestFails, UpdateConnection,
      ArchiveConnection, Edits, Supervise, Connect, Disconnect, Listener, Restart
  <2> QED BY <2>1, <2>2, <2>3, <2>4
<1> QED BY <1>1, <1>2 DEF Apart

LEMMA StepRouting == RoutingInv /\ [Next]_vars => RoutingInv'
<1> SUFFICES ASSUME RoutingInv, [Next]_vars PROVE RoutingInv'
  OBVIOUS
<1>1. CASE Organize
  <2>1. CASE \E u \in Staff : StaffChanges(u)
    <3>1. Elsewhere
      BY <2>1 DEF StaffChanges, Elsewhere
    <3> QED BY <3>1, ElsewhereStep
  <2> QED BY <1>1, <2>1, AdministrationStep, AdministrationCommitted DEF Organize
<1>2. CASE ~Organize
  <2>1. Elsewhere
    BY <1>2, DeskIsApart DEF Apart, Elsewhere
  <2> QED BY <2>1, ElsewhereStep
<1> QED BY <1>1, <1>2

\* A rule that routes names a queue that is open, however rules and queues are edited and
\* whenever each edit is committed; those that are astray are the ones admin_api.py lets
\* go: rolled back to an archived queue, closed by an edit, or overlapping.
THEOREM RulesResolve == Spec => []ActiveRulesResolve
<1>1. RoutingInv => ActiveRulesResolve
  BY DEF RoutingInv, OnCourse, Open, ActiveRulesResolve
<1>2. Init => RoutingInv
  BY InitRouting DEF Init, DeskInit
<1> QED BY <1>1, <1>2, StepRouting, PTL DEF Spec

-----------------------------------------------------------------------------
(* Induction and recursion over numbers, for sets and functions.           *)

LEMMA FromZeroOn ==
  ASSUME NEW S \in SUBSET Nat, 0 \in S, \A n \in S : n + 1 \in S
  PROVE  S = Nat
<1> SUFFICES ASSUME S # Nat PROVE FALSE
  OBVIOUS
<1>1. PICK m \in Nat \ S : \A n \in Nat \ S : ~ (<<n, m>> \in OpToRel(<, Nat))
  BY NatLessThanWellFounded, WFMin
<1>2. \A n \in Nat \ S : ~ (n < m)
  BY <1>1 DEF OpToRel
<1>3. m - 1 \in Nat /\ m - 1 \in S
  BY <1>2
<1> QED BY <1>3

\* A loop: what it starts from, and what a pass makes of what the pass before has left.
LEMMA LoopExists ==
  ASSUME NEW S, NEW first \in S, NEW pass \in [S -> S]
  PROVE  \E g \in [Nat -> S] : g[0] = first /\ \A n \in Nat : g[n + 1] = pass[g[n]]
<1> DEFINE Follows(h, n) == h[0] = first /\ \A k \in 1 .. n : h[k] = pass[h[k - 1]]
           Some == {n \in Nat : \E h \in [0 .. n -> S] : Follows(h, n)}
<1>1. Some = Nat
  <2>1. 0 \in Some
    <3>1. [k \in 0 .. 0 |-> first] \in [0 .. 0 -> S] /\ Follows([k \in 0 .. 0 |-> first], 0)
      OBVIOUS
    <3> QED BY <3>1
  <2>2. ASSUME NEW n \in Some PROVE n + 1 \in Some
    <3>1. PICK h \in [0 .. n -> S] : Follows(h, n)
      OBVIOUS
    <3> DEFINE next == [k \in 0 .. n + 1 |-> IF k = n + 1 THEN pass[h[n]] ELSE h[k]]
    <3>2. next \in [0 .. n + 1 -> S]
      OBVIOUS
    <3>3. Follows(next, n + 1)
      <4>1. next[0] = first
        BY <3>1
      <4>2. ASSUME NEW k \in 1 .. n + 1 PROVE next[k] = pass[next[k - 1]]
        BY <3>1
      <4> HIDE DEF next
      <4> QED BY <4>1, <4>2
    <3> HIDE DEF next
    <3> QED BY <3>2, <3>3
  <2> HIDE DEF Some
  <2> QED BY <2>1, <2>2, FromZeroOn DEF Some
<1>2. ASSUME NEW n \in Nat, NEW m \in Nat, NEW h \in [0 .. n -> S], NEW i \in [0 .. m -> S],
             Follows(h, n), Follows(i, m), n <= m
      PROVE  \A k \in 0 .. n : h[k] = i[k]
  <2> DEFINE Same == {k \in Nat : k <= n => h[k] = i[k]}
  <2>1. 0 \in Same
    BY <1>2
  <2>2. ASSUME NEW k \in Same PROVE k + 1 \in Same
    <3>1. CASE k + 1 <= n
      <4>1. h[k + 1] = pass[h[k]] /\ i[k + 1] = pass[i[k]]
        BY <1>2, <3>1
      <4> QED BY <3>1, <4>1
    <3> QED BY <3>1
  <2>3. Same = Nat
    <3> HIDE DEF Same
    <3> QED BY <2>1, <2>2, FromZeroOn DEF Same
  <2>4. ASSUME NEW k \in 0 .. n PROVE h[k] = i[k]
    <3>1. k \in Nat
      OBVIOUS
    <3>2. k \in Same
      <4> HIDE DEF Same
      <4> QED BY <2>3, <3>1
    <3> QED BY <3>2
  <2> QED BY <2>4
<1> DEFINE upTo == [n \in Nat |-> CHOOSE h \in [0 .. n -> S] : Follows(h, n)]
           g == [n \in Nat |-> upTo[n][n]]
<1>3. \A n \in Nat : upTo[n] \in [0 .. n -> S] /\ Follows(upTo[n], n)
  BY <1>1
<1> HIDE DEF upTo
<1>4. g \in [Nat -> S]
  BY <1>3
<1>5. ASSUME NEW n \in Nat, n # 0 PROVE g[n] = pass[g[n - 1]]
  <2>1. n - 1 \in Nat /\ n \in 1 .. n /\ n - 1 <= n /\ n - 1 \in 0 .. n - 1
    BY <1>5
  <2>2. upTo[n][n] = pass[upTo[n][n - 1]]
    BY <1>3, <2>1
  <2>3. upTo[n - 1][n - 1] = upTo[n][n - 1]
    BY <1>2, <1>3, <2>1
  <2> QED BY <2>1, <2>2, <2>3
<1>6. g[0] = first
  BY <1>3
<1> HIDE DEF g
<1>7. \A n \in Nat : g[n + 1] = pass[g[n]]
  BY <1>5
<1> QED BY <1>4, <1>6, <1>7

-----------------------------------------------------------------------------
(* Time.                                                                   *)

LEMMA Days ==
  /\ DayLength \in Nat \ {0}
  /\ \A m \in Nat : /\ DayOf(m) \in Nat /\ At(DayOf(m), 0) <= m /\ m < At(DayOf(m) + 1, 0)
                    /\ m % DayLength = m - At(DayOf(m), 0)
  /\ \A d, m \in Nat : At(d, 0) <= m /\ m < At(d + 1, 0) => DayOf(m) = d
BY SlaAssumption DEF SlaAssumption, DayOf, At

LEMMA Moments ==
  \A d, m \in Nat : /\ At(d, m) \in Nat /\ At(d, m) = At(d, 0) + m
                    /\ At(d + 1, 0) = At(d, 0) + DayLength
BY SlaAssumption DEF SlaAssumption, At

IsOpen(cal, m) == cal.always \/ (WorkingDay(cal, DayOf(m)) /\ m % DayLength \in cal.open .. cal.close - 1)

\* The open minutes of a time that is cut in two.
LEMMA OpenAdds ==
  ASSUME NEW cal, NEW a \in Nat, NEW b \in Nat, NEW c \in Nat, a <= b, b <= c
  PROVE  /\ OpenMinutes(a, b, cal) \in Nat
         /\ OpenMinutes(a, c, cal) = OpenMinutes(a, b, cal) + OpenMinutes(b, c, cal)
<1> DEFINE O(i, j) == {m \in i .. j - 1 : IsOpen(cal, m)}
<1>1. \A i, j \in Nat : IsFiniteSet(O(i, j)) /\ OpenMinutes(i, j, cal) = Cardinality(O(i, j))
  <2> SUFFICES ASSUME NEW i \in Nat, NEW j \in Nat
               PROVE  IsFiniteSet(O(i, j)) /\ OpenMinutes(i, j, cal) = Cardinality(O(i, j))
    OBVIOUS
  <2>1. IsFiniteSet(i .. j - 1)
    <3>1. i \in Int /\ j - 1 \in Int
      OBVIOUS
    <3> QED BY <3>1, FS_Interval
  <2>2. OpenMinutes(i, j, cal) = Cardinality(O(i, j))
    BY DEF OpenMinutes, IsOpen
  <2>3. O(i, j) \subseteq i .. j - 1
    OBVIOUS
  <2> QED BY <2>1, <2>2, <2>3, FS_Subset
<1>2. O(a, c) = O(a, b) \cup O(b, c) /\ O(a, b) \cap O(b, c) = {}
  OBVIOUS
<1> HIDE DEF O
<1>3. Cardinality(O(a, c)) = Cardinality(O(a, b)) + Cardinality(O(b, c)) - Cardinality(O(a, b) \cap O(b, c))
  BY <1>1, <1>2, FS_Union
<1>4. Cardinality(O(a, b) \cap O(b, c)) = 0
  BY <1>2, FS_EmptySet
<1>5. \A i, j \in Nat : Cardinality(O(i, j)) \in Nat
  BY <1>1, FS_CardinalityType
<1> QED BY <1>1, <1>3, <1>4, <1>5

LEMMA OpenType == \A cal : \A a, b \in Nat : a <= b => OpenMinutes(a, b, cal) \in Nat
<1> SUFFICES ASSUME NEW cal, NEW a \in Nat, NEW b \in Nat, a <= b PROVE OpenMinutes(a, b, cal) \in Nat
  OBVIOUS
<1>1. b <= b
  OBVIOUS
<1> QED BY <1>1, OpenAdds

LEMMA OpenSum ==
  \A cal : \A a, b, c \in Nat :
    a <= b /\ b <= c => OpenMinutes(a, c, cal) = OpenMinutes(a, b, cal) + OpenMinutes(b, c, cal)
BY OpenAdds

\* A time without open minutes, and one with nothing but open minutes.
LEMMA OpenNone ==
  ASSUME NEW cal, NEW a \in Nat, NEW b \in Nat, \A m \in a .. b - 1 : ~IsOpen(cal, m)
  PROVE  OpenMinutes(a, b, cal) = 0
<1>1. {m \in a .. b - 1 : IsOpen(cal, m)} = {}
  OBVIOUS
<1> QED BY <1>1, FS_EmptySet DEF OpenMinutes, IsOpen

LEMMA OpenAll ==
  ASSUME NEW cal, NEW a \in Nat, NEW b \in Nat, a <= b, \A m \in a .. b - 1 : IsOpen(cal, m)
  PROVE  OpenMinutes(a, b, cal) = b - a
<1>1. {m \in a .. b - 1 : IsOpen(cal, m)} = a .. b - 1
  OBVIOUS
<1>2. Cardinality(a .. b - 1) = b - a
  <2>1. a \in Int /\ b - 1 \in Int
    OBVIOUS
  <2>2. Cardinality(a .. b - 1) = IF a > b - 1 THEN 0 ELSE (b - 1) - a + 1
    BY <2>1, FS_Interval
  <2> QED BY <2>2
<1> QED BY <1>1, <1>2 DEF OpenMinutes, IsOpen

(* One day.                                                                *)

\* Where the open minutes of the day begin, from a moment on, and how many they are.
Opens(at, cal) == LET opening == At(DayOf(at), cal.open) IN IF at < opening THEN opening ELSE at
Remain(at, cal) ==
  LET closing == At(DayOf(at), cal.close)
  IN  IF WorkingDay(cal, DayOf(at)) /\ Opens(at, cal) < closing THEN closing - Opens(at, cal) ELSE 0

LEMMA OpenOfDay ==
  ASSUME NEW cal \in Calendar, ~cal.always, NEW at \in Nat
  PROVE  /\ Opens(at, cal) \in Nat /\ at <= Opens(at, cal) /\ Remain(at, cal) \in Nat
         /\ At(DayOf(at) + 1, 0) \in Nat /\ at <= At(DayOf(at) + 1, 0)
         /\ OpenMinutes(at, At(DayOf(at) + 1, 0), cal) = Remain(at, cal)
         /\ \A k \in 0 .. Remain(at, cal) :
              0 < Remain(at, cal) => OpenMinutes(at, Opens(at, cal) + k, cal) = k
<1> DEFINE d == DayOf(at)
           from == Opens(at, cal)
           next == At(d + 1, 0)
           to == At(d, cal.close)
<1>1. d \in Nat /\ At(d, 0) \in Nat /\ At(d, 0) <= at /\ at < next /\ next = At(d, 0) + DayLength /\ DayLength \in Nat
  BY Days, Moments
<1>2. cal.open \in 0 .. DayLength /\ cal.close \in 0 .. DayLength /\ cal.open \in Nat /\ cal.close \in Nat
  BY <1>1 DEF Calendar
<1>3. At(d, cal.open) = At(d, 0) + cal.open /\ to = At(d, 0) + cal.close
  <2> HIDE DEF d
  <2> QED BY <1>1, <1>2, Moments
<1>4. from = IF at < At(d, cal.open) THEN At(d, cal.open) ELSE at
  BY DEF Opens
<1>5. Remain(at, cal) = IF WorkingDay(cal, d) /\ from < to THEN to - from ELSE 0
  BY DEF Remain
<1>6. \A m \in at .. next - 1 : IsOpen(cal, m) <=> WorkingDay(cal, d) /\ from <= m /\ m < to
  <2> SUFFICES ASSUME NEW m \in at .. next - 1
               PROVE  IsOpen(cal, m) <=> WorkingDay(cal, d) /\ from <= m /\ m < to
    OBVIOUS
  <2>1. m \in Nat /\ At(d, 0) <= m /\ m < next
    BY <1>1
  <2>2. DayOf(m) = d /\ m % DayLength = m - At(d, 0)
    BY <1>1, <2>1, Days
  <2> HIDE DEF d, from, next, to
  <2>3. m % DayLength \in cal.open .. cal.close - 1 <=> from <= m /\ m < to
    BY <1>1, <1>2, <1>3, <1>4, <2>1, <2>2
  <2> QED BY <2>2, <2>3 DEF IsOpen
<1> HIDE DEF d, from, next, to
<1>7. from \in Nat /\ at <= from /\ from <= next /\ to \in Nat /\ to <= next /\ next \in Nat
  BY <1>1, <1>2, <1>3, <1>4
<1>8. CASE WorkingDay(cal, d) /\ from < to
  <2>1. Remain(at, cal) = to - from
    BY <1>5, <1>8
  <2>2. OpenMinutes(at, from, cal) = 0
    BY <1>6, <1>7, OpenNone
  <2>3. OpenMinutes(to, next, cal) = 0
    BY <1>6, <1>7, <1>8, OpenNone
  <2>4. ASSUME NEW k \in 0 .. to - from PROVE OpenMinutes(at, from + k, cal) = k
    <3>1. from + k \in Nat /\ from <= from + k /\ from + k <= to
      BY <1>7
    <3>2. \A m \in from .. (from + k) - 1 : IsOpen(cal, m)
      BY <1>6, <1>7, <1>8, <3>1
    <3>3. OpenMinutes(from, from + k, cal) = k
      BY <1>7, <3>1, <3>2, OpenAll
    <3> QED BY <1>7, <2>2, <3>1, <3>3, OpenAdds
  <2>5. OpenMinutes(at, to, cal) = to - from
    <3>1. to - from \in 0 .. to - from /\ from + (to - from) = to
      BY <1>7, <1>8
    <3> QED BY <2>4, <3>1
  <2>6. OpenMinutes(at, next, cal) = to - from
    BY <1>7, <1>8, <2>3, <2>5, OpenAdds
  <2> QED BY <1>1, <1>7, <1>8, <2>1, <2>4, <2>6 DEF d, from, next
<1>9. CASE ~ (WorkingDay(cal, d) /\ from < to)
  <2>1. Remain(at, cal) = 0
    BY <1>5, <1>9
  <2>2. \A m \in at .. next - 1 : ~IsOpen(cal, m)
    BY <1>6, <1>7, <1>9
  <2>3. OpenMinutes(at, next, cal) = 0
    BY <1>7, <2>2, OpenNone
  <2> QED BY <1>1, <1>7, <2>1, <2>3 DEF d, from, next
<1> QED BY <1>8, <1>9

-----------------------------------------------------------------------------
(* The passes.                                                             *)

Cursor == [at : Nat, remaining : Nat, due : Nat \cup {GivesUp}]

LEMMA PassType ==
  ASSUME NEW cal \in Calendar, ~cal.always, NEW s \in Cursor
  PROVE  /\ Pass(s, cal) \in Cursor
         /\ Pass(s, cal) = CASE s.due # GivesUp -> s
                             [] s.due = GivesUp /\ 0 < Remain(s.at, cal) /\ s.remaining <= Remain(s.at, cal) ->
                                  [s EXCEPT !.due = Opens(s.at, cal) + s.remaining]
                             [] OTHER -> [s EXCEPT !.at = At(DayOf(s.at) + 1, 0), !.remaining = @ - Remain(s.at, cal)]
<1>1. s.at \in Nat /\ s.remaining \in Nat /\ s.due \in Nat \cup {GivesUp}
  BY DEF Cursor
<1>2. /\ Opens(s.at, cal) \in Nat /\ Remain(s.at, cal) \in Nat /\ At(DayOf(s.at) + 1, 0) \in Nat
  BY <1>1, OpenOfDay
<1>3. Pass(s, cal) = CASE s.due # GivesUp -> s
                       [] s.due = GivesUp /\ 0 < Remain(s.at, cal) /\ s.remaining <= Remain(s.at, cal) ->
                            [s EXCEPT !.due = Opens(s.at, cal) + s.remaining]
                       [] OTHER -> [s EXCEPT !.at = At(DayOf(s.at) + 1, 0), !.remaining = @ - Remain(s.at, cal)]
  BY DEF Pass, Opens, Remain
<1>4. CASE s.due # GivesUp
  BY <1>3, <1>4
<1>5. CASE s.due = GivesUp /\ 0 < Remain(s.at, cal) /\ s.remaining <= Remain(s.at, cal)
  <2>1. Pass(s, cal) = [s EXCEPT !.due = Opens(s.at, cal) + s.remaining]
    BY <1>3, <1>5
  <2> QED BY <1>1, <1>2, <1>3, <2>1 DEF Cursor
<1>6. CASE s.due = GivesUp /\ ~(0 < Remain(s.at, cal) /\ s.remaining <= Remain(s.at, cal))
  <2>1. Pass(s, cal) = [s EXCEPT !.at = At(DayOf(s.at) + 1, 0), !.remaining = @ - Remain(s.at, cal)]
    BY <1>3, <1>6
  <2>2. s.remaining - Remain(s.at, cal) \in Nat
    BY <1>1, <1>2, <1>6
  <2> QED BY <1>1, <1>2, <1>3, <2>1, <2>2 DEF Cursor
<1> QED BY <1>4, <1>5, <1>6

\* What a cursor says of the open minutes since the start.
Counts(s, start, minutes, cal) ==
  /\ s \in Cursor
  /\ s.due = GivesUp => start <= s.at /\ OpenMinutes(start, s.at, cal) + s.remaining = minutes
  /\ s.due # GivesUp => start <= s.due /\ OpenMinutes(start, s.due, cal) = minutes

LEMMA PassCounts ==
  ASSUME NEW cal \in Calendar, ~cal.always, NEW start \in Nat, NEW minutes \in Nat, NEW s, Counts(s, start, minutes, cal)
  PROVE  Counts(Pass(s, cal), start, minutes, cal)
<1> DEFINE next == At(DayOf(s.at) + 1, 0)
           rest == Remain(s.at, cal)
           due == Opens(s.at, cal) + s.remaining
<1>1. s \in Cursor /\ s.at \in Nat /\ s.remaining \in Nat
  BY DEF Counts, Cursor
<1>2. /\ rest \in Nat /\ next \in Nat /\ s.at <= next /\ Opens(s.at, cal) \in Nat /\ s.at <= Opens(s.at, cal)
      /\ OpenMinutes(s.at, next, cal) = rest
      /\ \A k \in 0 .. rest : 0 < rest => OpenMinutes(s.at, Opens(s.at, cal) + k, cal) = k
  BY <1>1, OpenOfDay
<1>3. Pass(s, cal) \in Cursor
  BY <1>1, PassType
<1>4. Pass(s, cal) = CASE s.due # GivesUp -> s
                       [] s.due = GivesUp /\ 0 < rest /\ s.remaining <= rest -> [s EXCEPT !.due = due]
                       [] OTHER -> [s EXCEPT !.at = next, !.remaining = @ - rest]
  BY <1>1, PassType
<1> HIDE DEF next, rest
<1>5. CASE s.due # GivesUp
  BY <1>4, <1>5
<1>6. CASE s.due = GivesUp /\ 0 < rest /\ s.remaining <= rest
  <2>1. Pass(s, cal) = [s EXCEPT !.due = due] /\ due \in Nat /\ s.at <= due
    BY <1>1, <1>2, <1>4, <1>6
  <2>2. OpenMinutes(s.at, due, cal) = s.remaining
    BY <1>1, <1>2, <1>6
  <2> HIDE DEF due
  <2>3. start <= s.at /\ OpenMinutes(start, s.at, cal) + s.remaining = minutes
    BY <1>6 DEF Counts
  <2>4. OpenMinutes(start, due, cal) = minutes /\ start <= due
    BY <1>1, <2>1, <2>2, <2>3, OpenAdds
  <2>5. Pass(s, cal).due = due /\ due # GivesUp
    BY <1>1, <2>1 DEF Cursor, GivesUp
  <2> QED BY <1>3, <2>4, <2>5 DEF Counts
<1>7. CASE s.due = GivesUp /\ ~ (0 < rest /\ s.remaining <= rest)
  <2>1. Pass(s, cal) = [s EXCEPT !.at = next, !.remaining = @ - rest]
    BY <1>4, <1>7
  <2>2. start <= s.at /\ OpenMinutes(start, s.at, cal) + s.remaining = minutes
    BY <1>7 DEF Counts
  <2>3. OpenMinutes(start, next, cal) = OpenMinutes(start, s.at, cal) + rest /\ OpenMinutes(start, s.at, cal) \in Nat
    BY <1>1, <1>2, <2>2, OpenAdds
  <2>4. Pass(s, cal).due = GivesUp /\ Pass(s, cal).at = next /\ Pass(s, cal).remaining = s.remaining - rest
    BY <1>1, <1>7, <2>1 DEF Cursor
  <2>5. start <= next /\ OpenMinutes(start, next, cal) + (s.remaining - rest) = minutes
    BY <1>1, <1>2, <2>2, <2>3
  <2> QED BY <1>3, <2>4, <2>5 DEF Counts
<1> QED BY <1>5, <1>6, <1>7

LEMMA CursorLoop ==
  ASSUME NEW begin \in Cursor, NEW round \in [Cursor -> Cursor]
  PROVE  \E g \in [Nat -> Cursor] : g[0] = begin /\ \A n \in Nat : g[n + 1] = round[g[n]]
BY LoopExists

\* The passes of the loop, one after the other.
Passes(g, start, minutes, cal) ==
  /\ g \in [Nat -> Cursor]
  /\ g[0] = [at |-> start, remaining |-> minutes, due |-> GivesUp]
  /\ \A n \in Nat : g[n + 1] = Pass(g[n], cal)
  /\ \A n \in Nat : Counts(g[n], start, minutes, cal)
  /\ AddOperationalMinutes(start, minutes, cal) = g[DayLimit].due

LEMMA PassesRun ==
  ASSUME NEW cal \in Calendar, ~cal.always, NEW start \in Nat, NEW minutes \in Nat
  PROVE  \E g : Passes(g, start, minutes, cal)
<1> DEFINE begin == [at |-> start, remaining |-> minutes, due |-> GivesUp]
           round == [s \in Cursor |-> Pass(s, cal)]
           Loop(g) == g = [n \in Nat |-> IF n = 0 THEN begin ELSE Pass(g[n - 1], cal)]
           passes == CHOOSE g : Loop(g)
<1>1. begin \in Cursor /\ Counts(begin, start, minutes, cal)
  <2>1. begin \in Cursor
    BY DEF Cursor
  <2>2. OpenMinutes(start, start, cal) = 0
    BY OpenNone
  <2> QED BY <2>1, <2>2 DEF Counts
<1>2. round \in [Cursor -> Cursor]
  BY PassType
<1>3. PICK g \in [Nat -> Cursor] : g[0] = begin /\ \A n \in Nat : g[n + 1] = round[g[n]]
  <2> HIDE DEF begin, round, Loop, passes
  <2>1. begin \in Cursor
    BY <1>1
  <2> QED BY <2>1, <1>2, CursorLoop
<1>4. Loop(g)
  <2> HIDE DEF begin
  <2>1. ASSUME NEW n \in Nat, n # 0 PROVE g[n] = Pass(g[n - 1], cal)
    <3>1. n - 1 \in Nat /\ (n - 1) + 1 = n
      BY <2>1
    <3>2. g[(n - 1) + 1] = round[g[n - 1]] /\ g[n - 1] \in Cursor
      BY <1>3, <3>1
    <3> QED BY <3>1, <3>2
  <2> QED BY <1>3, <2>1
<1>5. Loop(passes)
  <2> HIDE DEF Loop
  <2> QED BY <1>4
<1>6. passes[0] = begin /\ \A n \in Nat : passes[n + 1] = Pass(passes[n], cal)
  <2> HIDE DEF passes, begin
  <2> QED BY <1>5
<1>7. AddOperationalMinutes(start, minutes, cal) = passes[DayLimit].due
  BY DEF AddOperationalMinutes
<1> DEFINE Good == {n \in Nat : Counts(passes[n], start, minutes, cal)}
<1>8. Good = Nat
  <2> HIDE DEF passes, begin
  <2>1. 0 \in Good
    BY <1>1, <1>6
  <2>2. ASSUME NEW n \in Good PROVE n + 1 \in Good
    BY <1>6, PassCounts
  <2> HIDE DEF Good
  <2> QED BY <2>1, <2>2, FromZeroOn DEF Good
<1>9. \A n \in Nat : Counts(passes[n], start, minutes, cal)
  <2>1. \A n \in Nat : n \in Good
    <3> HIDE DEF Good
    <3> QED BY <1>8
  <2> QED BY <2>1
<1>10. passes \in [Nat -> Cursor]
  <2> HIDE DEF passes, Loop
  <2>1. passes = [n \in Nat |-> IF n = 0 THEN begin ELSE Pass(passes[n - 1], cal)]
    BY <1>5 DEF Loop
  <2>2. \A n \in Nat : passes[n] \in Cursor
    BY <1>9 DEF Counts
  <2> HIDE DEF begin
  <2> QED BY <2>1, <2>2
<1> HIDE DEF passes
<1> QED BY <1>6, <1>7, <1>9, <1>10 DEF Passes

\* A date that is given has, from the start on, just the open minutes that were added.
THEOREM DueIsReached ==
  ASSUME NEW cal \in Calendar, NEW start \in Nat, NEW minutes \in Nat,
         AddOperationalMinutes(start, minutes, cal) # GivesUp
  PROVE  /\ AddOperationalMinutes(start, minutes, cal) \in Nat
         /\ start <= AddOperationalMinutes(start, minutes, cal)
         /\ OpenMinutes(start, AddOperationalMinutes(start, minutes, cal), cal) = minutes
<1>1. CASE cal.always
  <2>1. AddOperationalMinutes(start, minutes, cal) = start + minutes
    BY <1>1 DEF AddOperationalMinutes
  <2>2. OpenMinutes(start, start + minutes, cal) = (start + minutes) - start
    BY <1>1, OpenAll DEF IsOpen
  <2> QED BY <2>1, <2>2
<1>2. CASE ~cal.always
  <2>1. PICK g : Passes(g, start, minutes, cal)
    BY <1>2, PassesRun
  <2>2. DayLimit \in Nat
    BY SlaAssumption DEF SlaAssumption
  <2>3. Counts(g[DayLimit], start, minutes, cal) /\ AddOperationalMinutes(start, minutes, cal) = g[DayLimit].due
    BY <2>1, <2>2 DEF Passes
  <2> QED BY <2>3 DEF Counts, Cursor
<1> QED BY <1>1, <1>2

\* A week has a working day, and that day the minutes from open to close.
LEMMA WeekHas ==
  ASSUME NEW a \in Nat, NEW d \in 0 .. Week - 1
  PROVE  \E i \in 0 .. Week - 1 : (a + i) % Week = d
<1> DEFINE r == a % Week
           i == IF r <= d THEN d - r ELSE (d - r) + Week
<1>1. Week \in Nat \ {0}
  BY SlaAssumption DEF SlaAssumption
<1>2. r \in 0 .. Week - 1 /\ a = Week * (a \div Week) + r /\ a \div Week \in Nat
  BY <1>1
<1>3. \A q \in Nat : (Week * q + d) % Week = d
  BY <1>1
<1>4. i \in 0 .. Week - 1
  BY <1>1, <1>2
<1>5. a + i = Week * (a \div Week) + d \/ a + i = Week * ((a \div Week) + 1) + d
  BY <1>1, <1>2
<1> QED BY <1>2, <1>3, <1>4, <1>5

Usable(cal) == ~cal.always /\ cal.days # {} /\ cal.open < cal.close

LEMMA WeekIsOpen ==
  ASSUME NEW cal \in Calendar, Usable(cal), NEW e \in Nat
  PROVE  cal.close - cal.open <= OpenMinutes(At(e, 0), At(e + Week, 0), cal)
<1> DEFINE w == cal.close - cal.open
<1>1. PICK d \in cal.days : d \in 0 .. Week - 1
  BY DEF Calendar, Usable
<1>2. Week \in Nat \ {0} /\ DayLength \in Nat
  BY SlaAssumption DEF SlaAssumption
<1>3. PICK i \in 0 .. Week - 1 : (e + i) % Week = d
  BY <1>1, WeekHas
<1> DEFINE f == e + i
           at == At(f, 0)
<1>4. f \in Nat /\ e <= f /\ f + 1 <= e + Week /\ f + 1 \in Nat /\ e + Week \in Nat
  BY <1>2, <1>3
<1> HIDE DEF f
<1>5. at \in Nat /\ At(f + 1, 0) = at + DayLength /\ cal.open \in 0 .. DayLength /\ cal.close \in 0 .. DayLength
  BY <1>4, Moments DEF Calendar
<1>6. DayOf(at) = f
  <2>1. at < At(f + 1, 0)
    BY <1>5, SlaAssumption DEF SlaAssumption
  <2> QED BY <1>4, <1>5, <2>1, Days
<1>7. At(f, cal.open) = at + cal.open /\ At(f, cal.close) = at + cal.close
  <2>1. cal.open \in Nat /\ cal.close \in Nat
    BY <1>2, <1>5
  <2> QED BY <1>4, <2>1, Moments
<1>8. WorkingDay(cal, f)
  BY <1>1, <1>3 DEF WorkingDay, f
<1>9. Remain(at, cal) = w
  <2> HIDE DEF at
  <2>1. cal.open < cal.close
    BY DEF Usable
  <2> QED BY <1>5, <1>6, <1>7, <1>8, <2>1 DEF Remain, Opens
<1>10. OpenMinutes(at, At(f + 1, 0), cal) = w
  BY <1>5, <1>6, <1>9, OpenOfDay DEF Usable
<1>11. At(e, 0) \in Nat /\ At(e + Week, 0) \in Nat /\ At(e, 0) <= at /\ At(f + 1, 0) <= At(e + Week, 0)
       /\ at <= At(f + 1, 0) /\ At(f + 1, 0) \in Nat
  BY <1>2, <1>4, <1>5 DEF At
<1> HIDE DEF at, w
<1>12. /\ OpenMinutes(At(e, 0), At(e + Week, 0), cal)
            = OpenMinutes(At(e, 0), at, cal) + OpenMinutes(at, At(e + Week, 0), cal)
       /\ OpenMinutes(at, At(e + Week, 0), cal)
            = OpenMinutes(at, At(f + 1, 0), cal) + OpenMinutes(At(f + 1, 0), At(e + Week, 0), cal)
       /\ OpenMinutes(At(e, 0), at, cal) \in Nat /\ OpenMinutes(At(f + 1, 0), At(e + Week, 0), cal) \in Nat
  <2>1. at <= At(e + Week, 0) /\ at \in Nat
    BY <1>5, <1>11
  <2> QED BY <1>11, <2>1, OpenSum, OpenType
<1>13. w \in Nat
  BY <1>5 DEF Usable, w
<1> QED BY <1>10, <1>12, <1>13 DEF w

LEMMA WeeksAreOpen ==
  ASSUME NEW cal \in Calendar, Usable(cal), NEW e \in Nat, NEW k \in Nat
  PROVE  /\ At(e, 0) <= At(e + k * Week, 0)
         /\ k * (cal.close - cal.open) <= OpenMinutes(At(e, 0), At(e + k * Week, 0), cal)
<1> DEFINE w == cal.close - cal.open
           to(j) == At(e + j * Week, 0)
           Long == {j \in Nat : At(e, 0) <= to(j) /\ j * w <= OpenMinutes(At(e, 0), to(j), cal)}
<1>1. w \in Nat /\ Week \in Nat
  BY SlaAssumption DEF SlaAssumption, Calendar, Usable
<1>2. \A j \in Nat : j * Week \in Nat /\ e + j * Week \in Nat /\ to(j) \in Nat
  <2> SUFFICES ASSUME NEW j \in Nat PROVE j * Week \in Nat /\ e + j * Week \in Nat /\ to(j) \in Nat
    OBVIOUS
  <2>1. j * Week \in Nat
    BY <1>1
  <2>2. e + j * Week \in Nat
    BY <2>1
  <2> QED BY <2>1, <2>2, Moments
<1>3. 0 \in Long
  <2>1. to(0) = At(e, 0) /\ 0 * w = 0 /\ At(e, 0) \in Nat
    <3>1. 0 * Week = 0 /\ 0 * w = 0 /\ e + 0 = e
      BY <1>1
    <3>2. At(e, 0) \in Nat
      BY Moments
    <3> HIDE DEF w
    <3> QED BY <3>1, <3>2
  <2>2. OpenMinutes(At(e, 0), At(e, 0), cal) \in Nat
    BY <2>1, OpenType
  <2> QED BY <2>1, <2>2
<1>4. ASSUME NEW j \in Long PROVE j + 1 \in Long
  <2>1. to(j + 1) = At((e + j * Week) + Week, 0) /\ (j + 1) * w = j * w + w /\ j * w \in Nat
    BY <1>1
  <2>2. to(j) <= to(j + 1) /\ to(j) \in Nat /\ to(j + 1) \in Nat /\ At(e, 0) \in Nat /\ At(e, 0) <= to(j)
    <3>1. to(j) <= to(j + 1)
      BY <1>1, <1>2, <2>1, SlaAssumption DEF At, SlaAssumption
    <3> QED BY <1>2, <3>1, Moments
  <2>3. w <= OpenMinutes(to(j), to(j + 1), cal)
    BY <1>2, <2>1, WeekIsOpen
  <2>4. j * w <= OpenMinutes(At(e, 0), to(j), cal)
    OBVIOUS
  <2> HIDE DEF w, to
  <2>5. /\ OpenMinutes(At(e, 0), to(j + 1), cal) = OpenMinutes(At(e, 0), to(j), cal) + OpenMinutes(to(j), to(j + 1), cal)
        /\ OpenMinutes(At(e, 0), to(j), cal) \in Nat /\ OpenMinutes(to(j), to(j + 1), cal) \in Nat
    BY <2>2, OpenSum, OpenType
  <2>6. (j + 1) * w <= OpenMinutes(At(e, 0), to(j + 1), cal) /\ At(e, 0) <= to(j + 1)
    BY <1>1, <2>1, <2>2, <2>3, <2>4, <2>5
  <2> QED BY <2>6
<1>5. k \in Long
  <2> HIDE DEF Long
  <2>1. Long = Nat
    BY <1>3, <1>4, FromZeroOn DEF Long
  <2> QED BY <2>1
<1> QED BY <1>5

\* The loop of add_operational_minutes gives up ("SLA calendar has no usable operational
\* time") on no calendar that opens, unless the minutes fill the weeks it looks at.
THEOREM DateIsGiven ==
  ASSUME NEW cal \in Calendar, Usable(cal), NEW start \in Nat, NEW minutes \in Nat, NEW weeks \in Nat,
         weeks * Week < DayLimit, minutes < weeks * (cal.close - cal.open)
  PROVE  AddOperationalMinutes(start, minutes, cal) # GivesUp
<1> SUFFICES ASSUME AddOperationalMinutes(start, minutes, cal) = GivesUp PROVE FALSE
  OBVIOUS
<1> DEFINE day == DayOf(start)
<1>1. /\ DayLimit \in Nat /\ Week \in Nat /\ day \in Nat /\ start <= At(day + 1, 0) /\ weeks * Week \in Nat
      /\ DayLength \in Nat \ {0}
  <2>1. DayLimit \in Nat /\ Week \in Nat /\ DayLength \in Nat \ {0}
    BY SlaAssumption DEF SlaAssumption
  <2>2. day \in Nat /\ start < At(day + 1, 0)
    BY Days
  <2>3. day + 1 \in Nat /\ weeks * Week \in Nat
    BY <2>1, <2>2
  <2>4. At(day + 1, 0) \in Nat
    BY <2>3, Moments
  <2> QED BY <2>1, <2>2, <2>3, <2>4
<1>2. PICK g : Passes(g, start, minutes, cal)
  BY PassesRun DEF Usable
<1> DEFINE Steady == {n \in Nat : g[n].due = GivesUp => DayOf(g[n].at) = day + n /\ (n # 0 => g[n].at = At(day + n, 0))}
<1>3. 0 \in Steady
  BY <1>1, <1>2 DEF Passes
<1>4. ASSUME NEW n \in Steady PROVE n + 1 \in Steady
  <2> SUFFICES ASSUME g[n + 1].due = GivesUp
               PROVE  DayOf(g[n + 1].at) = day + (n + 1) /\ g[n + 1].at = At(day + (n + 1), 0)
    OBVIOUS
  <2>1. g[n] \in Cursor /\ g[n].at \in Nat /\ g[n + 1] = Pass(g[n], cal)
    BY <1>2 DEF Passes, Cursor
  <2>2. g[n + 1] = CASE g[n].due # GivesUp -> g[n]
                     [] g[n].due = GivesUp /\ 0 < Remain(g[n].at, cal) /\ g[n].remaining <= Remain(g[n].at, cal) ->
                          [g[n] EXCEPT !.due = Opens(g[n].at, cal) + g[n].remaining]
                     [] OTHER -> [g[n] EXCEPT !.at = At(DayOf(g[n].at) + 1, 0), !.remaining = @ - Remain(g[n].at, cal)]
    BY <2>1, PassType DEF Usable
  <2>3. g[n].due = GivesUp /\ g[n + 1].at = At(DayOf(g[n].at) + 1, 0)
    <3>1. Opens(g[n].at, cal) + g[n].remaining \in Nat
      <4>1. g[n].remaining \in Nat
        BY <2>1 DEF Cursor
      <4>2. Opens(g[n].at, cal) \in Nat
        BY <2>1, OpenOfDay DEF Usable
      <4> QED BY <4>1, <4>2
    <3> QED BY <2>1, <2>2, <3>1 DEF Cursor, GivesUp
  <2>4. DayOf(g[n].at) = day + n
    BY <2>3
  <2> HIDE DEF day
  <2>5. day + (n + 1) \in Nat /\ (day + n) + 1 = day + (n + 1)
    BY <1>1
  <2>6. g[n + 1].at = At(day + (n + 1), 0)
    BY <2>3, <2>4, <2>5
  <2>7. /\ At(day + (n + 1), 0) \in Nat
        /\ At((day + (n + 1)) + 1, 0) = At(day + (n + 1), 0) + DayLength
    BY <2>5, Moments
  <2>8. DayOf(At(day + (n + 1), 0)) = day + (n + 1)
    <3>1. At(day + (n + 1), 0) < At((day + (n + 1)) + 1, 0)
      BY <1>1, <2>7
    <3> QED BY <2>5, <2>7, <3>1, Days
  <2> QED BY <2>6, <2>8
<1>5. DayLimit # 0 /\ g[DayLimit].due = GivesUp /\ g[DayLimit].at = At(day + DayLimit, 0)
  <2>1. DayLimit # 0 /\ g[DayLimit].due = GivesUp
    BY <1>1, <1>2 DEF Passes
  <2>2. DayLimit \in Steady
    <3> HIDE DEF Steady
    <3>1. Steady = Nat
      BY <1>3, <1>4, FromZeroOn DEF Steady
    <3> QED BY <1>1, <3>1
  <2> QED BY <2>1, <2>2
<1> DEFINE from == At(day + 1, 0)
           to == At((day + 1) + weeks * Week, 0)
           end == At(day + DayLimit, 0)
           w == cal.close - cal.open
<1>6. OpenMinutes(start, end, cal) <= minutes
  <2>1. Counts(g[DayLimit], start, minutes, cal)
    BY <1>1, <1>2 DEF Passes
  <2>2. OpenMinutes(start, end, cal) + g[DayLimit].remaining = minutes /\ g[DayLimit].remaining \in Nat
        /\ start \in Nat /\ end \in Nat /\ start <= end
    BY <1>5, <2>1 DEF Counts, Cursor
  <2>3. OpenMinutes(start, end, cal) \in Nat
    BY <2>2, OpenType
  <2> QED BY <2>2, <2>3
<1>7. weeks * w <= OpenMinutes(from, to, cal) /\ from <= to
  <2>1. day + 1 \in Nat
    BY <1>1
  <2> HIDE DEF day
  <2> QED BY <2>1, WeeksAreOpen
<1>8. from \in Nat /\ to \in Nat /\ end \in Nat /\ to <= end /\ start <= from
  <2>1. day + 1 \in Nat /\ (day + 1) + weeks * Week \in Nat /\ day + DayLimit \in Nat
        /\ (day + 1) + weeks * Week <= day + DayLimit
    BY <1>1
  <2>2. \A a, b \in Nat : a <= b => At(a, 0) <= At(b, 0)
    BY <1>1 DEF At
  <2> HIDE DEF day
  <2> QED BY <1>1, <2>1, <2>2, Moments
<1> HIDE DEF from, to, end
<1>9. /\ OpenMinutes(start, end, cal) = OpenMinutes(start, from, cal) + OpenMinutes(from, end, cal)
      /\ OpenMinutes(from, end, cal) = OpenMinutes(from, to, cal) + OpenMinutes(to, end, cal)
      /\ OpenMinutes(start, from, cal) \in Nat /\ OpenMinutes(from, to, cal) \in Nat /\ OpenMinutes(to, end, cal) \in Nat
  <2>1. from <= end
    BY <1>7, <1>8
  <2> QED BY <1>7, <1>8, <2>1, OpenSum, OpenType
<1>10. weeks * w \in Int
  <2>1. w \in Int
    BY <1>1 DEF Calendar
  <2> QED BY <2>1
<1> HIDE DEF w
<1> QED BY <1>6, <1>7, <1>9, <1>10 DEF w

-----------------------------------------------------------------------------
(* People, and whom the routing chooses.                                   *)

LEMMA TeamWritten ==
  ASSUME NEW old \in Team, NEW new \in Team, NEW row \in Team
  PROVE  Written(old, Writes(old, new)) = new /\ Written(row, Writes(old, new)) \in Team
BY DEF Written, Writes, Team

PeopleInv ==
  /\ staff \in [Staff -> [active : BOOLEAN, available : BOOLEAN]]
  /\ team \in [Teams -> Team] /\ strayed \subseteq Rules
  /\ \A t \in inflight : t.kind = "team" => t.team \in Teams /\ \A row \in Team : Written(row, t.writes) \in Team

LEMMA InitPeople == RoutingInit => PeopleInv
<1> SUFFICES ASSUME RoutingInit PROVE PeopleInv
  OBVIOUS
<1>1. team \in [Teams -> Team]
  BY DEF RoutingInit, Team
<1> QED BY <1>1 DEF RoutingInit, PeopleInv

LEMMA StepPeople == ASSUME RoutingInv, PeopleInv, Organize \/ Apart PROVE PeopleInv'
<1>1. CASE Apart
  BY <1>1 DEF Apart, PeopleInv
<1>2. CASE Administration
  <2>1. staff' = staff /\ team' = team
    BY <1>2, AdministrationBegins DEF BeginAdministration
  <2>2. ASSUME NEW r \in Rules, NEW new, NEW snapshot, NEW astray, BeginRule(r, new, snapshot, astray) PROVE PeopleInv'
    <3>1. PICK t : t.kind = "rule" /\ inflight' = inflight \cup {t}
      BY <2>2 DEF BeginRule, BeginAdministration, Begin
    <3>2. strayed' \subseteq strayed \cup {r}
      BY <2>2 DEF BeginRule, BeginAdministration
    <3> QED BY <2>1, <3>1, <3>2 DEF PeopleInv
  <2>3. ASSUME NEW q \in Queues, NEW new, NEW users \in SUBSET Rules, BeginQueue(q, new, users) PROVE PeopleInv'
    <3>1. PICK t : t.kind = "queue" /\ inflight' = inflight \cup {t}
      BY <2>3 DEF BeginQueue, BeginAdministration, Begin
    <3>2. strayed' \subseteq strayed \cup users \cup {o.rule : o \in {o \in inflight : o.kind = "rule" /\ o.queue = q}}
      BY <2>3 DEF BeginQueue, BeginAdministration
    <3>3. \A o \in inflight : o.kind = "rule" => o.rule \in Rules
      BY DEF RoutingInv, Rows, RowsSound
    <3>4. strayed' \subseteq Rules
      BY <3>2, <3>3 DEF PeopleInv
    <3> QED BY <2>1, <3>1, <3>4 DEF PeopleInv
  <2>4. ASSUME NEW k \in Teams, NEW M \in SUBSET Staff, NEW a \in BOOLEAN, UpdateTeam(k, M, a) PROVE PeopleInv'
    <3> DEFINE new == [active |-> a, members |-> {u \in M : staff[u].active}]
               t == [kind |-> "team", team |-> k, writes |-> Writes(team[k], new)]
    <3>1. inflight' = inflight \cup {t} /\ strayed' = strayed \cup {}
      BY <2>4 DEF UpdateTeam, BeginAdministration, Begin
    <3>2. new \in Team /\ team[k] \in Team
      BY DEF Team, PeopleInv
    <3>3. t.kind = "team" /\ t.team = k /\ t.writes = Writes(team[k], new)
      OBVIOUS
    <3> HIDE DEF t, new
    <3>4. \A row \in Team : Written(row, t.writes) \in Team
      BY <3>2, <3>3, TeamWritten
    <3> QED BY <2>1, <3>1, <3>3, <3>4 DEF PeopleInv
  <2>5. CASE \E r \in Rules : \/ \E new \in RuleEdits : SaveRule(r, new)
                              \/ \E v \in versions : v[1] = r /\ RollbackRule(r, v[2])
                              \/ ArchiveRule(r)
    BY <2>2, <2>5 DEF SaveRule, RollbackRule, ArchiveRule
  <2>6. CASE \E q \in Queues : ArchiveQueue(q) \/ \E new \in QueueEdits : UpdateQueue(q, new)
    <3>1. \E q \in Queues, users \in SUBSET Rules : \E new : BeginQueue(q, new, users)
      <4>1. PICK q \in Queues : ArchiveQueue(q) \/ \E new \in QueueEdits : UpdateQueue(q, new)
        BY <2>6
      <4>2. {} \in SUBSET Rules /\ UsersOf(q) \in SUBSET Rules
        BY DEF UsersOf
      <4>3. \E new : BeginQueue(q, new, {}) \/ BeginQueue(q, new, UsersOf(q))
        BY <4>1 DEF ArchiveQueue, UpdateQueue
      <4> HIDE DEF UsersOf
      <4> QED BY <4>2, <4>3
    <3> QED BY <2>3, <3>1
  <2> QED BY <1>2, <2>4, <2>5, <2>6 DEF Administration
<1>3. CASE \E u \in Staff : StaffChanges(u)
  <2>1. PICK u \in Staff : StaffChanges(u)
    BY <1>3
  <2>2. staff' \in [Staff -> [active : BOOLEAN, available : BOOLEAN]]
    <3>1. staff' = [staff EXCEPT ![u].available = ~@] \/ staff' = [staff EXCEPT ![u] = [active |-> FALSE, available |-> FALSE]]
      BY <2>1 DEF StaffChanges
    <3>2. CASE staff' = [staff EXCEPT ![u] = [active |-> FALSE, available |-> FALSE]]
      BY <3>2 DEF PeopleInv
    <3>3. CASE staff' = [staff EXCEPT ![u].available = ~@]
      BY <3>3 DEF PeopleInv
    <3> QED BY <3>1, <3>2, <3>3
  <2> QED BY <2>1, <2>2 DEF StaffChanges, PeopleInv
<1>4. CASE \E t \in inflight : t.kind \in {"rule", "queue", "team"} /\ CommitAdministration(t)
  <2>1. PICK t \in inflight : t.kind \in {"rule", "queue", "team"} /\ CommitAdministration(t)
    BY <1>4
  <2>2. inflight' \subseteq inflight /\ staff' = staff /\ strayed' = strayed
    BY <2>1 DEF CommitAdministration
  <2>3. team' \in [Teams -> Team]
    <3>1. CASE t.kind = "team"
      <4>1. t.team \in Teams /\ Written(team[t.team], t.writes) \in Team
        BY <3>1 DEF PeopleInv
      <4> QED BY <2>1, <3>1, <4>1 DEF CommitAdministration, PeopleInv
    <3>2. CASE t.kind # "team"
      BY <2>1, <3>2 DEF CommitAdministration, PeopleInv
    <3> QED BY <3>1, <3>2
  <2> QED BY <2>2, <2>3 DEF PeopleInv
<1> QED BY <1>1, <1>2, <1>3, <1>4 DEF Organize

\* Where a ticket goes: a team, one of the technicians or nobody, and whose turn it was.
Turn == {<<>>} \cup ((Queues \cup Teams) \X Staff)
Route == [team : Teams, assignee : Staff \cup {None}, turn : Turn]

LEMMA LeastIsIn == ASSUME NEW S \in SUBSET Nat, S # {} PROVE Least(S) \in S
<1>1. PICK m \in S : \A n \in S : ~ (<<n, m>> \in OpToRel(<, Nat))
  BY NatLessThanWellFounded, WFMin
<1>2. \A n \in S : m <= n
  <2> SUFFICES ASSUME NEW n \in S PROVE m <= n
    OBVIOUS
  <2>1. m \in Nat /\ n \in Nat /\ ~ (n < m)
    BY <1>1 DEF OpToRel
  <2> QED BY <2>1
<1> QED BY <1>2 DEF Least

LEMMA ChosenWorks ==
  ASSUME NEW S \in SUBSET Staff, NEW strategy, NEW key \in Queues \cup Teams, NEW load \in [Staff -> Nat], NEW last
  PROVE  Chosen(S, strategy, key, load, last) \in [assignee : Staff \cup {None}, turn : Turn]
<1>0. Staff \subseteq Nat
  BY RoutingAssumption DEF RoutingAssumption
<1>1. CASE S = {} \/ strategy = "manual"
  BY <1>1 DEF Chosen, Turn
<1>2. CASE S # {} /\ strategy = "least_active"
  <2> DEFINE least == Least({load[u] : u \in S})
  <2>1. least \in {load[u] : u \in S}
    <3>1. {load[u] : u \in S} \in SUBSET Nat /\ {load[u] : u \in S} # {}
      BY <1>2
    <3> QED BY <3>1, LeastIsIn
  <2> HIDE DEF least
  <2>2. {u \in S : load[u] = least} # {} /\ {u \in S : load[u] = least} \in SUBSET Nat
    BY <1>0, <2>1
  <2>3. Least({u \in S : load[u] = least}) \in S
    BY <2>2, LeastIsIn
  <2>4. LeastActive(S, load) \in Staff
    BY <2>3 DEF LeastActive, least
  <2>5. Chosen(S, strategy, key, load, last) = [assignee |-> LeastActive(S, load), turn |-> <<>>]
    BY <1>2 DEF Chosen
  <2> QED BY <2>4, <2>5 DEF Turn
<1>3. CASE ~ (S = {} \/ strategy = "manual") /\ ~ (S # {} /\ strategy = "least_active")
  <2> DEFINE u == NextInTurn(S, last[key])
  <2>1. u \in S
    <3>1. S \in SUBSET Nat /\ S # {} /\ Least(S) \in S
      BY <1>0, <1>3, LeastIsIn
    <3>2. \A p : (\E v \in S : v > p) => Least({v \in S : v > p}) \in S
      <4> SUFFICES ASSUME NEW p, \E v \in S : v > p PROVE Least({v \in S : v > p}) \in S
        OBVIOUS
      <4>1. {v \in S : v > p} \in SUBSET Nat /\ {v \in S : v > p} # {}
        BY <3>1
      <4> QED BY <4>1, LeastIsIn
    <3> QED BY <3>1, <3>2 DEF NextInTurn
  <2>2. Chosen(S, strategy, key, load, last) = [assignee |-> u, turn |-> <<key, u>>]
    BY <1>3 DEF Chosen
  <2> HIDE DEF u
  <2> QED BY <2>1, <2>2 DEF Turn
<1> QED BY <1>1, <1>2, <1>3

LEMMA RoutedWorks ==
  ASSUME NEW S \in SUBSET Staff, NEW strategy, NEW key \in Queues \cup Teams, NEW load \in [Staff -> Nat], NEW last,
         NEW t \in Teams
  PROVE  Routed(t, Chosen(S, strategy, key, load, last)) \in Route
BY ChosenWorks DEF Routed, Route

LEMMA RouteTicketWorks ==
  ASSUME NEW sample, NEW load \in [Staff -> Nat], NEW last
  PROVE  RouteTicket(sample, load, last) \in Route
<1>1. SkilledTeam(sample) \in Teams
  <2>1. CASE {t \in Teams : sample \in Skills(t)} = {}
    BY <2>1, RoutingAssumption DEF RoutingAssumption, SkilledTeam
  <2>2. CASE {t \in Teams : sample \in Skills(t)} # {}
    <3>1. {t \in Teams : sample \in Skills(t)} \in SUBSET Nat
      BY RoutingAssumption DEF RoutingAssumption
    <3> QED BY <2>2, <3>1, LeastIsIn DEF SkilledTeam
  <2> QED BY <2>1, <2>2
<1>2. Available({u \in Staff : Home(u) = SkilledTeam(sample)}) \in SUBSET Staff
  BY DEF Available
<1> QED BY <1>1, <1>2, RoutedWorks DEF RouteTicket

LEMMA RouteIncidentWorks ==
  ASSUME RoutingInv, PeopleInv, NEW sample, NEW load \in [Staff -> Nat], NEW last
  PROVE  RouteIncident(sample, load, last) \in Route
<1> DEFINE stopping == Stopping(sample)
           r == Least(stopping)
<1>1. CASE stopping = {} \/ (rule[r].queue = None /\ rule[r].team = None)
  BY <1>1, RouteTicketWorks DEF RouteIncident
<1>2. CASE ~ (stopping = {} \/ (rule[r].queue = None /\ rule[r].team = None))
  <2> DEFINE q == rule[r].queue
             t == IF rule[r].team # None THEN rule[r].team ELSE queue[q].team
  <2>1. r \in Rules
    <3>1. stopping \in SUBSET Nat /\ stopping \subseteq Rules
      BY RoutingAssumption DEF RoutingAssumption, Stopping
    <3> QED BY <1>2, <3>1, LeastIsIn
  <2>2. rule[r] \in Rule /\ \A x \in Queues : queue[x] \in Queue
    BY <2>1 DEF RoutingInv, Rows
  <2> HIDE DEF r
  <2>3. q \in Queues \cup {None} /\ rule[r].team \in Teams \cup {None}
    BY <2>2 DEF Rule
  <2>4. t \in Teams
    BY <1>2, <2>2, <2>3 DEF Queue
  <2>5. EligibleTeams(q, t) \subseteq Teams
    BY <2>2, <2>3, <2>4 DEF EligibleTeams, Queue
  <2>6. Available(Members(EligibleTeams(q, t))) \in SUBSET Staff
    BY <2>5 DEF Available, Members, PeopleInv, Team
  <2>7. (IF q # None THEN q ELSE t) \in Queues \cup Teams
    BY <2>3, <2>4
  <2>8. RouteBy(r, load, last) \in Route
    BY <2>4, <2>6, <2>7, RoutedWorks DEF RouteBy
  <2>9. RouteIncident(sample, load, last) = RouteBy(r, load, last)
    BY <1>2 DEF RouteIncident, r
  <2> QED BY <2>8, <2>9
<1> QED BY <1>1, <1>2

-----------------------------------------------------------------------------
(* Tickets and their clocks.                                               *)

Row == [prefix : Prefixes, number : Nat, source : Requests \cup Calls \cup {None}, status : Status,
           team : Teams, assignee : Staff \cup {None}, pausedAt : 0 .. now \cup {None}, due : Nat]
Wait == [created : 0 .. now, target : [minutes : Nat, cal : Calendar], since : 0 .. now \cup {None}, total : Nat]

\* What a request has decided is a ticket that is due when it should be, or changes of one.
Decided(t) ==
  /\ t.kind = "ticket" =>
       /\ t.ticket \in Row /\ t.turn \in Turn /\ t.target \in [minutes : Nat, cal : Calendar]
       /\ t.ticket.pausedAt = None
       /\ OpenMinutes(now, t.ticket.due, t.target.cal) = t.target.minutes
  /\ t.kind = "update" =>
       /\ t.id \in DOMAIN tickets /\ t.at = now /\ t.kept \in BOOLEAN
       /\ \A row \in Row : Written(row, t.writes) \in Row

\* An update of a ticket that is not off is the only one, and moves the target as
\* sla_pause_transition says, or leaves it.
Clock(ticket, new, kept) ==
  LET clock == PauseTransition(ticket, new.status, now, settings.pauses)
  IN  IF kept THEN new.due = clock.due /\ new.pausedAt = clock.pausedAt
      ELSE new.due = ticket.due /\ new.pausedAt = ticket.pausedAt

Clocked(t) ==
  t.kind = "update" /\ t.id \notin off =>
    /\ \A o \in inflight : o.kind = "update" /\ o.id = t.id => o = t
    /\ Clock(tickets[t.id], Written(tickets[t.id], t.writes), t.kept)

\* The clock of a ticket agrees with the time it has waited.
OnTime(ticket, wait) ==
  /\ wait.since = ticket.pausedAt
  /\ Paused(ticket.status) \/ ticket.pausedAt = None
  /\ OpenMinutes(wait.created, ticket.due - wait.total, wait.target.cal) = wait.target.minutes

DeskInv ==
  /\ now \in Nat /\ settings \in Settings /\ off \subseteq DOMAIN tickets
  /\ Len(waits) = Len(tickets) /\ waits = [i \in DOMAIN tickets |-> waits[i]]
  /\ \A i \in DOMAIN tickets : tickets[i] \in Row /\ waits[i] \in Wait
  /\ turns \in [Queues \cup Teams -> Staff \cup {None}]
  /\ \A t \in inflight : Decided(t) /\ Clocked(t)
  /\ \A i \in DOMAIN tickets : i \in off \/ OnTime(tickets[i], waits[i])

LEMMA TicketWritten ==
  ASSUME NEW old \in Row, NEW new \in Row, NEW row \in Row
  PROVE  Written(old, Writes(old, new)) = new /\ Written(row, Writes(old, new)) \in Row
BY DEF Written, Writes, Row

LEMMA InitDesk == DeskInit => DeskInv
<1> SUFFICES ASSUME DeskInit PROVE DeskInv
  OBVIOUS
<1>1. tickets = <<>> /\ waits = <<>> /\ inflight = {} /\ off = {}
  BY DEF DeskInit, RoutingInit
<1>2. Len(waits) = Len(tickets) /\ waits = [i \in DOMAIN tickets |-> waits[i]] /\ DOMAIN tickets = {}
  BY <1>1
<1>3. now \in Nat /\ settings \in Settings /\ turns \in [Queues \cup Teams -> Staff \cup {None}]
  BY DeskAssumption DEF DeskAssumption, DeskInit
<1> QED BY <1>1, <1>2, <1>3 DEF DeskInv

deskClock == <<tickets, turns, settings, now, waits>>

\* A step that leaves the tickets and their clocks, and starts no update.
Calm ==
  /\ UNCHANGED deskClock /\ off' = off
  /\ \A t \in inflight' : t \in inflight \/ (t.kind # "update" /\ Decided(t))

LEMMA CalmStep == ASSUME DeskInv, Calm PROVE DeskInv'
<1>1. UNCHANGED <<deskClock, off>>
  BY DEF Calm
<1>2. \A t \in inflight' : Decided(t)'
  BY <1>1 DEF Calm, DeskInv, Decided, deskClock, Row
<1>3. ASSUME NEW t \in inflight' PROVE Clocked(t)'
  <2>1. CASE t.kind = "update" /\ t.id \notin off
    <3>1. t \in inflight /\ Clocked(t)
      BY <2>1 DEF Calm, DeskInv
    <3>2. \A o \in inflight' : o.kind = "update" => o \in inflight
      BY DEF Calm
    <3> QED BY <1>1, <2>1, <3>1, <3>2 DEF Clocked, Clock, PauseTransition, deskClock
  <2> QED BY <1>1, <2>1 DEF Clocked, deskClock
<1> QED BY <1>1, <1>2, <1>3 DEF DeskInv, OnTime, Paused, Row, Wait, deskClock

\* An update begins.
LEMMA UpdateBegins ==
  ASSUME DeskInv, NEW i \in DOMAIN tickets, NEW new \in Row, NEW kept \in BOOLEAN, NEW by,
         BeginUpdate(i, new, kept, by), UNCHANGED deskClock, Clock(tickets[i], new, kept)
  PROVE  DeskInv'
<1> DEFINE t == Updates(i, new, kept, by)
<1>1. /\ inflight' = inflight \cup {t}
      /\ off' = off \cup (IF \E o \in inflight : o.kind = "update" /\ o.id = i THEN {i} ELSE {})
  BY DEF BeginUpdate, Begin
<1>2. /\ t.kind = "update" /\ t.id = i /\ t.at = now /\ t.kept = kept
      /\ t.writes = Writes(tickets[i], new)
  BY DEF Updates
<1> HIDE DEF t
<1>3. tickets[i] \in Row
  BY DEF DeskInv
<1>4. Written(tickets[i], t.writes) = new /\ \A row \in Row : Written(row, t.writes) \in Row
  BY <1>2, <1>3, TicketWritten
<1>5. \A o \in inflight' : Decided(o)
  BY <1>1, <1>2, <1>4 DEF DeskInv, Decided
<1>6. \A o \in inflight' : Decided(o)'
  BY <1>5 DEF Decided, deskClock, Row
<1>7. ASSUME NEW o \in inflight', o.kind = "update", o.id \notin off'
      PROVE  /\ \A x \in inflight' : x.kind = "update" /\ x.id = o.id => x = o
             /\ Clock(tickets[o.id], Written(tickets[o.id], o.writes), o.kept)
  <2>1. CASE o.id = i
    <3>1. \A x \in inflight : ~ (x.kind = "update" /\ x.id = i)
      BY <1>1, <1>7, <2>1
    <3>2. o = t /\ \A x \in inflight' : x.kind = "update" /\ x.id = i => x = t
      BY <1>1, <1>7, <2>1, <3>1
    <3> QED BY <1>2, <1>4, <2>1, <3>2
  <2>2. CASE o.id # i
    <3>1. o \in inflight /\ o.id \notin off
      BY <1>1, <1>2, <1>7, <2>2
    <3>2. Clocked(o)
      BY <3>1 DEF DeskInv
    <3> QED BY <1>1, <1>2, <1>7, <2>2, <3>1, <3>2 DEF Clocked
  <2> QED BY <2>1, <2>2
<1>8. \A o \in inflight' : Clocked(o)'
  BY <1>7 DEF Clocked, Clock, PauseTransition, deskClock
<1>9. off' \subseteq DOMAIN tickets /\ off \subseteq off'
  BY <1>1 DEF DeskInv
<1> QED BY <1>6, <1>8, <1>9 DEF DeskInv, OnTime, Paused, Row, Wait, deskClock

\* What update_ticket makes of the clock.
LEMMA PauseType ==
  ASSUME DeskInv, NEW ticket \in Row, NEW next
  PROVE  /\ PauseTransition(ticket, next, now, settings.pauses).due \in Nat
         /\ PauseTransition(ticket, next, now, settings.pauses).pausedAt \in 0 .. now \cup {None}
BY DEF DeskInv, Row, PauseTransition

\* Every way a ticket is worked on changes columns that are its handler's.
LEMMA WorkBegins ==
  ASSUME DeskInv, RoutingInv, PeopleInv, Work
  PROVE  DeskInv'
<1>1. UNCHANGED deskClock
  BY DEF Work, deskClock
<1>2. PICK i \in DOMAIN tickets : \/ UpdateTicket(i) \/ Reply(i) \/ Confirm(i) \/ Reopen(i) \/ BulkUpdate(i)
                                  \/ \E q \in Queues : Reassign(i, q)
  BY DEF Work
<1>3. tickets[i] \in Row
  BY DEF DeskInv
<1>4. ASSUME NEW new \in Row, NEW kept \in BOOLEAN, Works(i, new, kept), Clock(tickets[i], new, kept) PROVE DeskInv'
  BY <1>1, <1>4, UpdateBegins DEF Works
<1>5. ASSUME NEW u \in Staff \cup {None}, NEW kept \in BOOLEAN, Works(i, [tickets[i] EXCEPT !.assignee = u], kept)
      PROVE  DeskInv'
  <2> DEFINE new == [tickets[i] EXCEPT !.assignee = u]
  <2>1. new \in Row /\ new.status = tickets[i].status /\ new.due = tickets[i].due /\ new.pausedAt = tickets[i].pausedAt
    BY <1>3 DEF Row
  <2>2. Works(i, new, kept)
    BY <1>5
  <2> HIDE DEF new
  <2>3. Clock(tickets[i], new, kept)
    BY <2>1 DEF Clock, PauseTransition
  <2> QED BY <1>4, <2>1, <2>2, <2>3
<1>6. ASSUME NEW s \in Status, Works(i, [tickets[i] EXCEPT !.status = s], FALSE) PROVE DeskInv'
  <2> DEFINE new == [tickets[i] EXCEPT !.status = s]
  <2>1. new \in Row /\ new.due = tickets[i].due /\ new.pausedAt = tickets[i].pausedAt
    BY <1>3 DEF Row
  <2>2. Works(i, new, FALSE)
    BY <1>6
  <2> HIDE DEF new
  <2>3. Clock(tickets[i], new, FALSE)
    BY <2>1 DEF Clock
  <2> QED BY <1>4, <2>1, <2>2, <2>3
<1>7. CASE UpdateTicket(i)
  <2>1. CASE \E s \in Status \ {tickets[i].status} :
               LET clock == PauseTransition(tickets[i], s, now, settings.pauses)
               IN  Works(i, [tickets[i] EXCEPT !.status = s, !.due = clock.due, !.pausedAt = clock.pausedAt], TRUE)
    <3>1. PICK s \in Status :
            LET clock == PauseTransition(tickets[i], s, now, settings.pauses)
            IN  Works(i, [tickets[i] EXCEPT !.status = s, !.due = clock.due, !.pausedAt = clock.pausedAt], TRUE)
      BY <2>1
    <3> DEFINE clock == PauseTransition(tickets[i], s, now, settings.pauses)
               new == [tickets[i] EXCEPT !.status = s, !.due = clock.due, !.pausedAt = clock.pausedAt]
    <3>2. clock.due \in Nat /\ clock.pausedAt \in 0 .. now \cup {None}
      BY <1>3, PauseType
    <3>3. Works(i, new, TRUE)
      BY <3>1
    <3> HIDE DEF clock
    <3>4. new \in Row /\ new.status = s /\ new.due = clock.due /\ new.pausedAt = clock.pausedAt
      BY <1>3, <3>2 DEF Row
    <3> HIDE DEF new
    <3>5. Clock(tickets[i], new, TRUE)
      BY <3>4 DEF Clock, clock
    <3> QED BY <1>4, <3>3, <3>4, <3>5
  <2>2. CASE \E u \in Staff : Works(i, [tickets[i] EXCEPT !.assignee = u], TRUE)
    BY <1>5, <2>2
  <2> QED BY <1>7, <2>1, <2>2 DEF UpdateTicket
<1>8. CASE Reply(i) \/ Confirm(i) \/ Reopen(i)
  <2>1. PICK s \in Status : Works(i, [tickets[i] EXCEPT !.status = s], FALSE)
    <3>1. "Closed" \in Status /\ "In Progress" \in Status
      BY DEF Status
    <3> QED BY <1>8, <3>1, Zenon DEF Reply, Confirm, Reopen
  <2> QED BY <1>6, <2>1
<1>9. CASE BulkUpdate(i)
  <2>1. CASE \E s \in Status \ {tickets[i].status} : Works(i, [tickets[i] EXCEPT !.status = s], FALSE)
    BY <1>6, <2>1
  <2>2. CASE \E u \in Staff : Works(i, [tickets[i] EXCEPT !.assignee = u], FALSE)
    BY <1>5, <2>2
  <2> QED BY <1>9, <2>1, <2>2 DEF BulkUpdate
<1>10. CASE \E q \in Queues : Reassign(i, q)
  <2>0. PICK q \in Queues : Reassign(i, q)
    BY <1>10
  <2>1. PICK w \in {None} \cup {u \in Members(EligibleTeams(q, queue[q].team)) : staff[u].active} :
          Works(i, [tickets[i] EXCEPT !.team = queue[q].team, !.assignee = w,
                                      !.status = IF w # None /\ @ = "New" THEN "Assigned" ELSE @], FALSE)
    BY <2>0 DEF Reassign
  <2> DEFINE next == IF w # None /\ tickets[i].status = "New" THEN "Assigned" ELSE tickets[i].status
             new == [tickets[i] EXCEPT !.team = queue[q].team, !.assignee = w, !.status = next]
  <2>2. queue[q] \in Queue
    BY DEF RoutingInv, Rows
  <2>3. w \in Staff \cup {None}
    <3>1. EligibleTeams(q, queue[q].team) \subseteq Teams
      BY <2>2 DEF EligibleTeams, Queue
    <3>2. Members(EligibleTeams(q, queue[q].team)) \subseteq Staff
      BY <3>1 DEF Members, PeopleInv, Team
    <3> QED BY <3>2
  <2>4. next \in Status
    BY <1>3 DEF Row, Status
  <2>5. new = [tickets[i] EXCEPT !.team = queue[q].team, !.assignee = w,
                                 !.status = IF w # None /\ @ = "New" THEN "Assigned" ELSE @]
    BY <1>3 DEF Row
  <2>6. Works(i, new, FALSE)
    BY <2>1, <2>5, Zenon
  <2> HIDE DEF next
  <2>7. new \in Row /\ new.due = tickets[i].due /\ new.pausedAt = tickets[i].pausedAt
    BY <1>3, <2>2, <2>3, <2>4 DEF Row, Queue
  <2> HIDE DEF new
  <2>8. Clock(tickets[i], new, FALSE)
    BY <2>7 DEF Clock
  <2> QED BY <1>4, <2>6, <2>7, <2>8
<1> QED BY <1>2, <1>7, <1>8, <1>9, <1>10

LEMMA LoadCounts == NumbersInv => Load \in [Staff -> Nat]
<1> SUFFICES ASSUME NumbersInv, NEW u \in Staff
             PROVE  Cardinality({i \in DOMAIN tickets : tickets[i].assignee = u /\ tickets[i].status \notin Done}) \in Nat
  BY DEF Load
<1>1. IsFiniteSet(DOMAIN tickets)
  <2>1. Len(tickets) \in Nat /\ DOMAIN tickets = 1 .. Len(tickets)
    BY DEF NumbersInv, Listed
  <2>2. 1 \in Int /\ Len(tickets) \in Int
    BY <2>1
  <2> QED BY <2>1, <2>2, FS_Interval
<1> QED BY <1>1, FS_Subset, FS_CardinalityType

\* A ticket begins that is due when it should be.
LEMMA TicketBegins ==
  ASSUME DeskInv, NumbersInv, NEW prefix \in Prefixes, NEW source \in Requests \cup Calls \cup {None}, NEW starting \in Status,
         NEW target \in [minutes : Nat, cal : Calendar], NEW routed \in Route, NEW by,
         BeginTicket(prefix, source, starting, target, routed, by), UNCHANGED deskVars,
         Due(target) # GivesUp
  PROVE  DeskInv'
<1> DEFINE ticket == [prefix |-> prefix, number |-> sequence[prefix] + 1, source |-> source, status |-> starting,
                      team |-> routed.team, assignee |-> routed.assignee, pausedAt |-> None, due |-> Due(target)]
           t == [kind |-> "ticket", by |-> by, turn |-> routed.turn, target |-> target, ticket |-> ticket]
<1>1. inflight' = inflight \cup {t}
  BY DEF BeginTicket, Begin
<1>2. now \in Nat /\ sequence[prefix] \in Nat
  BY DEF DeskInv, NumbersInv
<1>3. Due(target) \in Nat /\ OpenMinutes(now, Due(target), target.cal) = target.minutes
  <2>1. target.cal \in Calendar /\ target.minutes \in Nat
    OBVIOUS
  <2> QED BY <1>2, <2>1, DueIsReached DEF Due
<1>4. routed.team \in Teams /\ routed.assignee \in Staff \cup {None} /\ routed.turn \in Turn
  BY DEF Route
<1>5. ticket \in Row /\ ticket.pausedAt = None /\ ticket.due = Due(target)
  BY <1>2, <1>3, <1>4 DEF Row
<1>6. t.kind = "ticket" /\ t.ticket = ticket /\ t.turn = routed.turn /\ t.target = target
  OBVIOUS
<1> HIDE DEF t, ticket
<1>7. Decided(t)
  BY <1>3, <1>4, <1>5, <1>6 DEF Decided
<1>8. Calm
  BY <1>1, <1>6, <1>7 DEF Calm, deskClock, deskVars
<1> QED BY <1>8, CalmStep

LEMMA PlainIsDue ==
  /\ PlainTarget \in [minutes : Nat, cal : Calendar]
  /\ now \in Nat => Due(PlainTarget) # GivesUp
<1>1. PlainTarget \in [minutes : Nat, cal : Calendar]
  <2>1. PortalMinutes \in Nat /\ DayLength \in Nat
    BY DeskAssumption, SlaAssumption DEF DeskAssumption, SlaAssumption
  <2> QED BY <2>1 DEF PlainTarget, Calendar
<1>2. ASSUME now \in Nat PROVE Due(PlainTarget) # GivesUp
  <2>1. PlainTarget.cal.always /\ PlainTarget.minutes \in Nat
    BY <1>1 DEF PlainTarget
  <2>2. Due(PlainTarget) = now + PlainTarget.minutes
    BY <2>1 DEF Due, AddOperationalMinutes
  <2> QED BY <1>2, <2>1, <2>2 DEF GivesUp
<1> QED BY <1>1, <1>2

LEMMA NewTicketBegins == ASSUME DeskInv, NumbersInv, RoutingInv, PeopleInv, NewTicket PROVE DeskInv'
<1>1. UNCHANGED deskVars /\ now \in Nat /\ Load \in [Staff -> Nat]
  BY LoadCounts DEF NewTicket, DeskInv
<1>2. ASSUME NEW p \in Prefixes, NEW sample \in Samples, CreateTicket(p, sample) PROVE DeskInv'
  <2> DEFINE routed == RouteIncident(sample, Load, turns)
             starting == IF routed.assignee = None THEN "New" ELSE "Assigned"
  <2>1. BeginTicket(p, None, starting, PlainTarget, routed, None)
    BY <1>2 DEF CreateTicket
  <2>2. routed \in Route
    BY <1>1, RouteIncidentWorks
  <2>3. starting \in Status
    BY DEF Status
  <2> HIDE DEF routed, starting
  <2> QED BY <1>1, <2>1, <2>2, <2>3, PlainIsDue, TicketBegins
<1>3. ASSUME NEW r \in Requests, NEW sample \in Samples, SubmitIncident(r, sample) PROVE DeskInv'
  <2> DEFINE routed == RouteIncident(sample, Load, turns)
  <2>1. PICK choice \in Picked(routed) : BeginTicket(Incident, r, "Open", IncidentTarget, choice, None)
    BY <1>3 DEF SubmitIncident
  <2>2. routed \in Route
    BY <1>1, RouteIncidentWorks
  <2> HIDE DEF routed
  <2>3. choice \in Route
    <3>1. PICK t \in {routed.team} \cup {t \in Teams : team[t].active}, u \in {routed.assignee} \cup Staff :
            choice = [team |-> t, assignee |-> u, turn |-> routed.turn]
      BY DEF Picked
    <3>2. t \in Teams /\ u \in Staff \cup {None}
      BY <2>2 DEF Route
    <3> QED BY <2>2, <3>1, <3>2 DEF Route
  <2>4. Due(IncidentTarget) # GivesUp
    BY <1>3 DEF SubmitIncident
  <2>5. IncidentTarget \in [minutes : Nat, cal : Calendar] /\ Incident \in Prefixes
    BY DeskAssumption DEF DeskAssumption, IncidentTarget, DeskInv
  <2>6. "Open" \in Status
    BY DEF Status
  <2> QED BY <1>1, <2>1, <2>3, <2>4, <2>5, <2>6, TicketBegins
<1> QED BY <1>2, <1>3 DEF NewTicket

LEMMA HearBegins ==
  ASSUME DeskInv, NumbersInv, RoutingInv, PeopleInv, NEW c, NEW call \in Calls, Hear(c, call)
  PROVE  DeskInv'
<1>1. PICK tech \in Answering :
        NewCall(c, call, tech) \/ \E i \in Known(call) : AnsweredCall(c, i, tech)
  BY DEF Hear
<1>2. tech \in Staff \cup {None} /\ now \in Nat
  BY DEF Answering, DeskInv
<1>3. CASE NewCall(c, call, tech)
  <2> DEFINE routed == RouteTicket(PhoneSample, Load, turns)
             u == IF tech # None THEN tech ELSE routed.assignee
             chosen == [routed EXCEPT !.assignee = u]
             starting == IF u = None THEN "New" ELSE "Assigned"
  <2>1. BeginTicket(Incident, call, starting, PlainTarget, chosen, c) /\ UNCHANGED deskVars
    BY <1>3 DEF NewCall
  <2>2. routed \in Route
    BY LoadCounts, RouteTicketWorks
  <2> HIDE DEF routed
  <2>3. chosen \in Route
    BY <1>2, <2>2 DEF Route
  <2>4. starting \in Status /\ Incident \in Prefixes
    BY DeskAssumption DEF DeskAssumption, Status
  <2> HIDE DEF chosen, starting
  <2> QED BY <1>2, <2>1, <2>3, <2>4, PlainIsDue, TicketBegins
<1>4. CASE \E i \in Known(call) : AnsweredCall(c, i, tech)
  <2>1. PICK i \in Known(call) : AnsweredCall(c, i, tech)
    BY <1>4
  <2> DEFINE new == [tickets[i] EXCEPT !.assignee = tech, !.status = "Assigned"]
  <2>2. i \in DOMAIN tickets /\ tickets[i] \in Row
    BY DEF Known, From, DeskInv
  <2>3. BeginUpdate(i, new, FALSE, c) /\ UNCHANGED deskClock
    BY <2>1 DEF AnsweredCall, deskClock
  <2>4. new \in Row /\ new.due = tickets[i].due /\ new.pausedAt = tickets[i].pausedAt
    BY <1>2, <2>2 DEF Row, Status
  <2> HIDE DEF new
  <2>5. Clock(tickets[i], new, FALSE)
    BY <2>4 DEF Clock
  <2> QED BY <2>2, <2>3, <2>4, <2>5, UpdateBegins
<1> QED BY <1>1, <1>3, <1>4

\* A ticket is committed: the time it has waited begins.
LEMMA TicketStored == ASSUME DeskInv, NumbersInv, NEW t \in inflight, CommitTicket(t) PROVE DeskInv'
<1>1. /\ inflight' \subseteq inflight /\ t.kind = "ticket" /\ UNCHANGED <<settings, now, off>>
  BY DEF CommitTicket
<1>2. CASE Conflicts(t)
  <2>1. Calm
    BY <1>1, <1>2 DEF CommitTicket, Calm, deskClock
  <2> QED BY <2>1, CalmStep
<1>3. CASE ~Conflicts(t)
  <2> DEFINE n == Len(tickets) + 1
             wait == [created |-> now, target |-> t.target, since |-> None, total |-> 0]
  <2>1. /\ tickets' = Append(tickets, t.ticket) /\ waits' = Append(waits, wait)
        /\ turns' = IF t.turn = <<>> THEN turns ELSE [turns EXCEPT ![t.turn[1]] = t.turn[2]]
    BY <1>3 DEF CommitTicket
  <2>2. /\ Len(tickets) \in Nat /\ tickets = [i \in 1 .. Len(tickets) |-> tickets[i]] /\ DOMAIN tickets = 1 .. Len(tickets)
        /\ Len(waits) = Len(tickets) /\ waits = [i \in 1 .. Len(waits) |-> waits[i]]
    BY DEF NumbersInv, Listed, DeskInv
  <2>3. /\ t.ticket \in Row /\ t.ticket.pausedAt = None /\ t.turn \in Turn /\ t.target \in [minutes : Nat, cal : Calendar]
        /\ OpenMinutes(now, t.ticket.due, t.target.cal) = t.target.minutes
        /\ now \in Nat
    BY <1>1 DEF DeskInv, Decided
  <2> HIDE DEF wait, n
  <2>4. tickets' = [i \in 1 .. n |-> IF i = n THEN t.ticket ELSE tickets[i]] /\ Len(tickets') = n
    BY <2>1, <2>2, Appended DEF n
  <2>5. waits' = [i \in 1 .. n |-> IF i = n THEN wait ELSE waits[i]] /\ Len(waits') = n
    BY <2>1, <2>2, Appended DEF n
  <2>6. DOMAIN tickets' = DOMAIN tickets \cup {n} /\ DOMAIN tickets' = 1 .. n /\ n \notin DOMAIN tickets /\ n \in Nat
    BY <2>2, <2>4 DEF n
  <2>7. /\ tickets'[n] = t.ticket /\ waits'[n] = wait
        /\ \A i \in DOMAIN tickets : tickets'[i] = tickets[i] /\ waits'[i] = waits[i]
    BY <2>2, <2>4, <2>5, <2>6
  <2>8. wait \in Wait /\ wait.since = None /\ wait.created = now /\ wait.total = 0 /\ wait.target = t.target
    BY <2>3 DEF wait, Wait
  <2>9. waits' = [i \in DOMAIN tickets' |-> waits'[i]]
    BY <2>5, <2>6
  <2>10. turns' \in [Queues \cup Teams -> Staff \cup {None}]
    <3>1. turns \in [Queues \cup Teams -> Staff \cup {None}]
      BY DEF DeskInv
    <3>2. CASE t.turn = <<>>
      BY <2>1, <3>1, <3>2
    <3>3. CASE t.turn # <<>>
      <4>1. t.turn[1] \in Queues \cup Teams /\ t.turn[2] \in Staff
        BY <2>3, <3>3 DEF Turn
      <4> QED BY <2>1, <3>1, <3>3, <4>1
    <3> QED BY <3>2, <3>3
  <2>11. \A i \in DOMAIN tickets' : (tickets[i] \in Row /\ waits[i] \in Wait)'
    <3>1. \A i \in DOMAIN tickets' : tickets'[i] \in Row /\ waits'[i] \in Wait
      BY <2>3, <2>6, <2>7, <2>8 DEF DeskInv
    <3> QED BY <1>1, <3>1 DEF Row, Wait
  <2>12. \A i \in DOMAIN tickets' : i \in off \/ OnTime(tickets'[i], waits'[i])
    <3>1. t.ticket.due - 0 = t.ticket.due
      BY <2>3 DEF Row
    <3>2. OnTime(t.ticket, wait)
      BY <2>3, <2>8, <3>1 DEF OnTime
    <3> QED BY <2>6, <2>7, <3>2 DEF DeskInv
  <2>13. \A o \in inflight' : Decided(o)' /\ Clocked(o)'
    <3> SUFFICES ASSUME NEW o \in inflight' PROVE Decided(o)' /\ Clocked(o)'
      OBVIOUS
    <3>1. Decided(o) /\ Clocked(o)
      BY <1>1 DEF DeskInv
    <3>2. Decided(o)'
      BY <1>1, <2>6, <3>1 DEF Decided, Row
    <3>3. CASE o.kind = "update"
      <4>1. o.id \in DOMAIN tickets /\ tickets'[o.id] = tickets[o.id]
        BY <2>7, <3>1, <3>3 DEF Decided
      <4>2. Clocked(o)'
        BY <1>1, <3>1, <4>1 DEF Clocked, Clock, PauseTransition
      <4> QED BY <3>2, <4>2
    <3>4. CASE o.kind # "update"
      BY <3>2, <3>4 DEF Clocked
    <3> QED BY <3>3, <3>4
  <2>14. now' \in Nat /\ settings' \in Settings /\ off' \subseteq DOMAIN tickets'
    BY <1>1, <2>6 DEF DeskInv
  <2> QED BY <1>1, <2>4, <2>5, <2>9, <2>10, <2>11, <2>12, <2>13, <2>14 DEF DeskInv, OnTime, Paused
<1> QED BY <1>2, <1>3

\* An update is committed: what it did to the clock is what the ticket has waited, or
\* the ticket is off.
LEMMA UpdateKeepsTime ==
  ASSUME now \in Nat, NEW old \in Row, NEW new \in Row, NEW wait \in Wait, NEW kept \in BOOLEAN,
         OnTime(old, wait), Clock(old, new, kept), kept \/ Paused(old.status) = Paused(new.status)
  PROVE  OnTime(new, CASE Paused(new.status) /\ ~Paused(old.status) -> [wait EXCEPT !.since = now]
                       [] Paused(old.status) /\ ~Paused(new.status) /\ wait.since # None ->
                            [wait EXCEPT !.since = None, !.total = @ + (now - wait.since)]
                       [] OTHER -> wait)
<1> DEFINE next == CASE Paused(new.status) /\ ~Paused(old.status) -> [wait EXCEPT !.since = now]
                     [] Paused(old.status) /\ ~Paused(new.status) /\ wait.since # None ->
                          [wait EXCEPT !.since = None, !.total = @ + (now - wait.since)]
                     [] OTHER -> wait
<1>1. /\ wait.since = old.pausedAt /\ (Paused(old.status) \/ old.pausedAt = None)
      /\ OpenMinutes(wait.created, old.due - wait.total, wait.target.cal) = wait.target.minutes
  BY DEF OnTime
<1>2. /\ old.due \in Nat /\ old.pausedAt \in 0 .. now \cup {None} /\ new.due \in Nat
      /\ wait.total \in Nat /\ wait.since \in 0 .. now \cup {None}
  BY DEF Row, Wait
<1>3. CASE Paused(new.status) /\ ~Paused(old.status)
  <2>1. next = [wait EXCEPT !.since = now]
    BY <1>3
  <2>2. next.since = now /\ next.created = wait.created /\ next.target = wait.target /\ next.total = wait.total
    BY <2>1 DEF Wait
  <2>3. new.due = old.due /\ new.pausedAt = now
    BY <1>1, <1>3 DEF Clock, PauseTransition, Paused
  <2> HIDE DEF next
  <2>4. OnTime(new, next)
    BY <1>1, <1>3, <2>2, <2>3 DEF OnTime
  <2> QED BY <2>4 DEF next
<1>4. CASE Paused(old.status) /\ ~Paused(new.status) /\ wait.since # None
  <2>1. next = [wait EXCEPT !.since = None, !.total = @ + (now - wait.since)]
    BY <1>4
  <2>2. /\ next.since = None /\ next.created = wait.created /\ next.target = wait.target
        /\ next.total = wait.total + (now - wait.since)
    BY <2>1 DEF Wait
  <2>3. new.due = old.due + (now - old.pausedAt) /\ new.pausedAt = None
    BY <1>1, <1>4 DEF Clock, PauseTransition, Paused
  <2>4. new.due - next.total = old.due - wait.total
    BY <1>1, <1>2, <1>4, <2>2, <2>3
  <2> HIDE DEF next
  <2>5. OnTime(new, next)
    BY <1>1, <2>2, <2>3, <2>4 DEF OnTime
  <2> QED BY <2>5 DEF next
<1>5. CASE /\ ~ (Paused(new.status) /\ ~Paused(old.status))
           /\ ~ (Paused(old.status) /\ ~Paused(new.status) /\ wait.since # None)
  <2>1. next = wait
    BY <1>5
  <2>2. new.due = old.due /\ new.pausedAt = old.pausedAt
    BY <1>1, <1>5 DEF Clock, PauseTransition, Paused
  <2> HIDE DEF next
  <2>3. OnTime(new, wait)
    BY <1>1, <1>5, <2>2 DEF OnTime
  <2> QED BY <2>1, <2>3 DEF next
<1> QED BY <1>3, <1>4, <1>5

LEMMA UpdateStored ==
  ASSUME DeskInv, NumbersInv, Listed', Len(tickets') = Len(tickets), NEW t \in inflight, CommitUpdate(t)
  PROVE  DeskInv'
<1> DEFINE i == t.id
           old == tickets[t.id]
           new == Written(tickets[t.id], t.writes)
           wait == waits[t.id]
           next == CASE Paused(new.status) /\ ~Paused(old.status) -> [wait EXCEPT !.since = t.at]
                     [] Paused(old.status) /\ ~Paused(new.status) /\ wait.since # None ->
                          [wait EXCEPT !.since = None, !.total = @ + (t.at - wait.since)]
                     [] OTHER -> wait
<1>1. /\ t.kind = "update" /\ inflight' = inflight \ {t} /\ UNCHANGED <<turns, settings, now>>
      /\ tickets' = [tickets EXCEPT ![i] = new]
  BY DEF CommitUpdate
<1>2. /\ i \in DOMAIN tickets /\ t.at = now /\ t.kept \in BOOLEAN /\ now \in Nat
      /\ old \in Row /\ new \in Row /\ wait \in Wait
  BY <1>1 DEF DeskInv, Decided
<1>3. Len(tickets) \in Nat /\ DOMAIN tickets = 1 .. Len(tickets) /\ tickets = [k \in DOMAIN tickets |-> tickets[k]]
      /\ Len(waits) = Len(tickets) /\ waits = [k \in DOMAIN tickets |-> waits[k]]
  BY DEF NumbersInv, Listed, DeskInv
<1> HIDE DEF new
<1>4. tickets'[i] = new /\ DOMAIN tickets' = DOMAIN tickets /\ \A k \in DOMAIN tickets \ {i} : tickets'[k] = tickets[k]
  BY <1>1, <1>2, <1>3
<1>5. /\ waits' = [waits EXCEPT ![i] = next]
      /\ off' = off \cup (IF Paused(old.status) # Paused(new.status) /\ ~t.kept THEN {i} ELSE {})
  <2>1. waits' = [waits EXCEPT ![i] =
                    CASE Paused(tickets'[i].status) /\ ~Paused(old.status) -> [@ EXCEPT !.since = t.at]
                      [] Paused(old.status) /\ ~Paused(tickets'[i].status) /\ @.since # None ->
                           [@ EXCEPT !.since = None, !.total = @ + (t.at - waits[i].since)]
                      [] OTHER -> @]
    BY Zenon DEF CommitUpdate
  <2>2. off' = off \cup (IF Paused(old.status) # Paused(tickets'[i].status) /\ ~t.kept THEN {i} ELSE {})
    BY Zenon DEF CommitUpdate
  <2>3. i \in DOMAIN waits
    BY <1>2, <1>3
  <2> QED BY <1>4, <2>1, <2>2, <2>3
<1> HIDE DEF next
<1>6. waits'[i] = next /\ DOMAIN waits' = DOMAIN waits /\ \A k \in DOMAIN tickets \ {i} : waits'[k] = waits[k]
  BY <1>2, <1>3, <1>5
<1>7. next \in Wait
  <2>1. wait.since # None => now - wait.since \in Nat
    BY <1>2 DEF Wait
  <2>2. now \in 0 .. now
    BY <1>2
  <2>3. CASE Paused(new.status) /\ ~Paused(old.status)
    BY <1>2, <2>2, <2>3 DEF next, Wait
  <2>4. CASE Paused(old.status) /\ ~Paused(new.status) /\ wait.since # None
    <3>1. next = [wait EXCEPT !.since = None, !.total = @ + (now - wait.since)]
      BY <1>2, <2>4 DEF next
    <3>2. wait.total + (now - wait.since) \in Nat
      BY <1>2, <2>1, <2>4 DEF Wait
    <3> QED BY <1>2, <3>1, <3>2 DEF Wait
  <2>5. CASE /\ ~ (Paused(new.status) /\ ~Paused(old.status))
             /\ ~ (Paused(old.status) /\ ~Paused(new.status) /\ wait.since # None)
    BY <1>2, <2>5 DEF next
  <2> QED BY <2>3, <2>4, <2>5
<1>8. Len(waits') = Len(tickets') /\ waits' = [k \in DOMAIN tickets' |-> waits'[k]]
  <2>1. waits' = [k \in 1 .. Len(tickets) |-> waits'[k]]
    BY <1>3, <1>5
  <2>2. \A k \in DOMAIN tickets : waits'[k] \in Wait
    BY <1>6, <1>7 DEF DeskInv
  <2>3. waits' \in [1 .. Len(tickets) -> Wait]
    BY <1>3, <2>1, <2>2
  <2>4. Len(waits') = Len(tickets)
    BY <1>3, <2>3
  <2> QED BY <1>3, <1>4, <2>1, <2>4
<1>9. ASSUME NEW k \in DOMAIN tickets PROVE (tickets[k] \in Row /\ waits[k] \in Wait)'
  <2>1. tickets'[k] \in Row /\ waits'[k] \in Wait
    BY <1>2, <1>4, <1>6, <1>7 DEF DeskInv
  <2> QED BY <1>1, <2>1 DEF Row, Wait
<1>10. ASSUME NEW k \in DOMAIN tickets, k \notin off' PROVE OnTime(tickets'[k], waits'[k])
  <2>1. k \notin off /\ OnTime(tickets[k], waits[k])
    BY <1>5, <1>10 DEF DeskInv
  <2>2. CASE k = i
    <3>1. Clock(old, new, t.kept)
      BY <1>1, <2>1, <2>2 DEF DeskInv, Clocked, new
    <3>2. t.kept \/ Paused(old.status) = Paused(new.status)
      BY <1>2, <1>5, <1>10, <2>2 DEF Paused
    <3>3. OnTime(new, next)
      BY <1>2, <2>1, <2>2, <3>1, <3>2, UpdateKeepsTime DEF next
    <3> QED BY <1>4, <1>6, <2>2, <3>3
  <2> QED BY <1>4, <1>6, <2>1, <2>2
<1>11. ASSUME NEW o \in inflight' PROVE Decided(o)' /\ Clocked(o)'
  <2>1. o \in inflight /\ Decided(o) /\ Clocked(o)
    BY <1>1 DEF DeskInv
  <2>2. Decided(o)'
    BY <1>1, <1>4, <2>1 DEF Decided, Row
  <2>3. CASE o.kind = "update" /\ o.id \notin off'
    <3>1. o.id \notin off /\ o.id \in DOMAIN tickets
      BY <1>5, <2>1, <2>3 DEF Decided
    <3>2. o.id # i
      BY <1>1, <2>1, <2>3, <3>1 DEF Clocked
    <3>3. tickets'[o.id] = tickets[o.id]
      BY <1>4, <3>1, <3>2
    <3>4. Clocked(o)'
      BY <1>1, <2>1, <2>3, <3>1, <3>3 DEF Clocked, Clock, PauseTransition
    <3> QED BY <2>2, <3>4
  <2>4. CASE ~ (o.kind = "update" /\ o.id \notin off')
    BY <2>2, <2>4 DEF Clocked
  <2> QED BY <2>3, <2>4
<1>12. off' \subseteq DOMAIN tickets'
  BY <1>2, <1>4, <1>5 DEF DeskInv
<1>13. now' \in Nat /\ settings' \in Settings /\ turns' \in [Queues \cup Teams -> Staff \cup {None}]
  BY <1>1 DEF DeskInv
<1> QED BY <1>1, <1>4, <1>8, <1>9, <1>10, <1>11, <1>12, <1>13 DEF DeskInv, OnTime, Paused

\* What is published, and a minute that passes.
LEMMA PublishedOrTicked ==
  ASSUME DeskInv, (\E new \in Settings : Publish(new)) \/ Tick
  PROVE  DeskInv'
<1>1. CASE Tick
  <2>1. inflight' = {} /\ now' = now + 1 /\ UNCHANGED <<tickets, turns, settings, waits, off>> /\ now \in Nat
    BY <1>1 DEF Tick, DeskInv
  <2>2. \A k \in DOMAIN tickets : (tickets[k] \in Row /\ waits[k] \in Wait)'
    BY <2>1 DEF DeskInv, Row, Wait
  <2> QED BY <2>1, <2>2 DEF DeskInv, OnTime, Paused
<1>2. ASSUME NEW new \in Settings, Publish(new) PROVE DeskInv'
  <2>1. /\ settings' = new /\ UNCHANGED <<inflight, tickets, turns, now, waits>>
        /\ off' = off \cup {i \in DOMAIN tickets : Paused(tickets[i].status) # (tickets[i].status \in new.pauses)}
                      \cup {t.id : t \in {t \in inflight : t.kind = "update"}}
    BY <1>2 DEF Publish
  <2>2. \A t \in inflight : t.kind = "update" => t.id \in off'
    BY <2>1
  <2>3. \A t \in inflight' : Decided(t)' /\ Clocked(t)'
    BY <2>1, <2>2 DEF DeskInv, Decided, Clocked, Row
  <2>4. off' \subseteq DOMAIN tickets /\ off \subseteq off'
    BY <2>1 DEF DeskInv, Decided
  <2>5. ASSUME NEW k \in DOMAIN tickets, k \notin off' PROVE OnTime(tickets[k], waits[k])'
    <3>1. OnTime(tickets[k], waits[k]) /\ Paused(tickets[k].status) = (tickets[k].status \in new.pauses)
      BY <2>1, <2>5 DEF DeskInv
    <3> QED BY <2>1, <3>1 DEF OnTime, Paused
  <2> QED BY <2>1, <2>3, <2>4, <2>5 DEF DeskInv, Row, Wait
<1> QED BY <1>1, <1>2

LEMMA SameLength == ASSUME NEW m \in Nat, NEW n \in Nat, 1 .. m = 1 .. n PROVE m = n
<1>1. \A k \in Nat : k \in 1 .. m <=> k \in 1 .. n
  OBVIOUS
<1>2. ~(m < n) /\ ~(n < m)
  BY <1>1
<1> QED BY <1>2

\* Tickets, their clocks and people together.
ClockInv == NumbersInv /\ RoutingInv /\ PeopleInv /\ DeskInv

LEMMA StepDesk == ASSUME ClockInv, NumbersInv', [Next]_vars PROVE DeskInv'
<1> USE DEF ClockInv
<1>1. CASE UNCHANGED vars
  <2>1. Calm
    BY <1>1 DEF vars, deskVars, Calm, deskClock
  <2> QED BY <2>1, CalmStep
<1>2. CASE NewTicket
  BY <1>2, NewTicketBegins
<1>3. CASE Work
  BY <1>3, WorkBegins
<1>4. CASE Organize
  <2>1. UNCHANGED deskVars
    BY <1>4 DEF Organize
  <2>2. \A t \in inflight' : t \in inflight \/ t.kind \in {"rule", "queue", "team"}
    <3>1. CASE Administration
      BY <3>1, AdministrationBegins
    <3>2. CASE \E u \in Staff : StaffChanges(u)
      BY <3>2 DEF StaffChanges
    <3>3. CASE \E t \in inflight : t.kind \in {"rule", "queue", "team"} /\ CommitAdministration(t)
      BY <3>3 DEF CommitAdministration
    <3> QED BY <1>4, <3>1, <3>2, <3>3 DEF Organize
  <2>3. Calm
    BY <2>1, <2>2 DEF Calm, Decided, deskClock, deskVars
  <2> QED BY <2>3, CalmStep
<1>5. CASE Tick \/ \E new \in Settings : Publish(new)
  BY <1>5, PublishedOrTicked
<1>6. CASE \E t \in inflight : CommitTicket(t)
  BY <1>6, TicketStored
<1>7. CASE \E t \in inflight : CommitUpdate(t)
  <2>1. PICK t \in inflight : CommitUpdate(t)
    BY <1>7
  <2>2. Len(tickets') = Len(tickets)
    <3>1. /\ Len(tickets) \in Nat /\ DOMAIN tickets = 1 .. Len(tickets)
          /\ Len(tickets') \in Nat /\ DOMAIN tickets' = 1 .. Len(tickets')
      BY DEF NumbersInv, Listed
    <3>2. DOMAIN tickets' = DOMAIN tickets
      BY <2>1 DEF CommitUpdate, DeskInv, Decided
    <3> QED BY <3>1, <3>2, SameLength
  <2> QED BY <2>1, <2>2, UpdateStored DEF NumbersInv
<1>8. CASE \E c \in Connections, call \in Calls : Hear(c, call)
  BY <1>8, HearBegins
<1>9. CASE PhoneNext /\ ~\E c \in Connections, call \in Calls : Hear(c, call)
  <2>1. UNCHANGED deskVars /\ inflight' \subseteq inflight
    BY <1>9 DEF PhoneNext, StartAuthorization, AuthorizationReturns, AuthorizationExpires, TestConnection, TestFails,
      UpdateConnection, ArchiveConnection, Edits, Supervise, Connect, Disconnect, Listener, Restart
  <2>2. Calm
    BY <2>1 DEF Calm, deskClock, deskVars
  <2> QED BY <2>2, CalmStep
<1> QED BY <1>1, <1>2, <1>3, <1>4, <1>5, <1>6, <1>7, <1>8, <1>9 DEF Next, DeskNext

LEMMA ClocksAreKept == Spec => []ClockInv
<1>1. Init => ClockInv
  BY InitNumbers, InitRouting, InitPeople, InitDesk DEF Init, DeskInit, ClockInv
<1>2. ClockInv /\ [Next]_vars => ClockInv'
  <2> SUFFICES ASSUME ClockInv, [Next]_vars PROVE ClockInv'
    OBVIOUS
  <2>1. NumbersInv' /\ RoutingInv'
    BY StepNumbers, StepRouting DEF ClockInv
  <2>2. PeopleInv'
    BY StepPeople, DeskIsApart DEF ClockInv
  <2> QED BY <2>1, <2>2, StepDesk DEF ClockInv
<1> QED BY <1>1, <1>2, PTL DEF Spec

\* The target of a ticket is the date with just the given open minutes from its creation, on
\* any calendar, moved by the elapsed time of each of its waits, once; off are the tickets
\* that waited, or stopped waiting, other than through update_ticket (also those whose wait
\* an ordinary reply ended), that had overlapping updates, or whose pauses were published
\* again (sla_pause_transition, configured_sla_dates).
THEOREM TargetsMoveByWaits == Spec => []TargetMovesByWaits
<1>1. ClockInv => TargetMovesByWaits
  BY DEF ClockInv, DeskInv, OnTime, TargetMovesByWaits
<1> QED BY <1>1, ClocksAreKept, PTL

-----------------------------------------------------------------------------
(* The desk implements TicketRegister.                                     *)

\* Steps that leave what identifies the tickets leave the register.
LEMMA RegisterStays ==
  ASSUME DOMAIN tickets' = DOMAIN tickets, \A i \in DOMAIN tickets : Entry(tickets'[i]) = Entry(tickets[i]),
         sequence' = sequence
  PROVE  UNCHANGED Register!registerVars
<1>1. [i \in DOMAIN tickets' |-> Entry(tickets'[i])] = [i \in DOMAIN tickets |-> Entry(tickets[i])]
  OBVIOUS
<1> QED BY <1>1 DEF Register!registerVars

\* What the unique columns let in is an entry.
LEMMA TicketEnters ==
  ASSUME NumbersInv, DeskInv, NEW t \in inflight, CommitTicket(t), ~Conflicts(t)
  PROVE  Register!RegisterNext
<1> DEFINE p == t.ticket.prefix
           source == t.ticket.source
           n == Len(tickets)
           list == [i \in DOMAIN tickets |-> Entry(tickets[i])]
<1>1. t.kind = "ticket" /\ tickets' = Append(tickets, t.ticket) /\ sequence' = [sequence EXCEPT ![p] = t.ticket.number]
  BY DEF CommitTicket
<1>2. p \in Prefixes /\ t.ticket.number = sequence[p] + 1
  BY <1>1, NextNumber
<1>3. source \in Requests \cup Calls \cup {None}
  BY <1>1 DEF DeskInv, Decided, Row
<1>4. /\ n \in Nat /\ tickets = [i \in 1 .. n |-> tickets[i]] /\ DOMAIN tickets = 1 .. n
  BY DEF NumbersInv, Listed
<1>5. tickets' = [i \in 1 .. n + 1 |-> IF i = n + 1 THEN t.ticket ELSE tickets[i]]
  BY <1>1, <1>4, Appended
<1>6. Entry(t.ticket) = [prefix |-> p, number |-> sequence[p] + 1, source |-> source]
  BY <1>2 DEF Entry
<1>7. list' = Append(list, Entry(t.ticket))
  <2>1. Len(list) = n /\ list = [i \in 1 .. Len(list) |-> list[i]]
    <3>1. list \in [1 .. n -> {Entry(tickets[i]) : i \in 1 .. n}]
      BY <1>4
    <3>2. Len(list) = n
      <4> HIDE DEF list
      <4> QED BY <1>4, <3>1
    <3> QED BY <1>4, <3>2
  <2>2. Append(list, Entry(t.ticket)) = [i \in 1 .. n + 1 |-> IF i = n + 1 THEN Entry(t.ticket) ELSE list[i]]
    <3> HIDE DEF list
    <3> QED BY <1>4, <2>1, Appended
  <2>3. list' = [i \in 1 .. n + 1 |-> Entry(IF i = n + 1 THEN t.ticket ELSE tickets[i])]
    BY <1>4, <1>5
  <2>4. \A i \in 1 .. n + 1 : Entry(IF i = n + 1 THEN t.ticket ELSE tickets[i]) = IF i = n + 1 THEN Entry(t.ticket) ELSE list[i]
    BY <1>4
  <2> QED BY <2>2, <2>3, <2>4
<1>8. source = None \/ ~Register!Entered(source)
  <2>1. \A i \in DOMAIN tickets : source # None => tickets[i].source # source
    BY DEF Conflicts, From
  <2> QED BY <2>1 DEF Register!Entered, Entry
<1>9. sequence' = [sequence EXCEPT ![p] = @ + 1]
  BY <1>1, <1>2 DEF NumbersInv
<1>10. Register!Enter(p, source)
  BY <1>6, <1>7, <1>8, <1>9 DEF Register!Enter
<1> QED BY <1>2, <1>3, <1>10 DEF Register!RegisterNext

LEMMA StepRegister == ClockInv /\ [Next]_vars => [Register!RegisterNext]_(Register!registerVars)
<1> SUFFICES ASSUME ClockInv, [Next]_vars PROVE [Register!RegisterNext]_(Register!registerVars)
  OBVIOUS
<1> USE DEF ClockInv
<1>1. CASE \E t \in inflight : CommitTicket(t)
  <2>1. PICK t \in inflight : CommitTicket(t)
    BY <1>1
  <2>2. CASE Conflicts(t)
    BY <2>1, <2>2, RegisterStays DEF CommitTicket
  <2> QED BY <2>1, <2>2, TicketEnters
<1>2. CASE \E t \in inflight : CommitUpdate(t)
  <2>1. PICK t \in inflight : CommitUpdate(t)
    BY <1>2
  <2>2. DOMAIN tickets' = DOMAIN tickets /\ \A i \in DOMAIN tickets : Entry(tickets'[i]) = Entry(tickets[i])
    BY <2>1, IdentityStays DEF Entry
  <2> QED BY <2>1, <2>2, RegisterStays DEF CommitUpdate
<1>3. CASE ~\E t \in inflight : CommitTicket(t) \/ CommitUpdate(t)
  BY <1>3, StepIsQuiet, RegisterStays DEF Quiet
<1> QED BY <1>1, <1>2, <1>3

\* Whatever submissions, listeners and numbers race, the desk is a register: every step
\* enters one ticket at its end, with the next number of its prefix and for someone who
\* has none, or leaves what identifies the tickets alone.
THEOREM ImplementsRegister == Spec => OneRegister
<1>1. Init => Register!RegisterInit
  <2> SUFFICES ASSUME Init PROVE Register!RegisterInit
    OBVIOUS
  <2>1. tickets = <<>> /\ sequence = [p \in Prefixes |-> 0]
    BY DEF Init, DeskInit
  <2>2. [i \in DOMAIN tickets |-> Entry(tickets[i])] = <<>>
    BY <2>1
  <2> QED BY <2>1, <2>2 DEF Register!RegisterInit
<1> QED BY <1>1, StepRegister, ClocksAreKept, PTL DEF Spec, OneRegister, Register!RegisterSpec

-----------------------------------------------------------------------------
(* Telephony.                                                              *)

PhoneTypes ==
  /\ connection \in [Connections -> Connection] /\ granting \subseteq Connections
  /\ listener \in [Connections -> {"none", "connecting", "listening"}]

LEMMA StepPhone == PhoneTypes /\ [Next]_vars => PhoneTypes'
<1> SUFFICES ASSUME PhoneTypes, [Next]_vars PROVE PhoneTypes'
  OBVIOUS
<1>1. CASE UNCHANGED phoneVars
  BY <1>1 DEF phoneVars, PhoneTypes
<1>2. ASSUME NEW c \in Connections, NEW new \in Connection, Edits(c, new), granting' \subseteq granting \cup {c}
      PROVE  PhoneTypes'
  BY <1>2 DEF Edits, PhoneTypes
<1>3. ASSUME NEW c \in Connections PROVE connection[c] \in Connection
  BY DEF PhoneTypes
<1>4. ASSUME NEW c \in Connections,
             StartAuthorization(c) \/ AuthorizationReturns(c) \/ AuthorizationExpires(c)
      PROVE  PhoneTypes'
  <2>1. \E new \in Connection : Edits(c, new)
    <3>1. /\ [connection[c] EXCEPT !.status = "Authorization required"] \in Connection
          /\ [connection[c] EXCEPT !.enabled = TRUE, !.status = "Connected"] \in Connection
          /\ [connection[c] EXCEPT !.status = "Authorization failed"] \in Connection
      BY <1>3 DEF Connection
    <3> QED BY <1>3, <1>4, <3>1, Zenon DEF StartAuthorization, AuthorizationReturns, AuthorizationExpires
  <2>2. granting' \subseteq granting \cup {c}
    BY <1>4 DEF StartAuthorization, AuthorizationReturns, AuthorizationExpires
  <2> QED BY <1>2, <2>1, <2>2
<1>5. ASSUME NEW c \in Connections, TestConnection(c) \/ TestFails(c) \/ UpdateConnection(c) \/ ArchiveConnection(c)
      PROVE  PhoneTypes'
  <2>1. \E new \in Connection : Edits(c, new)
    <3>1. \A s \in {"Authorization required", "Disabled", "Connected", "Connection failed"} :
            [connection[c] EXCEPT !.status = s] \in Connection
      BY <1>3 DEF Connection
    <3>2. CASE TestConnection(c)
      <4>1. PICK s : /\ s \in {"Authorization required", "Disabled", connection[c].status}
                     /\ Edits(c, [connection[c] EXCEPT !.status = s])
        BY <3>2 DEF TestConnection
      <4>2. [connection[c] EXCEPT !.status = s] \in Connection
        BY <1>3, <4>1 DEF Connection
      <4> QED BY <4>1, <4>2, Zenon
    <3>3. CASE TestFails(c)
      BY <3>1, <3>3, Zenon DEF TestFails
    <3>4. CASE UpdateConnection(c)
      <4>1. PICK e \in BOOLEAN :
              Edits(c, [connection[c] EXCEPT !.enabled = e, !.status = IF e THEN "Configuration required" ELSE "Disabled"])
        BY <3>4 DEF UpdateConnection
      <4>2. [connection[c] EXCEPT !.enabled = e, !.status = IF e THEN "Configuration required" ELSE "Disabled"] \in Connection
        BY <1>3 DEF Connection
      <4> QED BY <4>1, <4>2, Zenon
    <3>5. CASE ArchiveConnection(c)
      <4>1. [enabled |-> FALSE, archived |-> TRUE, status |-> "Archived"] \in Connection
        BY DEF Connection
      <4> QED BY <3>5, <4>1 DEF ArchiveConnection
    <3> QED BY <1>5, <3>2, <3>3, <3>4, <3>5
  <2>2. granting' = granting
    BY <1>5 DEF TestConnection, TestFails, UpdateConnection, ArchiveConnection
  <2> QED BY <1>2, <2>1, <2>2
<1>6. ASSUME NEW c \in Connections, Supervise(c) \/ Connect(c) \/ Disconnect(c)
      PROVE  PhoneTypes'
  <2>1. PICK from, to \in {"none", "connecting", "listening"} : Listener(c, from, to)
    BY <1>6 DEF Supervise, Connect, Disconnect
  <2> QED BY <2>1 DEF Listener, PhoneTypes
<1>7. ASSUME NEW c \in Connections, NEW call \in Calls, Hear(c, call) PROVE PhoneTypes'
  BY <1>1, <1>7 DEF Hear
<1>8. CASE Restart
  BY <1>8 DEF Restart, PhoneTypes
<1>9. CASE DeskNext /\ UNCHANGED phoneVars
  BY <1>1, <1>9
<1>10. CASE UNCHANGED vars
  BY <1>1, <1>10 DEF vars
<1> QED BY <1>4, <1>5, <1>6, <1>7, <1>8, <1>9, <1>10 DEF Next, PhoneNext

\* Tickets, transactions, people and connections hold what their columns hold, and every
\* ticket has its clock.
THEOREM TelephonyTypeCorrect == Spec => []TypeOK
<1>1. Init => PhoneTypes
  BY DEF Init, PhoneTypes, Connection
<1>2. ClockInv /\ PhoneTypes => TypeOK
  <2> SUFFICES ASSUME ClockInv, PhoneTypes PROVE TypeOK
    OBVIOUS
  <2> DEFINE T == [prefix : Prefixes, number : Nat, source : Requests \cup Calls \cup {None},
                   status : Status, team : Teams, assignee : Staff \cup {None},
                   pausedAt : Nat \cup {None}, due : Nat]
  <2>1. \A i \in DOMAIN tickets : tickets[i] \in T
    BY DEF ClockInv, DeskInv, Row
  <2>2. Len(tickets) \in Nat /\ tickets = [i \in 1 .. Len(tickets) |-> tickets[i]]
    BY DEF ClockInv, NumbersInv, Listed
  <2> HIDE DEF T
  <2>3. tickets \in Seq(T)
    <3>1. tickets \in [1 .. Len(tickets) -> T]
      BY <2>1, <2>2
    <3> QED BY <2>2, <3>1
  <2> QED BY <2>3 DEF T, TypeOK, ClockInv, NumbersInv, RoutingInv, Rows, PeopleInv, DeskInv, PhoneTypes
<1> QED BY <1>1, <1>2, StepPhone, ClocksAreKept, PTL DEF Spec

-----------------------------------------------------------------------------
(* Mail: for any number of messages, attempts and stops.                   *)

InHand(n) == worker.phase = "send" /\ worker.item = n
InBatch(n) == worker.phase = "send" /\ n \in worker.batch

Arrived == {m \in Msg : inbox[m] # NoMail}

\* The item in hand is of the batch; a message in hand may be tried.
Batches ==
  /\ worker.phase \in {"idle", "imap"} => worker.item = Nothing
  /\ worker.phase \in {"mail", "imap"} => worker.batch \subseteq Arrived
  /\ worker.item # Nothing => worker.item \in worker.batch
  /\ worker.phase = "mail" /\ worker.item # Nothing => attempts[worker.item] < MaxAttempts
  /\ worker.draft \subseteq Arrived

\* Only notifications are suppressed.
Quieted == \A n \in worker.hushed : note[n] # "none"

\* A notification has a copy more than the process was stopped only when it is not to be
\* sent, or is being sent.
Counted(n) ==
  /\ copies[n] <= stops + 1
  /\ (note[n] = "pending" \/ InBatch(n)) /\ ~InHand(n) => copies[n] <= stops
  /\ InHand(n) => copies[n] >= 1

\* A message that was not handled has no notification.
Fresh(m) == MessageIsNew(m) => note[m] = "none" /\ copies[m] = 0 /\ ~InBatch(m)

MailInv ==
  /\ MailTypeOK /\ Batches /\ Quieted /\ HandledOnce /\ api \in Arrived \cup {Nothing}
  /\ \A n \in Note : Counted(n)
  /\ \A m \in Msg : Fresh(m)

\* The mailbox is empty, and the worker idle.
LEMMA MailBegins == MailInit => MailInv
<1> SUFFICES ASSUME MailInit PROVE MailInv
  OBVIOUS
<1>1. MailTypeOK
  BY MailAssumption DEF MailAssumption, MailInit, MailTypeOK, Msg, Note, Ticket, Nothing, T0, Unhandled, Handled, Copy, Idle, Phase
<1>2. Batches /\ Quieted /\ HandledOnce /\ api \in Arrived \cup {Nothing}
  BY DEF MailInit, Batches, Quieted, HandledOnce, Unhandled, Idle, Phase
<1>3. \A n \in Note : Counted(n)
  BY DEF MailInit, Counted, InHand, InBatch, Nothing, Note, Ticket, Idle, Phase
<1>4. \A m \in Msg : Fresh(m)
  BY MailAssumption DEF MailAssumption, MailInit, Idle, Phase, Fresh, InBatch, Note, Ticket, Msg, T0
<1> QED BY <1>1, <1>2, <1>3, <1>4 DEF MailInv

LEMMA MailNames == /\ Msg \subseteq Note /\ T0 \in Note /\ Nothing \notin Note
                   /\ MaxAttempts \in Nat /\ MaxStops \in Nat /\ Note \subseteq Nat
BY MailAssumption DEF MailAssumption, Msg, Note, Ticket, T0, Nothing

\* What becomes of a message: its ticket is there exactly if an entry is made.
MailResults == [status : Handled, ticket : Ticket \cup {Nothing}]

LEMMA CitedTicket ==
  ASSUME MailTypeOK, NEW m \in Msg, inbox[m] # NoMail
  PROVE  /\ TicketOfRef(inbox[m].ref) \in Ticket \cup {Nothing}
         /\ inbox[m].subject \in Ticket \cup {Nothing}
<1>1. inbox[m] \in Mail
  BY DEF MailTypeOK
<1>2. inbox[m].subject \in Ticket \cup {Nothing}
  BY <1>1 DEF Mail
<1>3. \A c \in known : c[1] \in Ticket
  BY DEF MailTypeOK, Copy, Note
<1> QED BY <1>2, <1>3 DEF TicketOfRef

LEMMA MailResult ==
  ASSUME MailTypeOK, NEW m \in Msg, inbox[m] # NoMail, NEW h \in {Processed(m)} \cup Ingested(m)
  PROVE  h \in MailResults /\ (h.ticket # Nothing <=> h.status \in {"created", "threaded"})
<1> USE CitedTicket, MailNames DEF MailResults, Handled, First, Note
<1>1. m \in Ticket /\ m # Nothing
  OBVIOUS
<1>2. CASE h = Processed(m)
  BY <1>1, <1>2 DEF Processed
<1>3. CASE h \in Ingested(m)
  BY <1>1, <1>3 DEF Ingested
<1> QED BY <1>2, <1>3

\* Messages are recorded: what their entries are follows from the records, and their
\* notifications are the first about them.
LEMMA MailRecorded ==
  ASSUME MailInv, NEW D \in SUBSET Msg, NEW handled \in [D -> MailResults],
         \A m \in D : handled[m].ticket # Nothing <=> handled[m].status \in {"created", "threaded"},
         NEW ns \in SUBSET Note, \A n \in ns : note[n] # "none", Record(handled, ns)
  PROVE  /\ email' \in [Msg -> [status : Handled \cup {"none"}, ticket : Ticket \cup {Nothing}]]
         /\ posts' \in [Msg -> 0 .. 2]
         /\ HandledOnce'
         /\ UNCHANGED <<inbox, copies, known>>
         /\ \A l \in Msg : MessageIsNew(l)' => l \notin D /\ MessageIsNew(l)
         /\ note' \in [Note -> {"none", "pending", "sent", "failed", "suppressed"}]
         /\ \A n \in Note : \/ note'[n] = note[n]
                            \/ note'[n] = "suppressed" /\ note[n] # "none"
                            \/ note'[n] # "none" /\ n \in D /\ copies[n] = 0 /\ ~InBatch(n)
<1>1. MailTypeOK /\ HandledOnce /\ D \subseteq Note /\ DOMAIN handled = D /\ \A m \in Msg : Fresh(m)
  BY MailNames DEF MailInv
<1>2. \A m \in D : email[m].status = "none"
  BY <1>1 DEF Record, MessageIsNew
<1>3. email' = [m \in Msg |-> IF m \in D THEN handled[m] ELSE email[m]]
  BY <1>1 DEF Record
<1>4. email' \in [Msg -> [status : Handled \cup {"none"}, ticket : Ticket \cup {Nothing}]]
  BY <1>1, <1>3 DEF MailTypeOK, MailResults
<1>5. \A m \in D : posts[m] = 0
  BY <1>1, <1>2 DEF HandledOnce
<1>6. posts' = [m \in Msg |-> IF m \in D /\ handled[m].ticket # Nothing THEN posts[m] + 1 ELSE posts[m]]
  BY <1>1 DEF Record
<1>7. posts' \in [Msg -> 0 .. 2] /\ \A l \in Msg : posts'[l] = IF l \in D /\ handled[l].ticket # Nothing THEN 1 ELSE posts[l]
  BY <1>1, <1>5, <1>6 DEF MailTypeOK
<1>8. \A l \in Msg : email'[l] = IF l \in D THEN handled[l] ELSE email[l]
  BY <1>3
<1>9. HandledOnce'
  BY <1>1, <1>5, <1>7, <1>8 DEF HandledOnce
<1>10. \A l \in Msg : MessageIsNew(l)' => l \notin D /\ MessageIsNew(l)
  BY <1>8 DEF MessageIsNew, MailResults, Handled
<1>11. PICK p \in SUBSET {m \in D : handled[m].ticket = m} : note' = [n \in Note |-> IF n \in p THEN "pending" ELSE Hushed(ns)[n]]
  BY <1>1 DEF Record, Notify
<1>12. \A n \in Note : note'[n] = IF n \in p THEN "pending" ELSE IF n \in ns THEN "suppressed" ELSE note[n]
  BY <1>11 DEF Hushed
<1>13. note' \in [Note -> {"none", "pending", "sent", "failed", "suppressed"}]
  BY <1>1, <1>11, <1>12 DEF MailTypeOK
<1>14. \A n \in D : copies[n] = 0 /\ ~InBatch(n)
  BY <1>1, <1>2 DEF Fresh, MessageIsNew
<1>15. \A n \in Note : \/ note'[n] = note[n]
                       \/ note'[n] = "suppressed" /\ note[n] # "none"
                       \/ note'[n] # "none" /\ n \in D /\ copies[n] = 0 /\ ~InBatch(n)
  <2>1. \A n \in p : n \in D /\ note'[n] = "pending"
    BY <1>1, <1>11, <1>12
  <2>2. \A n \in Note : n \notin p => note'[n] = note[n] \/ (note'[n] = "suppressed" /\ n \in ns)
    BY <1>12
  <2>3. ASSUME NEW n \in Note, n \in p PROVE note'[n] # "none" /\ n \in D /\ copies[n] = 0 /\ ~InBatch(n)
    BY <1>14, <2>1, <2>3
  <2>4. ASSUME NEW n \in Note, n \notin p PROVE note'[n] = note[n] \/ (note'[n] = "suppressed" /\ note[n] # "none")
    BY <2>2, <2>4
  <2> QED BY <2>3, <2>4
<1> QED BY <1>4, <1>7, <1>9, <1>10, <1>13, <1>15 DEF Record

\* Nothing joins the batch, and nothing comes into the hand.
Shrinks ==
  /\ \A n \in Note : InBatch(n)' => InBatch(n)
  /\ \A n \in Note : InHand(n)' => InHand(n)

Workers == [phase : {"idle", "mail", "send", "imap"}, batch : SUBSET Note,
            item : Note \cup {Nothing}, draft : SUBSET Msg, hushed : SUBSET Note]

\* The item in hand is done, or put back.
LEMMA Dropped ==
  ASSUME MailInv, NEW i \in Note, Drop(i), inbox' = inbox, worker.phase \in {"mail", "send"}, attempts' \in [Msg -> 0 .. MaxAttempts]
  PROVE  /\ worker' \in Workers /\ Batches' /\ Shrinks /\ ~InHand(i)' /\ ~InBatch(i)'
         /\ worker'.hushed = worker.hushed
<1>1. worker \in Workers
  BY DEF MailInv, MailTypeOK, Workers
<1>2. /\ worker'.phase = worker.phase /\ worker'.batch = worker.batch \ {i} /\ worker'.item = Nothing
      /\ worker'.draft = worker.draft /\ worker'.hushed = worker.hushed
  BY <1>1 DEF Drop, Workers
<1>3. worker' \in Workers
  BY <1>1 DEF Drop, Workers
<1>4. Batches'
  BY <1>2 DEF MailInv, Batches, Arrived
<1> QED BY <1>2, <1>3, <1>4, MailNames DEF Shrinks, InBatch, InHand

\* Messages and mailbox stay.
LEMMA MessagesStay ==
  ASSUME MailInv, UNCHANGED <<inbox, email, posts, known, api>>, attempts' \in [Msg -> 0 .. MaxAttempts],
         copies' = copies, worker' \in Workers, Batches', Shrinks, stops' = stops,
         seen' \subseteq Msg, lost' \subseteq Msg, \A n \in worker'.hushed : note[n] # "none",
         note' \in [Note -> {"none", "pending", "sent", "failed", "suppressed"}],
         \A n \in Note : note'[n] = "pending" => note[n] = "pending",
         \A n \in Note : note'[n] = note[n] \/ (note[n] # "none" /\ note'[n] # "none"),
         \A n \in Note : InHand(n) /\ ~InHand(n)' => note'[n] # "pending" /\ ~InBatch(n)'
  PROVE  MailInv'
<1>1. MailTypeOK' /\ HandledOnce' /\ api' \in Arrived' \cup {Nothing}
  BY DEF MailInv, MailTypeOK, HandledOnce, Workers, Arrived
<1>2. ASSUME NEW n \in Note PROVE Counted(n)'
  <2>1. Counted(n) /\ copies'[n] = copies[n] /\ stops' = stops /\ note'[n] \in {"pending"} => note[n] = "pending"
    BY DEF MailInv
  <2> QED BY <1>2, <2>1 DEF Counted, Shrinks, MailInv
<1>3. ASSUME NEW m \in Msg PROVE Fresh(m)'
  <2>1. MessageIsNew(m)' => MessageIsNew(m)
    BY DEF MessageIsNew
  <2> QED BY <2>1, MailNames DEF MailInv, Fresh, Shrinks
<1>4. Quieted'
  BY DEF Quieted, Workers
<1> QED BY <1>1, <1>2, <1>3, <1>4 DEF MailInv

LEMMA InboxArrived == Inbox("Microsoft 365") \subseteq Arrived /\ Inbox("IMAP") \subseteq Arrived
<1>1. NoMail.via = "none"
  BY DEF NoMail
<1>2. \A m \in Msg : inbox[m].via \in {"Microsoft 365", "IMAP"} => inbox[m] # NoMail
  BY <1>1
<1> QED BY <1>2 DEF Inbox, Arrived

LEMMA WorkerBegins == ASSUME MailInv, Poll PROVE MailInv'
<1>1. worker' = [phase |-> "mail", batch |-> {m \in Inbox("Microsoft 365") : MayTry(m)}, item |-> Nothing,
                 draft |-> {}, hushed |-> {}]
      /\ worker.phase = "idle"
  BY DEF Poll, Phase
<1>2. Inbox("Microsoft 365") \subseteq Arrived
  BY InboxArrived
<1>3. worker' \in Workers
  BY <1>1, MailNames DEF Workers, Inbox
<1>4. Batches'
  <2>1. Arrived' = Arrived
    BY DEF Poll, messageVars, Arrived
  <2>2. worker'.batch \subseteq Inbox("Microsoft 365")
    BY <1>1
  <2> QED BY <1>1, <1>2, <2>1, <2>2 DEF Batches
<1>5. Shrinks /\ worker'.hushed = {}
  BY <1>1 DEF Shrinks, InBatch, InHand
<1>6. \A n \in Note : ~InHand(n)
  BY <1>1 DEF InHand
<1> QED BY <1>3, <1>4, <1>5, <1>6, MessagesStay DEF Poll, messageVars, noteVars, imapVars, MailInv, MailTypeOK

LEMMA WorkerTakes == ASSUME MailInv, NEW m \in Msg, TakeMail(m) PROVE MailInv'
<1>1. /\ worker.phase = "mail" /\ worker.item = Nothing /\ m \in worker.batch /\ m \in Note /\ worker \in Workers
      /\ UNCHANGED <<messageVars, noteVars, imapVars, api, stops>>
  BY MailNames DEF TakeMail, Oldest, MailInv, MailTypeOK, Workers
<1>2. worker' \in Workers /\ Batches' /\ Shrinks /\ worker'.hushed = worker.hushed
  <2>1. CASE MayTry(m)
    <3>1. worker' = [worker EXCEPT !.item = m]
      BY <2>1 DEF TakeMail, Hand
    <3>2. /\ worker' \in Workers /\ worker'.phase = "mail" /\ worker'.batch = worker.batch /\ worker'.item = m
          /\ worker'.draft = worker.draft /\ worker'.hushed = worker.hushed
      BY <1>1, <3>1 DEF Workers
    <3> QED BY <1>1, <2>1, <3>2 DEF Batches, MailInv, Shrinks, InBatch, InHand, MayTry, messageVars, Arrived
  <2>2. CASE ~MayTry(m)
    BY <1>1, <2>2, Dropped DEF TakeMail, messageVars, MailInv, MailTypeOK
  <2> QED BY <2>1, <2>2
<1>3. \A n \in Note : ~InHand(n)
  BY <1>1 DEF InHand
<1> QED BY <1>1, <1>2, <1>3, MessagesStay DEF messageVars, noteVars, imapVars, MailInv, MailTypeOK, Quieted

LEMMA WorkerFails == ASSUME MailInv, NEW m \in Msg, MailFails(m) PROVE MailInv'
<1>1. /\ worker.phase = "mail" /\ worker.item = m /\ Drop(m) /\ m \in Note
      /\ UNCHANGED <<inbox, email, posts, noteVars, imapVars, api, stops>>
      /\ attempts' = [attempts EXCEPT ![m] = @ + 1]
  BY MailNames DEF MailFails
<1>2. attempts[m] < MaxAttempts /\ attempts \in [Msg -> 0 .. MaxAttempts]
  BY <1>1, MailNames DEF MailInv, MailTypeOK, Batches
<1>3. attempts' \in [Msg -> 0 .. MaxAttempts]
  BY <1>1, <1>2, MailNames
<1>4. \A n \in Note : ~InHand(n)
  BY <1>1 DEF InHand
<1>5. worker' \in Workers /\ Batches' /\ Shrinks /\ worker'.hushed = worker.hushed
  BY <1>1, <1>3, Dropped
<1> QED BY <1>1, <1>3, <1>4, <1>5, MessagesStay DEF noteVars, imapVars, MailInv, MailTypeOK, Quieted

\* Messages are recorded, by the worker or by email_ingest.
LEMMA RecordKeeps ==
  ASSUME MailInv, NEW D \in SUBSET Arrived, NEW handled, DOMAIN handled = D, handled = [m \in D |-> handled[m]],
         \A m \in D : handled[m] \in {Processed(m)} \cup Ingested(m),
         NEW ns \in SUBSET Note, \A n \in ns : note[n] # "none", Record(handled, ns),
         attempts' \in [Msg -> 0 .. MaxAttempts], stops' = stops, seen' \subseteq Msg, lost' \subseteq Msg,
         worker' \in Workers, Batches', worker'.hushed \subseteq worker.hushed, Shrinks, api' \in Arrived \cup {Nothing},
         \A n \in Note : InHand(n) => InHand(n)'
  PROVE  MailInv'
<1>1. \A m \in D : handled[m] \in MailResults /\ (handled[m].ticket # Nothing <=> handled[m].status \in {"created", "threaded"})
  BY MailResult DEF MailInv, Arrived
<1>2. handled \in [D -> MailResults] /\ D \in SUBSET Msg
  BY <1>1 DEF Arrived
<1>3. /\ email' \in [Msg -> [status : Handled \cup {"none"}, ticket : Ticket \cup {Nothing}]]
      /\ posts' \in [Msg -> 0 .. 2]
      /\ HandledOnce'
      /\ UNCHANGED <<inbox, copies, known>>
      /\ \A l \in Msg : MessageIsNew(l)' => l \notin D /\ MessageIsNew(l)
      /\ note' \in [Note -> {"none", "pending", "sent", "failed", "suppressed"}]
      /\ \A n \in Note : \/ note'[n] = note[n]
                         \/ note'[n] = "suppressed" /\ note[n] # "none"
                         \/ note'[n] # "none" /\ n \in D /\ copies[n] = 0 /\ ~InBatch(n)
  BY <1>1, <1>2, MailRecorded
<1>4. MailTypeOK' /\ api' \in Arrived' \cup {Nothing}
  BY <1>3 DEF MailInv, MailTypeOK, Workers, Arrived
<1>5. ASSUME NEW n \in Note PROVE Counted(n)'
  <2>1. Counted(n) /\ copies'[n] = copies[n] /\ stops \in Nat
    BY <1>3 DEF MailInv, MailTypeOK
  <2> QED BY <1>3, <2>1 DEF Counted, Shrinks
<1>6. ASSUME NEW l \in Msg PROVE Fresh(l)'
  <2>1. MessageIsNew(l)' => Fresh(l) /\ MessageIsNew(l) /\ l \in Note /\ l \notin D
    BY <1>3, MailNames DEF MailInv
  <2>2. MessageIsNew(l)' => note'[l] = "none"
    BY <1>3, <2>1 DEF Fresh
  <2> QED BY <1>3, <2>1, <2>2 DEF Fresh, Shrinks
<1>7. Quieted'
  <2>1. \A n \in worker'.hushed : n \in Note /\ note[n] # "none"
    BY DEF MailInv, Quieted, Workers
  <2> QED BY <1>3, <2>1 DEF Quieted
<1> QED BY <1>3, <1>4, <1>5, <1>6, <1>7 DEF MailInv

LEMMA WorkerCommits == ASSUME MailInv, NEW m \in Msg, CommitMail(m) PROVE MailInv'
<1> DEFINE handled == [l \in {m} |-> Processed(l)]
<1>1. /\ worker.phase = "mail" /\ worker.item = m /\ Drop(m) /\ m \in Note
      /\ Record(handled, {}) /\ UNCHANGED <<imapVars, api, stops>>
      /\ attempts' = [attempts EXCEPT ![m] = 0]
  BY MailNames DEF CommitMail
<1>2. attempts' \in [Msg -> 0 .. MaxAttempts]
  BY <1>1, MailNames DEF MailInv, MailTypeOK
<1>3. {m} \in SUBSET Arrived /\ inbox' = inbox
  BY <1>1, MailNames DEF MailInv, Batches, Record
<1>4. \A n \in Note : ~InHand(n)
  BY <1>1 DEF InHand
<1>5. worker' \in Workers /\ Batches' /\ Shrinks /\ worker'.hushed = worker.hushed
  BY <1>1, <1>2, <1>3, Dropped
<1>6. /\ DOMAIN handled = {m} /\ handled = [l \in {m} |-> handled[l]]
      /\ \A l \in {m} : handled[l] \in {Processed(l)} \cup Ingested(l)
  OBVIOUS
<1>7. seen' \subseteq Msg /\ lost' \subseteq Msg /\ api' \in Arrived \cup {Nothing}
  BY <1>1 DEF imapVars, MailInv, MailTypeOK
<1> HIDE DEF handled
<1> QED BY <1>1, <1>2, <1>3, <1>4, <1>5, <1>6, <1>7, RecordKeeps

\* What is pending is suppressed.
LEMMA SuppressedIs ==
  ASSUME MailInv, NEW ns \in SUBSET Pending
  PROVE  /\ Hushed(ns) \in [Note -> {"none", "pending", "sent", "failed", "suppressed"}]
         /\ \A n \in Note : Hushed(ns)[n] = note[n] \/ (Hushed(ns)[n] = "suppressed" /\ note[n] # "none")
BY DEF MailInv, MailTypeOK, Hushed, Pending

\* The messages of IMAP are next, or the run ends.
LEMMA Proceeds ==
  ASSUME MailInv, NEW ns \in SUBSET Pending, Proceed(ns), worker.item = Nothing,
         UNCHANGED <<messageVars, copies, known, imapVars, api, stops>>
  PROVE  MailInv'
<1>1. \A n \in Note : ~InHand(n)
  BY MailNames DEF InHand
<1>2. UNCHANGED <<inbox, email, posts, attempts, known, api, copies, stops, seen, lost>>
  BY DEF messageVars, imapVars
<1>3. CASE worker' = Idle /\ note' = Hushed(ns)
  <2>1. worker' \in Workers /\ Batches' /\ Shrinks /\ worker'.hushed = {}
    BY <1>3 DEF Idle, Phase, Workers, Batches, Shrinks, InBatch, InHand
  <2> QED BY <1>1, <1>2, <1>3, <2>1, SuppressedIs, MessagesStay DEF MailInv, MailTypeOK
<1>4. CASE worker' = [Phase("imap", Inbox("IMAP") \ seen) EXCEPT !.hushed = ns] /\ note' = note
  <2>1. Inbox("IMAP") \subseteq Arrived /\ Inbox("IMAP") \subseteq Note
    BY InboxArrived, MailNames DEF Inbox
  <2>2. worker' = [phase |-> "imap", batch |-> Inbox("IMAP") \ seen, item |-> Nothing, draft |-> {}, hushed |-> ns]
    BY <1>4 DEF Phase
  <2>3. worker' \in Workers /\ Batches' /\ Shrinks
    BY <1>2, <2>1, <2>2 DEF Workers, Batches, Shrinks, InBatch, InHand, Arrived, Pending
  <2>4. \A n \in worker'.hushed : note[n] # "none"
    BY <2>2 DEF Pending
  <2> QED BY <1>1, <1>2, <1>4, <2>3, <2>4, MessagesStay DEF MailInv, MailTypeOK
<1> QED BY <1>3, <1>4 DEF Proceed

\* What is pending is taken up: nothing was in hand, and none of it is of a new message.
LEMMA SendingBegins == ASSUME MailInv, StartSending PROVE MailInv'
<1>1. /\ worker.phase = "mail" /\ worker.batch = {}
      /\ UNCHANGED <<messageVars, copies, known, imapVars, api, stops>>
  BY DEF StartSending
<1>2. worker.item = Nothing /\ \A n \in Note : ~InHand(n) /\ ~InBatch(n)
  BY <1>1 DEF MailInv, Batches, InHand, InBatch
<1>3. CASE worker' = Phase("send", Pending) /\ note' = note
  <2>a. worker' = [phase |-> "send", batch |-> Pending, item |-> Nothing, draft |-> {}, hushed |-> {}]
    BY <1>3 DEF Phase
  <2>1. worker' \in Workers /\ Batches' /\ Quieted'
    BY <2>a DEF Workers, Pending, Batches, Quieted
  <2>2. \A n \in Note : (InBatch(n)' <=> note[n] = "pending") /\ ~InHand(n)'
    BY <2>a, MailNames DEF InBatch, InHand, Pending
  <2>3. \A n \in Note : Counted(n)'
    BY <1>1, <1>2, <1>3, <2>2 DEF MailInv, Counted
  <2>4. \A m \in Msg : Fresh(m)'
    BY <1>1, <1>3, <2>2, MailNames DEF MailInv, Fresh, MessageIsNew, messageVars
  <2>5. MailTypeOK' /\ HandledOnce' /\ api' \in Arrived' \cup {Nothing}
    BY <1>1, <1>3, <2>1 DEF MailInv, MailTypeOK, HandledOnce, Workers, Arrived, messageVars, imapVars
  <2> QED BY <2>1, <2>3, <2>4, <2>5 DEF MailInv
<1>4. CASE Proceed(Pending)
  BY <1>1, <1>2, <1>4, Proceeds
<1> QED BY <1>3, <1>4 DEF StartSending

LEMMA SendingEnds == ASSUME MailInv, EndSending PROVE MailInv'
<1>1. worker.item = Nothing
  BY DEF EndSending, MailInv, Batches
<1> QED BY <1>1, Proceeds DEF EndSending

LEMMA SwitchedOff == ASSUME MailInv, SwitchOff PROVE MailInv'
<1>1. /\ note' = Hushed(Pending)
      /\ UNCHANGED <<inbox, email, posts, known, api, copies, attempts, stops, worker, seen, lost>>
  BY DEF SwitchOff, messageVars, imapVars
<1>2. worker' \in Workers /\ Batches' /\ Shrinks /\ attempts' \in [Msg -> 0 .. MaxAttempts]
  BY <1>1 DEF MailInv, MailTypeOK, Workers, Batches, Shrinks, InBatch, InHand, Arrived
<1>3. (\A n \in Note : InHand(n) => InHand(n)') /\ \A n \in worker'.hushed : note[n] # "none"
  BY <1>1 DEF InHand, MailInv, Quieted
<1> QED BY <1>1, <1>2, <1>3, SuppressedIs, MessagesStay DEF MailInv, MailTypeOK

\* A copy more, while it is in hand.
LEMMA Sends == ASSUME MailInv, NEW n \in Note, Send(n) PROVE MailInv'
<1>1. /\ worker.phase = "send" /\ worker.item = Nothing /\ n \in worker.batch
      /\ copies' = [copies EXCEPT ![n] = @ + 1] /\ worker' = [worker EXCEPT !.item = n]
      /\ UNCHANGED <<messageVars, note, known, imapVars, api, stops>>
  BY DEF Send, Hand
<1>2. /\ worker \in Workers /\ copies \in [Note -> 0 .. MaxStops + 1] /\ stops \in 0 .. MaxStops /\ MaxStops \in Nat
  BY MailNames DEF MailInv, MailTypeOK, Workers
<1>3. /\ worker' \in Workers /\ worker'.phase = "send" /\ worker'.batch = worker.batch /\ worker'.item = n
      /\ worker'.draft = worker.draft /\ worker'.hushed = worker.hushed
  BY <1>1, <1>2 DEF Workers
<1>4. copies[n] <= stops
  BY <1>1, MailNames DEF MailInv, Counted, InBatch, InHand
<1>5. /\ copies' \in [Note -> 0 .. MaxStops + 1] /\ copies'[n] = copies[n] + 1
      /\ \A k \in Note \ {n} : copies'[k] = copies[k]
  BY <1>1, <1>2, <1>4
<1>6. Batches' /\ Quieted'
  BY <1>1, <1>3 DEF Batches, Quieted, Arrived, MailInv, messageVars
<1>7. \A k \in Note : (InBatch(k)' <=> InBatch(k)) /\ (InHand(k)' <=> k = n) /\ ~InHand(k)
  BY <1>1, <1>3, MailNames DEF InBatch, InHand
<1>8. \A k \in Note : Counted(k)'
  BY <1>1, <1>2, <1>4, <1>5, <1>7 DEF MailInv, Counted
<1>9. ASSUME NEW m \in Msg PROVE Fresh(m)'
  <2>1. Fresh(m) /\ m \in Note /\ (MessageIsNew(m)' <=> MessageIsNew(m))
    BY <1>1, MailNames DEF MailInv, MessageIsNew, messageVars
  <2>2. m = n => ~MessageIsNew(m)
    BY <1>1, <2>1 DEF Fresh, InBatch
  <2> QED BY <1>1, <1>5, <1>7, <2>1, <2>2 DEF Fresh
<1>10. MailTypeOK' /\ HandledOnce' /\ api' \in Arrived' \cup {Nothing}
  BY <1>1, <1>3, <1>5 DEF MailInv, MailTypeOK, HandledOnce, Workers, Arrived, messageVars, imapVars
<1> QED BY <1>6, <1>8, <1>9, <1>10 DEF MailInv

\* The result is committed.
LEMMA SentOrFailed == ASSUME MailInv, NEW n \in Note, CommitSent(n) \/ SendFails(n) PROVE MailInv'
<1>1. /\ worker.phase = "send" /\ worker.item \in {Nothing, n} /\ n \in worker.batch
      /\ Drop(n) /\ note' \in {[note EXCEPT ![n] = "sent"], [note EXCEPT ![n] = "failed"]}
      /\ known' \in {known, known \cup {<<n, copies[n]>>}} /\ (known' # known => worker.item = n)
      /\ UNCHANGED <<messageVars, copies, imapVars, api, stops>>
  BY MailNames DEF CommitSent, SendFails, MailInv, Batches
<1>2. worker' \in Workers /\ Batches' /\ Shrinks /\ ~InHand(n)' /\ ~InBatch(n)'
      /\ worker'.hushed = worker.hushed
  BY <1>1, Dropped DEF MailInv, MailTypeOK, messageVars
<1>3. /\ note' \in [Note -> {"none", "pending", "sent", "failed", "suppressed"}] /\ note'[n] # "pending"
      /\ \A k \in Note \ {n} : note'[k] = note[k] /\ ~InHand(k)
  BY <1>1, MailNames DEF MailInv, MailTypeOK, InHand
<1>4. known' \subseteq Copy
  <2>1. worker.item = n => copies[n] \in 1 .. MaxStops + 1
    <3>1. copies[n] \in 0 .. MaxStops + 1 /\ (InHand(n) => copies[n] >= 1) /\ MaxStops \in Nat
      BY MailNames DEF MailInv, MailTypeOK, Counted
    <3> QED BY <1>1, <3>1 DEF InHand
  <2>2. worker.item = n => <<n, copies[n]>> \in Copy
    BY <2>1 DEF Copy
  <2> QED BY <1>1, <2>2 DEF MailInv, MailTypeOK
<1>5. ASSUME NEW k \in Note PROVE Counted(k)'
  BY <1>1, <1>2, <1>3 DEF MailInv, Counted, Shrinks
<1>6. ASSUME NEW m \in Msg PROVE Fresh(m)'
  <2>1. Fresh(m) /\ m \in Note /\ (MessageIsNew(m)' <=> MessageIsNew(m))
    BY <1>1, MailNames DEF MailInv, MessageIsNew, messageVars
  <2>2. m = n => ~MessageIsNew(m)
    BY <1>1, <2>1 DEF Fresh, InBatch
  <2> QED BY <1>1, <1>2, <1>3, <2>1, <2>2 DEF Fresh, Shrinks
<1>7. MailTypeOK' /\ HandledOnce' /\ api' \in Arrived' \cup {Nothing}
  BY <1>1, <1>2, <1>3, <1>4 DEF MailInv, MailTypeOK, HandledOnce, Workers, Arrived, messageVars, imapVars
<1>8. Quieted'
  <2>1. \A k \in Note : note[k] # "none" => note'[k] # "none"
    BY <1>1 DEF MailInv, MailTypeOK
  <2> QED BY <1>2, <2>1 DEF MailInv, MailTypeOK, Quieted
<1> QED BY <1>2, <1>5, <1>6, <1>7, <1>8 DEF MailInv

\* A message of IMAP joins the draft.
LEMMA Fetches == ASSUME MailInv, NEW m \in Msg, FetchMail(m) PROVE MailInv'
<1>1. /\ worker.phase = "imap" /\ m \in worker.batch /\ seen' = seen \cup {m}
      /\ UNCHANGED <<inbox, email, posts, attempts, note, copies, known, lost, api, stops>>
      /\ worker' = [worker EXCEPT !.batch = @ \ {m}, !.draft = IF MessageIsNew(m) THEN @ \cup {m} ELSE @]
  BY DEF FetchMail, Oldest, messageVars, noteVars
<1>2. worker \in Workers /\ m \in Arrived
  BY <1>1 DEF MailInv, MailTypeOK, Workers, Batches
<1>3. /\ worker' \in Workers /\ worker'.phase = "imap" /\ worker'.item = worker.item
      /\ worker'.batch = worker.batch \ {m} /\ worker'.hushed = worker.hushed
      /\ worker'.draft \subseteq worker.draft \cup {m}
  BY <1>1, <1>2 DEF Workers
<1>4. Batches' /\ Shrinks /\ \A n \in Note : ~InHand(n)
  <2>1. Arrived' = Arrived /\ worker.batch \subseteq Arrived /\ worker.draft \subseteq Arrived
    BY <1>1 DEF Arrived, MailInv, Batches
  <2>2. worker.item = Nothing
    BY <1>1 DEF MailInv, Batches
  <2> QED BY <1>1, <1>2, <1>3, <2>1, <2>2 DEF Batches, Shrinks, InBatch, InHand
<1>5. seen' \subseteq Msg /\ lost' \subseteq Msg /\ \A n \in worker'.hushed : note[n] # "none"
  BY <1>1, <1>3 DEF MailInv, MailTypeOK, Quieted
<1> QED BY <1>1, <1>3, <1>4, <1>5, MessagesStay DEF MailInv, MailTypeOK

\* A run is given up with nothing in hand.
LEMMA Abandoned ==
  ASSUME MailInv, NEW fetched \in SUBSET Msg, Abandon(fetched), UNCHANGED <<messageVars, noteVars, api, stops>>,
         worker.phase = "imap"
  PROVE  MailInv'
<1>1. worker' = [phase |-> "idle", batch |-> {}, item |-> Nothing, draft |-> {}, hushed |-> {}]
  BY DEF Abandon, Idle, Phase
<1>2. UNCHANGED <<inbox, email, posts, attempts, note, copies, known, api, stops>>
  BY DEF messageVars, noteVars
<1>3. worker' \in Workers /\ Batches' /\ Shrinks /\ \A n \in Note : ~InHand(n)
  BY <1>1 DEF Workers, Batches, Shrinks, InBatch, InHand
<1>4. seen' \subseteq Msg /\ lost' \subseteq Msg
  BY DEF Abandon, MailInv, MailTypeOK
<1>5. worker'.hushed = {}
  BY <1>1
<1> QED BY <1>2, <1>3, <1>4, <1>5, MessagesStay DEF MailInv, MailTypeOK

LEMMA ImapCommits == ASSUME MailInv, CommitImap PROVE MailInv'
<1> DEFINE handled == [m \in worker.draft |-> Processed(m)]
<1>1. worker.phase = "imap" /\ UNCHANGED <<api, stops>> /\ worker \in Workers
  BY DEF CommitImap, MailInv, MailTypeOK, Workers
<1>2. CASE \A m \in worker.draft : MessageIsNew(m)
  <2>1. Record(handled, worker.hushed) /\ worker' = Idle /\ UNCHANGED <<attempts, seen, lost>> /\ inbox' = inbox
    BY <1>2 DEF CommitImap, imapVars, Record
  <2>2. /\ worker' \in Workers /\ worker'.hushed = {} /\ Batches' /\ Shrinks
        /\ \A n \in Note : ~InHand(n)
    BY <1>1, <2>1 DEF Idle, Phase, Workers, Batches, Shrinks, InBatch, InHand
  <2>3. /\ worker.draft \in SUBSET Arrived /\ worker.hushed \in SUBSET Note
        /\ \A n \in worker.hushed : note[n] # "none"
    BY <1>1 DEF MailInv, Batches, Quieted, Workers
  <2>4. /\ DOMAIN handled = worker.draft /\ handled = [m \in worker.draft |-> handled[m]]
        /\ \A m \in worker.draft : handled[m] \in {Processed(m)} \cup Ingested(m)
    OBVIOUS
  <2>5. /\ attempts' \in [Msg -> 0 .. MaxAttempts] /\ seen' \subseteq Msg /\ lost' \subseteq Msg
        /\ api' \in Arrived \cup {Nothing} /\ stops' = stops
    BY <1>1, <2>1 DEF MailInv, MailTypeOK
  <2>6. worker'.hushed \subseteq worker.hushed /\ \A n \in Note : InHand(n) => InHand(n)'
    BY <2>2
  <2> HIDE DEF handled
  <2> QED BY <2>1, <2>2, <2>3, <2>4, <2>5, <2>6, RecordKeeps
<1>3. CASE ~\A m \in worker.draft : MessageIsNew(m)
  BY <1>1, <1>3, Abandoned DEF CommitImap
<1> QED BY <1>2, <1>3

\* What was in hand may be sent again.
LEMMA WorkerStops == ASSUME MailInv, StopWorker PROVE MailInv'
<1>1. /\ worker' = [phase |-> "idle", batch |-> {}, item |-> Nothing, draft |-> {}, hushed |-> {}]
      /\ stops' = stops + 1 /\ stops < MaxStops /\ seen' = seen /\ lost' = lost \cup worker.draft
      /\ UNCHANGED <<inbox, email, posts, known, api, copies, attempts, note>>
  BY DEF StopWorker, Abandon, Idle, Phase, messageVars, noteVars
<1>2. stops \in 0 .. MaxStops /\ MaxStops \in Nat /\ copies \in [Note -> 0 .. MaxStops + 1] /\ worker.draft \subseteq Msg
  BY MailNames DEF MailInv, MailTypeOK
<1>3. Batches' /\ Quieted' /\ \A n \in Note : ~InHand(n)' /\ ~InBatch(n)'
  BY <1>1 DEF Batches, Quieted, InHand, InBatch
<1>4. \A n \in Note : Counted(n)'
  BY <1>1, <1>2, <1>3 DEF MailInv, Counted
<1>5. ASSUME NEW m \in Msg PROVE Fresh(m)'
  <2>1. Fresh(m) /\ m \in Note
    BY MailNames DEF MailInv
  <2> QED BY <1>1, <1>3, <2>1 DEF Fresh, MessageIsNew
<1>6. MailTypeOK' /\ HandledOnce' /\ api' \in Arrived' \cup {Nothing}
  BY <1>1, <1>2 DEF MailInv, MailTypeOK, HandledOnce, Arrived
<1> QED BY <1>3, <1>4, <1>5, <1>6 DEF MailInv

\* email_ingest.
LEMMA Ingests == ASSUME MailInv, NEW m \in Msg, BeginIngest(m) \/ CommitIngest(m) PROVE MailInv'
<1>1. UNCHANGED <<worker, stops, attempts, seen, lost>>
  BY DEF BeginIngest, CommitIngest, messageVars, imapVars
<1>2. /\ worker' \in Workers /\ Shrinks /\ attempts' \in [Msg -> 0 .. MaxAttempts]
      /\ seen' \subseteq Msg /\ lost' \subseteq Msg /\ \A n \in Note : InHand(n) => InHand(n)'
  BY <1>1 DEF MailInv, MailTypeOK, Workers, Shrinks, InBatch, InHand
<1>3. CASE CommitIngest(m) /\ MessageIsNew(m)
  <2>1. PICK h \in Ingested(m) : Record([l \in {m} |-> h], {})
    BY <1>3 DEF CommitIngest
  <2> DEFINE handled == [l \in {m} |-> h]
  <2>2. api' = Nothing /\ inbox' = inbox /\ {m} \in SUBSET Arrived
    BY <1>3, <2>1, MailNames DEF CommitIngest, Record, MailInv
  <2>3. Batches' /\ worker'.hushed \subseteq worker.hushed
    BY <1>1, <2>2 DEF MailInv, Batches, Arrived
  <2>4. /\ DOMAIN handled = {m} /\ handled = [l \in {m} |-> handled[l]] /\ Record(handled, {})
        /\ \A l \in {m} : handled[l] \in {Processed(l)} \cup Ingested(l)
    BY <2>1
  <2> HIDE DEF handled
  <2> QED BY <1>1, <1>2, <2>2, <2>3, <2>4, RecordKeeps
<1>4. CASE BeginIngest(m) \/ (CommitIngest(m) /\ ~MessageIsNew(m))
  <2>1. UNCHANGED <<inbox, email, posts, attempts, note, copies, known>> /\ api' \in Arrived \cup {Nothing}
    BY <1>4 DEF BeginIngest, CommitIngest, messageVars, noteVars, Arrived
  <2>2. Batches' /\ Quieted' /\ MailTypeOK' /\ HandledOnce' /\ api' \in Arrived' \cup {Nothing}
    BY <1>1, <2>1 DEF MailInv, Batches, Quieted, MailTypeOK, HandledOnce, Arrived
  <2>3. (\A n \in Note : Counted(n)') /\ (\A l \in Msg : Fresh(l)')
    BY <1>1, <2>1 DEF MailInv, Counted, Fresh, InHand, InBatch, MessageIsNew
  <2> QED BY <2>2, <2>3 DEF MailInv
<1> QED BY <1>3, <1>4

LEMMA ArrivesInBox ==
  ASSUME MailInv, NEW m \in Msg, Arrive(m)
  PROVE  \E mail \in Mail : mail # NoMail /\ inbox' = [inbox EXCEPT ![m] = mail] /\ inbox[m] = NoMail
<1>1. ASSUME NEW mail \in Mail PROVE mail # NoMail
  <2>1. mail.from \in {"requester", "colleague", "automatic"}
    BY DEF Mail
  <2>2. NoMail.from = "nobody"
    BY DEF NoMail
  <2> QED BY <2>1, <2>2
<1> QED BY <1>1 DEF Arrive

LEMMA Arrives == ASSUME MailInv, NEW m \in Msg, Arrive(m) PROVE MailInv'
<1>1. UNCHANGED <<email, posts, attempts, note, copies, known, seen, lost, worker, api, stops>>
  BY DEF Arrive, noteVars, imapVars
<1>2. PICK mail \in Mail : mail # NoMail /\ inbox' = [inbox EXCEPT ![m] = mail] /\ inbox[m] = NoMail
  BY ArrivesInBox
<1>3. inbox' \in [Msg -> Mail \cup {NoMail}] /\ Arrived \subseteq Arrived'
  BY <1>1, <1>2 DEF MailInv, MailTypeOK, Arrived
<1>4. Batches' /\ Quieted' /\ MailTypeOK' /\ HandledOnce' /\ api' \in Arrived' \cup {Nothing}
  BY <1>1, <1>3 DEF MailInv, Batches, Quieted, MailTypeOK, HandledOnce
<1>5. (\A n \in Note : Counted(n)') /\ (\A l \in Msg : Fresh(l)')
  BY <1>1 DEF MailInv, Counted, Fresh, InHand, InBatch, MessageIsNew
<1> QED BY <1>4, <1>5 DEF MailInv

LEMMA MailStep == MailInv /\ [MailNext]_mailVars => MailInv'
<1> SUFFICES ASSUME MailInv, [MailNext]_mailVars PROVE MailInv'
  OBVIOUS
<1>1. CASE UNCHANGED mailVars
  <2>1. Batches' /\ Quieted' /\ MailTypeOK' /\ HandledOnce' /\ api' \in Arrived' \cup {Nothing}
    BY <1>1 DEF mailVars, messageVars, noteVars, imapVars, MailInv, Batches, Quieted, MailTypeOK, HandledOnce, Arrived
  <2>2. (\A n \in Note : Counted(n)') /\ (\A l \in Msg : Fresh(l)')
    BY <1>1 DEF mailVars, messageVars, noteVars, MailInv, Counted, Fresh, InHand, InBatch, MessageIsNew
  <2> QED BY <2>1, <2>2 DEF MailInv
<1>2. CASE WorkerStep
  <2>1. ASSUME NEW m \in Msg, ImapFails(m) PROVE MailInv'
    BY <2>1, Abandoned DEF ImapFails
  <2> QED BY <1>2, <2>1, WorkerBegins, SendingBegins, SendingEnds, WorkerTakes, WorkerCommits, WorkerFails, Sends,
             SentOrFailed, Fetches, ImapCommits DEF WorkerStep
<1>3. CASE StopWorker \/ SwitchOff
  BY <1>3, WorkerStops, SwitchedOff
<1>4. CASE \E m \in Msg : BeginIngest(m) \/ CommitIngest(m) \/ Arrive(m)
  BY <1>4, Ingests, Arrives
<1> QED BY <1>1, <1>2, <1>3, <1>4 DEF MailNext

LEMMA MailInvariant == MailSpec => []MailInv
BY MailBegins, MailStep, PTL DEF MailSpec

\* The rows of e-mail keep their types: no more attempts of a message than
\* _MAIL_MAX_ATTEMPTS, whatever stops the worker between two of them.
THEOREM MailTypeCorrect == MailSpec => []MailTypeOK
BY MailInvariant, PTL DEF MailInv

\* A message leaves one entry exactly if its record says so, whatever failed, was retried
\* or was fed to email_ingest at the same time.
THEOREM MailHandledOnce == MailSpec => []HandledOnce
BY MailInvariant, PTL DEF MailInv

\* The provider takes a notification once, and once more for each time the worker was
\* stopped between that and its commit.
CopiesAreStops == \A n \in Note : copies[n] <= stops + 1

THEOREM SentAgainOnlyAfterStop == MailSpec => []CopiesAreStops
<1>1. MailInv => CopiesAreStops
  BY DEF MailInv, Counted, CopiesAreStops
<1> QED BY <1>1, MailInvariant, PTL

-----------------------------------------------------------------------------
(* Mail implements Mailbox.                                                *)

\* What is on record of a message came before it.
Judged == \A m \in Msg : ~MessageIsNew(m) => m \in Arrived

LEMMA StaysJudged ==
  ASSUME MailInv, Judged, UNCHANGED email, inbox' = inbox \/ \E m \in Msg : Arrive(m)
  PROVE  Judged'
<1>1. Arrived \subseteq Arrived'
  <2>1. ASSUME NEW m \in Msg, Arrive(m) PROVE Arrived \subseteq Arrived'
    BY <2>1, ArrivesInBox DEF Arrived, MailInv, MailTypeOK
  <2> QED BY <2>1 DEF Arrived
<1> QED BY <1>1 DEF Judged, MessageIsNew

\* Steps that leave what came and what was made of it leave the mailbox.
LEMMA BoxStays ==
  ASSUME UNCHANGED <<inbox, email, posts>>
  PROVE  UNCHANGED Box!boxVars
BY DEF Fate, Box!boxVars

LEMMA Fates == \A m \in Msg : Fate(m) \in {"expected", "waiting", "entered", "dismissed"}
BY DEF Fate

LEMMA FatesAre ==
  LET fates == [l \in Msg |-> Fate(l)]
  IN  fates' \in [Msg -> {"expected", "waiting", "entered", "dismissed"}] /\ \A l \in Msg : fates[l] = Fate(l) /\ fates'[l] = Fate(l)'
BY DEF Fate

\* Messages that are recorded had come and were not judged, and are judged as their entries
\* say.
LEMMA RecordJudges ==
  ASSUME MailInv, Judged, NEW D \in SUBSET Arrived, NEW handled, DOMAIN handled = D,
         \A m \in D : handled[m] \in {Processed(m)} \cup Ingested(m), NEW ns, Record(handled, ns), MailInv'
  PROVE  Box!BoxNext /\ Judged'
<1>1. D \subseteq Msg /\ inbox' = inbox /\ \A m \in D : inbox[m] # NoMail
  BY DEF Arrived, Record
<1>2. \A m \in D : handled[m] \in MailResults /\ (handled[m].ticket # Nothing <=> handled[m].status \in {"created", "threaded"})
  BY MailResult DEF MailInv, Arrived
<1>3. email' = [m \in Msg |-> IF m \in D THEN handled[m] ELSE email[m]]
  BY DEF Record
<1>4. \A m \in D : email[m].status = "none" /\ handled[m].status # "none"
  BY <1>2 DEF Record, MessageIsNew, MailResults, Handled
<1>5. ASSUME NEW m \in Msg PROVE Fate(m)' = IF m \in D THEN IF handled[m].ticket # Nothing THEN "entered" ELSE "dismissed"
                                             ELSE Fate(m)
  BY <1>1, <1>2, <1>3, <1>4 DEF Fate
<1>6. \A m \in D : Fate(m) = "waiting"
  BY <1>1, <1>4 DEF Fate
<1>7. posts' = [m \in Msg |-> IF m \in D /\ handled[m].ticket # Nothing THEN posts[m] + 1 ELSE posts[m]]
  BY DEF Record
<1>8. posts \in [Msg -> Nat] /\ posts' \in [Msg -> Nat]
  <2>1. posts \in [Msg -> 0 .. 2]
    BY DEF MailInv, MailTypeOK
  <2> QED BY <1>7, <2>1
<1>9. ASSUME NEW m \in Msg
      PROVE  /\ m \in D /\ handled[m].ticket # Nothing => Box!IsEntered(m)
             /\ m \in D /\ handled[m].ticket = Nothing => Box!IsDismissed(m)
             /\ m \notin D => Box!Rests(m)
  BY <1>5, <1>6, <1>7, <1>8, FatesAre DEF Box!Moves, Box!IsEntered, Box!IsDismissed, Box!Rests
<1>10. Judged'
  BY <1>1, <1>3 DEF Judged, MessageIsNew, Arrived
<1> QED BY <1>8, <1>9, <1>10, FatesAre DEF Box!BoxNext

LEMMA ArriveComes ==
  ASSUME MailInv, Judged, NEW m \in Msg, Arrive(m)
  PROVE  Box!BoxNext
<1>1. PICK mail \in Mail : mail # NoMail /\ inbox' = [inbox EXCEPT ![m] = mail] /\ inbox[m] = NoMail
  BY ArrivesInBox
<1>2. UNCHANGED <<email, posts>> /\ m \in DOMAIN inbox /\ posts \in [Msg -> Nat]
  BY DEF Arrive, MailInv, MailTypeOK
<1>3. email[m].status = "none"
  BY <1>1 DEF Judged, MessageIsNew, Arrived
<1>4. Fate(m) = "expected" /\ Fate(m)' = "waiting"
  BY <1>1, <1>2, <1>3 DEF Fate
<1>5. \A l \in Msg : l # m => Fate(l)' = Fate(l)
  BY <1>1, <1>2 DEF Fate
<1>6. \A l \in Msg : IF l = m THEN Box!Comes(l) ELSE Box!Rests(l)
  BY <1>2, <1>4, <1>5, FatesAre DEF Box!Moves, Box!Comes, Box!Rests
<1> QED BY <1>2, <1>6, FatesAre DEF Box!BoxNext

\* Only what records messages, and an arrival, is a step of the mailbox.
LEMMA StepBox == MailInv /\ Judged /\ MailInv' /\ [MailNext]_mailVars => [Box!BoxNext]_(Box!boxVars) /\ Judged'
<1> SUFFICES ASSUME MailInv, Judged, MailInv', [MailNext]_mailVars PROVE [Box!BoxNext]_(Box!boxVars) /\ Judged'
  OBVIOUS
<1>1. CASE UNCHANGED mailVars
  BY <1>1, BoxStays, StaysJudged DEF mailVars, messageVars
<1>2. CASE WorkerStep
  <2>1. ASSUME NEW m \in Msg, CommitMail(m) PROVE Box!BoxNext /\ Judged'
    <3> DEFINE handled == [l \in {m} |-> Processed(l)]
    <3>1. Record(handled, {}) /\ {m} \in SUBSET Arrived
      BY <2>1, MailNames DEF CommitMail, MailInv, Batches
    <3>2. DOMAIN handled = {m} /\ \A l \in {m} : handled[l] \in {Processed(l)} \cup Ingested(l)
      OBVIOUS
    <3> HIDE DEF handled
    <3> QED BY <3>1, <3>2, RecordJudges
  <2>2. ASSUME NEW m \in Msg, TakeMail(m) \/ MailFails(m) \/ FetchMail(m) \/ ImapFails(m) PROVE (UNCHANGED Box!boxVars) /\ Judged'
    BY <2>2, BoxStays, StaysJudged DEF TakeMail, MailFails, FetchMail, ImapFails, messageVars
  <2>3. ASSUME NEW n \in Note, Send(n) \/ CommitSent(n) \/ SendFails(n) PROVE (UNCHANGED Box!boxVars) /\ Judged'
    BY <2>3, BoxStays, StaysJudged DEF Send, CommitSent, SendFails, messageVars
  <2>4. ASSUME Poll \/ StartSending \/ EndSending PROVE (UNCHANGED Box!boxVars) /\ Judged'
    BY <2>4, BoxStays, StaysJudged DEF Poll, StartSending, EndSending, messageVars
  <2>5. ASSUME CommitImap PROVE [Box!BoxNext]_(Box!boxVars) /\ Judged'
    <3> DEFINE handled == [m \in worker.draft |-> Processed(m)]
    <3>1. CASE \A m \in worker.draft : MessageIsNew(m)
      <4>1. Record(handled, worker.hushed) /\ worker.draft \in SUBSET Arrived
        BY <2>5, <3>1 DEF CommitImap, MailInv, Batches
      <4>2. DOMAIN handled = worker.draft /\ \A l \in worker.draft : handled[l] \in {Processed(l)} \cup Ingested(l)
        OBVIOUS
      <4> HIDE DEF handled
      <4> QED BY <4>1, <4>2, RecordJudges
    <3>2. CASE ~\A m \in worker.draft : MessageIsNew(m)
      BY <2>5, <3>2, BoxStays, StaysJudged DEF CommitImap, messageVars
    <3> QED BY <3>1, <3>2
  <2> QED BY <1>2, <2>1, <2>2, <2>3, <2>4, <2>5 DEF WorkerStep
<1>3. CASE StopWorker \/ SwitchOff
  BY <1>3, BoxStays, StaysJudged DEF StopWorker, SwitchOff, messageVars
<1>4. ASSUME NEW m \in Msg, BeginIngest(m) PROVE (UNCHANGED Box!boxVars) /\ Judged'
  BY <1>4, BoxStays, StaysJudged DEF BeginIngest, messageVars
<1>5. ASSUME NEW m \in Msg, CommitIngest(m) PROVE [Box!BoxNext]_(Box!boxVars) /\ Judged'
  <2>1. CASE MessageIsNew(m)
    <3>1. PICK h \in Ingested(m) : Record([l \in {m} |-> h], {})
      BY <1>5, <2>1 DEF CommitIngest
    <3> DEFINE handled == [l \in {m} |-> h]
    <3>2. Record(handled, {}) /\ {m} \in SUBSET Arrived
      BY <1>5, <3>1, MailNames DEF CommitIngest, MailInv
    <3>3. DOMAIN handled = {m} /\ \A l \in {m} : handled[l] \in {Processed(l)} \cup Ingested(l)
      OBVIOUS
    <3> HIDE DEF handled
    <3> QED BY <3>2, <3>3, RecordJudges
  <2>2. CASE ~MessageIsNew(m)
    BY <1>5, <2>2, BoxStays, StaysJudged DEF CommitIngest, messageVars
  <2> QED BY <2>1, <2>2
<1>6. ASSUME NEW m \in Msg, Arrive(m) PROVE Box!BoxNext /\ Judged'
  BY <1>6, ArriveComes, StaysJudged DEF Arrive
<1> QED BY <1>1, <1>2, <1>3, <1>4, <1>5, <1>6 DEF MailNext

\* However often a message is delivered, tried again or fed to email_ingest, the worker and
\* the endpoint are together a mailbox that judges each message once and for good.
THEOREM ImplementsMailbox == MailSpec => JudgedOnce
<1>1. MailInit => Box!BoxInit /\ Judged
  BY DEF MailInit, Box!BoxInit, Fate, Judged, MessageIsNew, Unhandled
<1> QED BY <1>1, StepBox, MailInvariant, PTL DEF MailSpec, JudgedOnce, Box!BoxSpec
=============================================================================
