-------------------------------- MODULE Desk --------------------------------
(***************************************************************************)
(* Tickets are opened through the portal (main.py) and as incidents        *)
(* (incident_api.py), numbered, routed and given a due date (services.py), *)
(* and worked on.                                                          *)
(*                                                                         *)
(* A request is a transaction, as in Routing: what it creates or changes   *)
(* is decided when it reads, and written when it commits.                  *)
(***************************************************************************)
EXTENDS Routing, SlaClock, Sequences

CONSTANTS
  Prefixes, Incident,  \* of ticket numbers, and that of incidents and calls
  Requests,            \* incidents that browsers submit, each once or more
  Settings,            \* what administrators publish: calendar, minutes, pauses
  GivenSettings,       \* at the start
  PortalMinutes        \* until a ticket of the portal is due

Status == {"New", "Assigned", "Open", "In Progress", "Waiting on User", "Resolved", "Closed"}

ASSUME DeskAssumption ==
  /\ Incident \in Prefixes /\ None \notin Requests /\ PortalMinutes \in Nat
  /\ GivenSettings \in Settings /\ Settings \subseteq [cal : Calendar, minutes : Nat, pauses : SUBSET Status]

VARIABLES
  tickets,   \* in the order of their ids
  sequence,  \* the last number of each prefix
  turns,     \* whom each queue and team took last
  settings,  \* of incidents, in force
  now,       \* minutes
  \* History, for the properties:
  waits,     \* of each ticket: the target it was given, when it began to wait, how long it waited
  off        \* tickets that waited, or stopped waiting, other than through one update_ticket

deskVars == <<tickets, sequence, turns, settings, now, waits, off>>

Done == {"Resolved", "Closed"}

DeskInit ==
  /\ RoutingInit
  /\ tickets = <<>> /\ waits = <<>> /\ off = {}
  /\ sequence = [p \in Prefixes |-> 0]
  /\ turns = [k \in Queues \cup Teams |-> None]
  /\ settings = GivenSettings
  /\ now = 0

Load == [u \in Staff |-> Cardinality({i \in DOMAIN tickets : tickets[i].assignee = u /\ tickets[i].status \notin Done})]

\* Mutant of From: what the browser or the call is known by is not kept.
FromNobody(source) == {}

\* The ticket of a submission or of a call.
From(source) == {i \in DOMAIN tickets : source # None /\ tickets[i].source = source}

-----------------------------------------------------------------------------
(* New tickets.                                                            *)

\* configured_sla_dates for incidents; sla_dates for the others: hours, on no calendar.
IncidentTarget == [minutes |-> settings.minutes, cal |-> settings.cal]
PlainTarget == [minutes |-> PortalMinutes, cal |-> [always |-> TRUE, days |-> {}, open |-> 0, close |-> 0]]

Due(target) == AddOperationalMinutes(now, target.minutes, target.cal)

\* A ticket with the next number of its prefix, as far as the reader sees; by is the
\* listener that makes it, or None.
BeginTicket(prefix, source, status, target, routed, by) ==
  Begin([kind |-> "ticket", by |-> by, turn |-> routed.turn, target |-> target,
         ticket |-> [prefix |-> prefix, number |-> sequence[prefix] + 1, source |-> source, status |-> status,
                     team |-> routed.team, assignee |-> routed.assignee, pausedAt |-> None,
                     due |-> Due(target)]])

\* create_ticket.
CreateTicket(prefix, sample) ==
  LET routed == RouteIncident(sample, Load, turns)
  IN  /\ Take("ticket")
      /\ BeginTicket(prefix, None, IF routed.assignee = None THEN "New" ELSE "Assigned", PlainTarget, routed, None)

\* Whoever may assign picks a team in use, a technician of the team, or both.
MayWork(u, t) == u # None /\ staff[u].active /\ (Home(u) = t \/ u \in team[t].members)

Picked(routed) ==
  {[team |-> t, assignee |-> u, turn |-> routed.turn] :
     t \in {routed.team} \cup {t \in Teams : team[t].active}, u \in {routed.assignee} \cup Staff}

\* An earlier submission of the browser has been committed.
Submitted(request) == From(request) # {}

\* create_incident: a repetition gets the first ticket.
SubmitIncident(request, sample) ==
  /\ ~Submitted(request) /\ Due(IncidentTarget) # GivesUp
  /\ Take("ticket")
  /\ LET routed == RouteIncident(sample, Load, turns)
     IN  \E choice \in Picked(routed) :
           /\ choice.assignee = routed.assignee \/ MayWork(choice.assignee, choice.team)
           /\ BeginTicket(Incident, request, "Open", IncidentTarget, choice, None)

\* Mutant of Conflicts: the number is not unique.
SourceConflicts(t) == From(t.ticket.source) # {}

\* Unique constraints: of the number, and of the submission or the call.
Conflicts(t) ==
  \/ \E i \in DOMAIN tickets : tickets[i].prefix = t.ticket.prefix /\ tickets[i].number = t.ticket.number
  \/ From(t.ticket.source) # {}

CommitTicket(t) ==
  /\ t \in inflight /\ t.kind = "ticket"
  /\ inflight' = inflight \ {t}
  /\ IF Conflicts(t)
     THEN UNCHANGED <<tickets, sequence, turns, waits>>
     ELSE /\ tickets' = Append(tickets, t.ticket)
          /\ sequence' = [sequence EXCEPT ![t.ticket.prefix] = t.ticket.number]
          /\ turns' = IF t.turn = <<>> THEN turns ELSE [turns EXCEPT ![t.turn[1]] = t.turn[2]]
          /\ waits' = Append(waits, [created |-> now, target |-> t.target, since |-> None, total |-> 0])
  /\ UNCHANGED <<routingVars, settings, now, off, left>>

-----------------------------------------------------------------------------
(* Work on a ticket.                                                       *)

Paused(status) == status \in settings.pauses

\* Mutant of PauseTransition: the target does not move.
TargetStays(ticket, next, time, pauses) ==
  [due |-> ticket.due,
   pausedAt |-> CASE next \in pauses /\ ticket.status \notin pauses -> time
                  [] next \notin pauses -> None
                  [] OTHER -> ticket.pausedAt]

\* sla_pause_transition of a ticket that goes from its status to next: due and pausedAt.
PauseTransition(ticket, next, time, pauses) ==
  LET was == ticket.status \in pauses
      is  == next \in pauses
  IN  CASE is /\ ~was /\ ticket.pausedAt = None -> [due |-> ticket.due, pausedAt |-> time]
        [] was /\ ~is /\ ticket.pausedAt # None ->
             [due |-> ticket.due + (time - ticket.pausedAt), pausedAt |-> None]
        [] OTHER -> [due |-> ticket.due, pausedAt |-> ticket.pausedAt]

\* A transaction that writes what differs from the ticket as it is; kept says that it
\* keeps the clock, with sla_pause_transition.
Updates(i, new, kept, by) ==
  [kind |-> "update", id |-> i, at |-> now, kept |-> kept, by |-> by, writes |-> Writes(tickets[i], new)]

BeginUpdate(i, new, kept, by) ==
  /\ Begin(Updates(i, new, kept, by))
  /\ off' = off \cup (IF \E o \in inflight : o.kind = "update" /\ o.id = i THEN {i} ELSE {})

Works(i, new, kept) == Take("work") /\ BeginUpdate(i, new, kept, None)

\* update_ticket: a status, an assignee.
UpdateTicket(i) ==
  \/ \E s \in Status \ {tickets[i].status} :
       LET clock == PauseTransition(tickets[i], s, now, settings.pauses)
       IN  Works(i, [tickets[i] EXCEPT !.status = s, !.due = clock.due, !.pausedAt = clock.pausedAt], TRUE)
  \/ \E u \in Staff : Works(i, [tickets[i] EXCEPT !.assignee = u], TRUE)

\* reassign_ticket: to a queue, and to one of its technicians or to nobody.
Reassign(i, q) ==
  /\ tickets[i].status \notin Done /\ queue[q].active
  /\ \E u \in {None} \cup {u \in Members(EligibleTeams(q, queue[q].team)) : staff[u].active} :
       Works(i, [tickets[i] EXCEPT !.team = queue[q].team, !.assignee = u,
                                   !.status = IF u # None /\ @ = "New" THEN "Assigned" ELSE @], FALSE)

\* add_message of the requester: it closes the ticket, or ends the wait.
Reply(i) ==
  \/ tickets[i].status # "Closed" /\ Works(i, [tickets[i] EXCEPT !.status = "Closed"], FALSE)
  \/ tickets[i].status = "Waiting on User" /\ Works(i, [tickets[i] EXCEPT !.status = "In Progress"], FALSE)

Confirm(i) == tickets[i].status = "Resolved" /\ Works(i, [tickets[i] EXCEPT !.status = "Closed"], FALSE)
Reopen(i) == tickets[i].status \in Done /\ Works(i, [tickets[i] EXCEPT !.status = "In Progress"], FALSE)

\* bulk_update, of the one ticket.
BulkUpdate(i) ==
  \/ \E s \in Status \ {tickets[i].status} : Works(i, [tickets[i] EXCEPT !.status = s], FALSE)
  \/ \E u \in Staff : Works(i, [tickets[i] EXCEPT !.assignee = u], FALSE)

CommitUpdate(t) ==
  /\ t \in inflight /\ t.kind = "update"
  /\ inflight' = inflight \ {t}
  /\ tickets' = [tickets EXCEPT ![t.id] = Written(@, t.writes)]
  /\ LET was == Paused(tickets[t.id].status)
         is  == Paused(tickets'[t.id].status)
     IN  /\ waits' = [waits EXCEPT ![t.id] =
                        CASE is /\ ~was -> [@ EXCEPT !.since = t.at]
                          [] was /\ ~is /\ @.since # None ->
                               [@ EXCEPT !.since = None, !.total = @ + (t.at - waits[t.id].since)]
                          [] OTHER -> @]
         /\ off' = off \cup (IF was # is /\ ~t.kept THEN {t.id} ELSE {})
  /\ UNCHANGED <<routingVars, sequence, turns, settings, now, left>>

\* update_incident_settings.  A ticket whose status now counts as a pause, or no longer
\* does, or that is being updated, is off.
Publish(new) ==
  /\ Take("publish")
  /\ settings' = new
  /\ off' = off \cup {i \in DOMAIN tickets : Paused(tickets[i].status) # (tickets[i].status \in new.pauses)}
                \cup {t.id : t \in {t \in inflight : t.kind = "update"}}
  /\ UNCHANGED <<routingVars, inflight, tickets, sequence, turns, now, waits>>

\* Requests are done within their minute.
Tick ==
  /\ inflight = {}
  /\ Take("minute")
  /\ now' = now + 1
  /\ UNCHANGED <<routingVars, inflight, tickets, sequence, turns, settings, waits, off>>

NewTicket ==
  /\ \/ \E p \in Prefixes, s \in Samples : CreateTicket(p, s)
     \/ \E r \in Requests, s \in Samples : SubmitIncident(r, s)
  /\ UNCHANGED <<routingVars, deskVars>>

Work ==
  /\ \E i \in DOMAIN tickets :
       \/ UpdateTicket(i) \/ Reply(i) \/ Confirm(i) \/ Reopen(i) \/ BulkUpdate(i)
       \/ \E q \in Queues : Reassign(i, q)
  /\ UNCHANGED <<routingVars, tickets, sequence, turns, settings, now, waits>>

Organize ==
  /\ \/ Administration
     \/ \E u \in Staff : StaffChanges(u)
     \/ \E t \in inflight : t.kind \in {"rule", "queue", "team"} /\ CommitAdministration(t)
  /\ UNCHANGED deskVars

DeskNext ==
  \/ NewTicket \/ Work \/ Organize \/ Tick
  \/ \E t \in inflight : CommitTicket(t) \/ CommitUpdate(t)
  \/ \E new \in Settings : Publish(new)

-----------------------------------------------------------------------------
(* Properties.                                                             *)

\* The numbers of a prefix are those from 1 to its sequence, each of one ticket: a
\* transaction that read an older value never takes the sequence back.
NumbersInSequence ==
  \A p \in Prefixes :
    LET of == {i \in DOMAIN tickets : tickets[i].prefix = p}
    IN  {tickets[i].number : i \in of} = 1 .. sequence[p] /\ Cardinality(of) = sequence[p]

\* A submission that is repeated, and a call that several listeners hear, has one ticket.
OneTicketPerSource ==
  \A i, j \in DOMAIN tickets : tickets[i].source = tickets[j].source => i = j \/ tickets[i].source = None

\* The target of a ticket is the date that has just the given open minutes from its creation,
\* moved by the time each of its waits took, once.  The time of a wait is elapsed time, open
\* or not: what was open of it is not looked at (KNOWN_LIMITATIONS.md: "holiday-aware
\* pause/resume accounting is not yet complete").  This holds of waits that update_ticket
\* begins and ends, not of tickets that are off: a reply, a bulk update or a call ended
\* a wait, updates overlapped, or the pauses were published again.
TargetMovesByWaits ==
  \A i \in DOMAIN tickets :
    i \in off \/ OpenMinutes(waits[i].created, tickets[i].due - waits[i].total, waits[i].target.cal)
                   = waits[i].target.minutes
=============================================================================
