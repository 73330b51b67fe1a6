------------------------------ MODULE Routing ------------------------------
(***************************************************************************)
(* Which team and technician get a new ticket (route_incident and          *)
(* route_ticket of services.py), and the rules, queues and teams that      *)
(* administrators edit for it (admin_api.py).                              *)
(*                                                                         *)
(* An administrator's request reads, decides and commits without locks; it *)
(* is a transaction with the columns it changes, in flight until it is     *)
(* committed.                                                              *)
(***************************************************************************)
EXTENDS Integers, FiniteSets

CONSTANTS
  Staff, Teams, Rules,  \* technicians, teams, and rules in their order: numbers
  Queues,
  Samples,              \* kinds of requests, as the conditions of a rule tell them apart
  Home(_), Skills(_),   \* a technician's own team; the samples a team is skilled in
  DefaultTeam, Method,  \* of the routing without a rule
  GivenQueue(_), GivenRule(_),           \* at the start
  RuleEdits, QueueEdits,                 \* what administrators save
  None,
  Budgets               \* bounds: how often each kind of step is taken, and how many
                        \* transactions are in flight at once

ASSUME RoutingAssumption ==
  /\ Staff \subseteq Nat /\ Teams \subseteq Nat /\ Rules \subseteq Nat
  /\ IsFiniteSet(Staff) /\ IsFiniteSet(Teams) /\ IsFiniteSet(Rules)
  /\ DefaultTeam \in Teams /\ \A u \in Staff : Home(u) \in Teams
  /\ Method \in {"least_active", "round_robin", "manual"}

VARIABLES
  staff,     \* [active, available]
  team,      \* [active, members]
  queue,     \* [active, team, eligible, strategy]
  rule,      \* [active, conditions, queue, team, strategy, stop]
  versions,  \* snapshots of rules
  inflight,  \* transactions that have read and not committed
  strayed,   \* history: rules that were saved past a change of their queue
  left       \* steps left of each kind, the bounds

routingVars == <<staff, team, queue, rule, versions, strayed>>

Strategy == {"round_robin", "least_active", "manual"}
Team == [active : BOOLEAN, members : SUBSET Staff]
Queue == [active : BOOLEAN, team : Teams, eligible : SUBSET Teams, strategy : Strategy]
Rule == [active : BOOLEAN, conditions : SUBSET Samples, queue : Queues \cup {None},
         team : Teams \cup {None}, strategy : Strategy \cup {None}, stop : BOOLEAN]

\* What administrators save are rows, and at the start the rules go where tickets can.
ASSUME RowsAssumption ==
  /\ RuleEdits \subseteq Rule /\ QueueEdits \subseteq Queue
  /\ \A q \in Queues : GivenQueue(q) \in Queue
  /\ \A r \in Rules : GivenRule(r) \in Rule
  /\ \A r \in Rules :
       (GivenRule(r).active /\ GivenRule(r).queue # None) => GivenQueue(GivenRule(r).queue).active

RoutingInit ==
  /\ staff = [u \in Staff |-> [active |-> TRUE, available |-> TRUE]]
  /\ team = [t \in Teams |-> [active |-> TRUE, members |-> {u \in Staff : Home(u) = t}]]
  /\ queue = [q \in Queues |-> GivenQueue(q)]
  /\ rule = [r \in Rules |-> GivenRule(r)]
  /\ versions = {<<r, GivenRule(r)>> : r \in Rules}
  /\ inflight = {} /\ strayed = {}
  /\ left \in Budgets

Take(kind) == left[kind] > 0 /\ left' = [left EXCEPT ![kind] = @ - 1]

Begin(t) == Cardinality(inflight) < left.atOnce /\ inflight' = inflight \cup {t}

Least(S) == CHOOSE x \in S : \A y \in S : x <= y

-----------------------------------------------------------------------------
(* Choosing a technician.  load gives the open tickets of each, and last   *)
(* whom each queue and team took last.                                     *)

Available(S) == {u \in S : staff[u].active /\ staff[u].available}

LeastActive(S, load) == LET least == Least({load[u] : u \in S}) IN Least({u \in S : load[u] = least})

NextInTurn(S, previous) ==
  IF previous \in S /\ \E u \in S : u > previous THEN Least({u \in S : u > previous}) ELSE Least(S)

\* The technician by strategy, and whom that makes the last of key.
Chosen(S, strategy, key, load, last) ==
  CASE S = {} \/ strategy = "manual" -> [assignee |-> None, turn |-> <<>>]
    [] S # {} /\ strategy = "least_active" -> [assignee |-> LeastActive(S, load), turn |-> <<>>]
    [] OTHER -> LET u == NextInTurn(S, last[key]) IN [assignee |-> u, turn |-> <<key, u>>]

Routed(t, choice) == [team |-> t, assignee |-> choice.assignee, turn |-> choice.turn]

\* route_ticket: the first team with the skill, else the default one, archived or not.
SkilledTeam(sample) ==
  LET skilled == {t \in Teams : sample \in Skills(t)} IN IF skilled = {} THEN DefaultTeam ELSE Least(skilled)

RouteTicket(sample, load, last) ==
  LET t == SkilledTeam(sample)
  IN  Routed(t, Chosen(Available({u \in Staff : Home(u) = t}), Method, t, load, last))

\* The rules that match and stop the search, and the first of them.
Stopping(sample) ==
  {r \in Rules : /\ rule[r].active /\ sample \in rule[r].conditions
                 /\ rule[r].queue # None \/ rule[r].team # None \/ rule[r].stop}

\* The teams of a rule's queue, or its team alone.
EligibleTeams(q, t) == IF q # None /\ queue[q].eligible # {} THEN queue[q].eligible ELSE {t}
Members(T) == UNION {team[t].members : t \in T}

\* route_incident: neither the queue nor the team is asked whether it is active.
RouteBy(r, load, last) ==
  LET q == rule[r].queue
      t == IF rule[r].team # None THEN rule[r].team ELSE queue[q].team
      strategy == CASE rule[r].strategy # None -> rule[r].strategy
                    [] rule[r].strategy = None /\ q # None -> queue[q].strategy
                    [] OTHER -> "round_robin"
  IN  Routed(t, Chosen(Available(Members(EligibleTeams(q, t))), strategy, IF q # None THEN q ELSE t, load, last))

RouteIncident(sample, load, last) ==
  LET stopping == Stopping(sample)
      r == Least(stopping)
  IN  IF stopping = {} \/ (rule[r].queue = None /\ rule[r].team = None)
      THEN RouteTicket(sample, load, last)
      ELSE RouteBy(r, load, last)

-----------------------------------------------------------------------------
(* Administration.                                                         *)

\* The columns a transaction changes, and the row with them.
Writes(old, new) == [f \in {c \in DOMAIN old : new[c] # old[c]} |-> new[f]]
Written(row, writes) == [f \in DOMAIN row |-> IF f \in DOMAIN writes THEN writes[f] ELSE row[f]]

Deactivates(t, q) ==
  /\ t.kind = "queue" /\ t.queue = q
  /\ "active" \in DOMAIN t.writes /\ ~t.writes.active

Saves(t, r) == t.kind = "rule" /\ t.rule = r

BeginAdministration(t, astray) ==
  /\ Take("administration")
  /\ Begin(t)
  /\ strayed' = strayed \cup astray
  /\ UNCHANGED <<staff, team, queue, rule, versions>>

\* A save of r with the content new; one that overlaps another, or the end of its queue,
\* is astray.
BeginRule(r, new, snapshot, astray) ==
  BeginAdministration(
    [kind |-> "rule", rule |-> r, queue |-> new.queue, writes |-> Writes(rule[r], new), snapshot |-> snapshot],
    IF astray \/ \E t \in inflight : Saves(t, r) \/ Deactivates(t, new.queue) THEN {r} ELSE {})

\* create_routing and update_routing: validated.
Valid(new) ==
  /\ new.queue # None => queue[new.queue].active
  /\ new.team # None => team[new.team].active

SaveRule(r, new) == Valid(new) /\ BeginRule(r, new, TRUE, FALSE)

\* rollback_routing: not validated.
RollbackRule(r, old) ==
  /\ <<r, old>> \in versions
  /\ BeginRule(r, old, TRUE, old.queue # None /\ ~queue[old.queue].active)

ArchiveRule(r) == BeginRule(r, [rule[r] EXCEPT !.active = FALSE], FALSE, FALSE)

BeginQueue(q, new, users) ==
  LET t == [kind |-> "queue", queue |-> q, writes |-> Writes(queue[q], new)]
  IN  BeginAdministration(t,
        IF Deactivates(t, q) THEN users \cup {o.rule : o \in {o \in inflight : o.kind = "rule" /\ o.queue = q}} ELSE {})

UsersOf(q) == {r \in Rules : rule[r].queue = q}

\* update_queue: nobody asks for rules that use the queue; archived teams are left out.
UpdateQueue(q, new) ==
  BeginQueue(q, [new EXCEPT !.eligible =
                   {t \in (IF @ = {} THEN {new.team} ELSE @) : team[t].active}], UsersOf(q))

\* Mutant of InUse: the rules are not asked.
InUseNot(q) == FALSE

InUse(q) == \E r \in Rules : rule[r].active /\ rule[r].queue = q

ArchiveQueue(q) == ~InUse(q) /\ BeginQueue(q, [queue[q] EXCEPT !.active = FALSE], {})

\* update_team and archive_team: of the members, the active accounts stay.
UpdateTeam(t, members, active) ==
  BeginAdministration(
    [kind |-> "team", team |-> t,
     writes |-> Writes(team[t], [active |-> active, members |-> {u \in members : staff[u].active}])], {})

CommitAdministration(t) ==
  /\ t \in inflight
  /\ inflight' = inflight \ {t}
  /\ \/ /\ t.kind = "rule"
        /\ rule' = [rule EXCEPT ![t.rule] = Written(@, t.writes)]
        /\ versions' = versions \cup (IF t.snapshot THEN {<<t.rule, rule'[t.rule]>>} ELSE {})
        /\ UNCHANGED <<queue, team>>
     \/ /\ t.kind = "queue"
        /\ queue' = [queue EXCEPT ![t.queue] = Written(@, t.writes)]
        /\ UNCHANGED <<rule, versions, team>>
     \/ /\ t.kind = "team"
        /\ team' = [team EXCEPT ![t.team] = Written(@, t.writes)]
        /\ UNCHANGED <<rule, versions, queue>>
  /\ UNCHANGED <<staff, strayed, left>>

\* A technician comes, goes, or has the account taken.
StaffChanges(u) ==
  /\ Take("presence")
  /\ \/ staff' = [staff EXCEPT ![u].available = ~@]
     \/ staff[u].active /\ staff' = [staff EXCEPT ![u] = [active |-> FALSE, available |-> FALSE]]
  /\ UNCHANGED <<team, queue, rule, versions, inflight, strayed>>

Administration ==
  \/ \E r \in Rules :
       \/ \E new \in RuleEdits : SaveRule(r, new)
       \/ \E v \in versions : v[1] = r /\ RollbackRule(r, v[2])
       \/ ArchiveRule(r)
  \/ \E q \in Queues : ArchiveQueue(q) \/ \E new \in QueueEdits : UpdateQueue(q, new)
  \/ \E t \in Teams, M \in SUBSET Staff, a \in BOOLEAN : UpdateTeam(t, M, a)

-----------------------------------------------------------------------------
(* Property.                                                               *)

\* A rule that routes names a queue that is open, however rules and queues are edited,
\* except where a rule was rolled back to an archived queue, its queue was closed by an
\* edit, or two edits overlapped.
ActiveRulesResolve ==
  \A r \in Rules : rule[r].active /\ rule[r].queue # None => queue[rule[r].queue].active \/ r \in strayed
=============================================================================
