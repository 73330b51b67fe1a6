------------------------------ MODULE Telephony ------------------------------
(***************************************************************************)
(* Calls become tickets (ringcentral.py): the worker listens, one thread   *)
(* per connection, to the events of the calls of an account, which come    *)
(* late, again and in any order.  Administrators authorize, test and end   *)
(* the connections (admin_api.py).                                         *)
(***************************************************************************)
EXTENDS Desk

CONSTANTS
  Connections,
  Policy(_),    \* which calls a connection makes tickets of
  Calls,        \* call sessions
  PhoneSample   \* what routing sees of a call

ASSUME TelephonyAssumption ==
  /\ None \notin Calls \cup Connections /\ Calls \cap Requests = {} /\ PhoneSample \in Samples
  /\ \A c \in Connections :
       Policy(c) \in {"answered_technician", "configured_destination", "answered_or_destination"}

VARIABLES
  connection,  \* [enabled, status, archived]
  granting,    \* connections whose authorization is under way
  listener     \* of each connection: "none", "connecting", "listening"

phoneVars == <<connection, granting, listener>>
vars == <<routingVars, deskVars, inflight, left, phoneVars>>

Connection ==
  [enabled : BOOLEAN, archived : BOOLEAN,
   status : {"Authorization required", "Authorization failed", "Connected", "Connection failed",
             "Configuration required", "Disabled", "Archived"}]

TypeOK ==
  /\ staff \in [Staff -> [active : BOOLEAN, available : BOOLEAN]]
  /\ team \in [Teams -> Team] /\ queue \in [Queues -> Queue] /\ rule \in [Rules -> Rule]
  /\ versions \subseteq Rules \X Rule /\ strayed \subseteq Rules
  /\ settings \in Settings /\ now \in Nat
  /\ sequence \in [Prefixes -> Nat] /\ turns \in [Queues \cup Teams -> Staff \cup {None}]
  /\ tickets \in Seq([prefix : Prefixes, number : Nat, source : Requests \cup Calls \cup {None},
                      status : Status, team : Teams, assignee : Staff \cup {None},
                      pausedAt : Nat \cup {None}, due : Nat])
  /\ Len(waits) = Len(tickets) /\ off \subseteq DOMAIN tickets
  /\ connection \in [Connections -> Connection] /\ granting \subseteq Connections
  /\ listener \in [Connections -> {"none", "connecting", "listening"}]

Init ==
  /\ DeskInit
  /\ connection = [c \in Connections |-> [enabled |-> TRUE, archived |-> FALSE, status |-> "Connected"]]
  /\ granting = {}
  /\ listener = [c \in Connections |-> "none"]

-----------------------------------------------------------------------------
(* Administration of the connections.                                      *)

Edits(c, new) ==
  /\ Take("connection")
  /\ connection' = [connection EXCEPT ![c] = new]
  /\ UNCHANGED <<routingVars, deskVars, inflight, listener>>

\* start_guided_integration: a link that is good for ten minutes.
StartAuthorization(c) ==
  /\ ~connection[c].archived
  /\ Edits(c, [connection[c] EXCEPT !.status = "Authorization required"])
  /\ granting' = granting \cup {c}

\* guided_integration_callback: that the connection was archived meanwhile is not looked at.
\* The link stays good.
AuthorizationReturns(c) ==
  /\ c \in granting
  /\ \/ Edits(c, [connection[c] EXCEPT !.enabled = TRUE, !.status = "Connected"])
     \/ Edits(c, [connection[c] EXCEPT !.status = "Authorization failed"])
  /\ UNCHANGED granting

AuthorizationExpires(c) ==
  /\ c \in granting
  /\ granting' = granting \ {c}
  /\ Edits(c, connection[c])

TestConnection(c) ==
  /\ Edits(c, [connection[c] EXCEPT !.status =
                 CASE @ # "Connected" -> "Authorization required"
                   [] @ = "Connected" /\ ~connection[c].enabled -> "Disabled"
                   [] OTHER -> @])
  /\ UNCHANGED granting

\* A test of the provider that fails.
TestFails(c) ==
  /\ connection[c].enabled /\ connection[c].status = "Connected"
  /\ Edits(c, [connection[c] EXCEPT !.status = "Connection failed"])
  /\ UNCHANGED granting

UpdateConnection(c) ==
  /\ \E e \in BOOLEAN :
       Edits(c, [connection[c] EXCEPT !.enabled = e, !.status = IF e THEN "Configuration required" ELSE "Disabled"])
  /\ UNCHANGED granting

ArchiveConnection(c) ==
  /\ Edits(c, [enabled |-> FALSE, archived |-> TRUE, status |-> "Archived"])
  /\ UNCHANGED granting

-----------------------------------------------------------------------------
(* Listeners.                                                              *)

Wanted(c) == connection[c].enabled /\ connection[c].status = "Connected"
Hears(c) == \E t \in inflight : t.kind \in {"ticket", "update"} /\ t.by = c

Listener(c, from, to) ==
  /\ listener[c] = from
  /\ listener' = [listener EXCEPT ![c] = to]
  /\ UNCHANGED <<routingVars, deskVars, left, connection, granting>>

\* supervisor: a thread for every connection that is wanted and has none alive.
Supervise(c) == Wanted(c) /\ ~connection[c].archived /\ Listener(c, "none", "connecting") /\ UNCHANGED inflight

\* _listen, each time it connects.
Connect(c) == Listener(c, "connecting", IF Wanted(c) THEN "listening" ELSE "none") /\ UNCHANGED inflight

\* The socket is lost; an event that is being handled is handled first.
Disconnect(c) == ~Hears(c) /\ Listener(c, "listening", "connecting") /\ UNCHANGED inflight

\* The worker is restarted: what its listeners had in flight is rolled back.
Restart ==
  /\ Take("connection")
  /\ listener' = [c \in Connections |-> "none"]
  /\ inflight' = {t \in inflight : t.kind \notin {"ticket", "update"} \/ t.by = None}
  /\ UNCHANGED <<routingVars, deskVars, connection, granting>>

\* should_create, for a call that tech answered, or nobody known, to a destination that is
\* configured or not.
MakesTicket(c, tech, matches) ==
  \/ Policy(c) # "configured_destination" /\ tech # None
  \/ Policy(c) # "answered_technician" /\ matches

\* The ticket of the call, as far as it is committed.
Known(call) == From(call)

\* process_telephony_event for a call nobody has a ticket of: who answered works on it,
\* else whom the routing takes.
NewCall(c, call, tech) ==
  LET routed == RouteTicket(PhoneSample, Load, turns)
      u == IF tech # None THEN tech ELSE routed.assignee
  IN  /\ BeginTicket(Incident, call, IF u = None THEN "New" ELSE "Assigned", PlainTarget,
                     [routed EXCEPT !.assignee = u], c)
      /\ UNCHANGED deskVars

\* And for one that has a ticket: it goes to who answered, whatever its status was.
AnsweredCall(c, i, tech) ==
  /\ tech # None /\ tickets[i].assignee # tech
  /\ BeginUpdate(i, [tickets[i] EXCEPT !.assignee = tech, !.status = "Assigned"], FALSE, c)
  /\ UNCHANGED <<tickets, sequence, turns, settings, now, waits>>

\* Who answered it, if anybody of the desk did: a call that rings, has ended, or was
\* answered elsewhere has None.
Answering == {None} \cup {u \in Staff : staff[u].active}

Hear(c, call) ==
  /\ listener[c] = "listening" /\ ~Hears(c)
  /\ Take("event")
  /\ \E tech \in Answering, matches \in BOOLEAN :
       \/ Known(call) = {} /\ MakesTicket(c, tech, matches) /\ NewCall(c, call, tech)
       \/ \E i \in Known(call) : AnsweredCall(c, i, tech)
  /\ UNCHANGED <<routingVars, phoneVars>>

PhoneNext ==
  \/ \E c \in Connections :
       \/ StartAuthorization(c) \/ AuthorizationReturns(c) \/ AuthorizationExpires(c)
       \/ TestConnection(c) \/ TestFails(c) \/ UpdateConnection(c) \/ ArchiveConnection(c)
       \/ Supervise(c) \/ Connect(c) \/ Disconnect(c)
       \/ \E call \in Calls : Hear(c, call)
  \/ Restart

Next == (DeskNext /\ UNCHANGED phoneVars) \/ PhoneNext

Spec == Init /\ [][Next]_vars

-----------------------------------------------------------------------------
(* Properties.                                                             *)

\* Of a ticket, what identifies it.
Entry(t) == [prefix |-> t.prefix, number |-> t.number, source |-> t.source]

Register == INSTANCE TicketRegister
              WITH Sources <- Requests \cup Calls,
                   register <- [i \in DOMAIN tickets |-> Entry(tickets[i])], counter <- sequence

\* However submissions, calls and numbers race, the tickets are a register: none is ever
\* lost or renumbered, each takes the next number of its prefix, and a submission that is
\* repeated, or a call that several listeners hear, has one.
OneRegister == Register!RegisterSpec
=============================================================================
