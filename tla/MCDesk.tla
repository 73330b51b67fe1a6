------------------------------- MODULE MCDesk -------------------------------
(***************************************************************************)
(* Two technicians of one team, one queue and one rule; two listeners of   *)
(* the same account.  The budgets are the situations that are looked at:   *)
(* rules and queues are edited, tickets are numbered, tickets wait, calls  *)
(* are heard.                                                              *)
(***************************************************************************)
EXTENDS Telephony

CONSTANTS q1, general

AtHome(u) == 1
SkillsOf(t) == {}
QueueOf(x) == [active |-> TRUE, team |-> 1, eligible |-> {}, strategy |-> "round_robin"]
RuleTo(x) == [active |-> TRUE, conditions |-> {general}, queue |-> x, team |-> None, strategy |-> None, stop |-> TRUE]
RuleOf(r) == RuleTo(q1)

\* A rule is sent to the queue, to the team, or nowhere, or is a draft.
RuleSaves == {RuleTo(q1), [RuleTo(q1) EXCEPT !.active = FALSE], [RuleTo(None) EXCEPT !.team = 1, !.strategy = "least_active"], RuleTo(None)}
QueueSaves == {QueueOf(q1), [QueueOf(q1) EXCEPT !.active = FALSE], [QueueOf(q1) EXCEPT !.strategy = "manual"]}

\* Days of three minutes: open for the first two, on one day of two; or always.
Short == [always |-> FALSE, days |-> {0}, open |-> 1, close |-> 3]
Always == [always |-> TRUE, days |-> {}, open |-> 0, close |-> 0]
Never == [always |-> FALSE, days |-> {0}, open |-> 2, close |-> 2]
Setting(c, pauses) == [cal |-> c, minutes |-> 3, pauses |-> pauses]
Start == Setting(Short, {"Waiting on User"})
Published == {Start, Setting(Always, {"Waiting on User"}), Setting(Never, {"Waiting on User"}),
              Setting(Short, {"Open", "Waiting on User"})}

PolicyOf(c) == "answered_or_destination"

Kinds == {"administration", "presence", "ticket", "work", "publish", "minute", "event", "connection", "atOnce"}
Budget(some) == [k \in Kinds |-> IF k \in DOMAIN some THEN some[k] ELSE 0]
Situations ==
  {Budget([administration |-> 3, atOnce |-> 2]),
   Budget([administration |-> 1, presence |-> 1, ticket |-> 2, atOnce |-> 2]),
   Budget([ticket |-> 3, atOnce |-> 2]),
   Budget([ticket |-> 1, work |-> 2, minute |-> 1, publish |-> 1, atOnce |-> 1]),
   Budget([ticket |-> 1, work |-> 4, minute |-> 2, atOnce |-> 1]),
   Budget([ticket |-> 1, work |-> 2, minute |-> 1, atOnce |-> 2]),
   Budget([event |-> 3, connection |-> 2, atOnce |-> 2]),
   Budget([ticket |-> 1, work |-> 1, event |-> 3, atOnce |-> 2])}
=============================================================================
