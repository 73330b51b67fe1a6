----------------------------- MODULE Remediation -----------------------------
(***************************************************************************)
(* Endpoint remediation end to end: the server of EndpointActions together *)
(* with the endpoint agents that carry the actions out                     *)
(* (endpoint_agent/asset_agent/agent.py) and the HTTP between them.        *)
(*                                                                         *)
(* An agent has one action worker at a time.  It polls; a delivered action *)
(* runs in a child process that is killed after 90 seconds; then it posts  *)
(* the result once.  The reply to a poll or the posted result can be lost, *)
(* and the agent can crash at any point, leaving its child running.        *)
(***************************************************************************)
EXTENDS EndpointActions

CONSTANTS
  HttpLimit,   \* InventoryTransport timeout (30 s), in clock ticks
  ChildLimit   \* process.wait(timeout=90), in clock ticks

ASSUME TimersAssumption ==
  /\ HttpLimit \in Nat
  /\ ChildLimit \in Nat
  /\ HttpLimit + ChildLimit <= NoResponseAge

VARIABLES
  pc,        \* where each agent's action worker is
  job,       \* the action it holds
  elapsed,   \* ticks spent in the current wait
  outcome,   \* what the child reported
  posts,     \* results on their way to the server
  orphans,   \* children of each action that outlived a crashed agent
  effects    \* how often each action was carried out on the computer

agentVars == <<pc, job, elapsed, outcome, posts, orphans, effects>>
vars == <<serverVars, agentVars>>

NoJob == "noJob"
WorkerPc == {"idle", "awaiting", "running", "effected", "reporting"}

AgentTypeOK ==
  /\ pc \in [Agent -> WorkerPc]
  /\ job \in [Agent -> Action \cup {NoJob}]
  /\ \A g \in Agent : pc[g] # "idle" => job[g] \in Action /\ AgentOf[job[g]] = g
  /\ elapsed \in [Agent -> 0 .. HttpLimit + ChildLimit]
  /\ outcome \in [Agent -> ResultOp]
  /\ posts \subseteq (Action \X ResultOp)
  /\ orphans \in [Action -> Nat]
  /\ effects \in [Action -> Nat]

TypeOK == ServerTypeOK /\ AgentTypeOK

AgentInit ==
  /\ pc = [g \in Agent |-> "idle"]
  /\ job = [g \in Agent |-> NoJob]
  /\ elapsed = [g \in Agent |-> 0]
  /\ outcome = [g \in Agent |-> "failed"]
  /\ posts = {}
  /\ orphans = [a \in Action |-> 0]
  /\ effects = [a \in Action |-> 0]

Init == ServerInit /\ AgentInit

-----------------------------------------------------------------------------
(* _service_action_worker: while a worker is alive nothing is polled.      *)

PollNothing(g) ==
  /\ pc[g] = "idle"
  /\ DeliverNothing(g)
  /\ UNCHANGED agentVars

PollDelivered(g) ==
  /\ pc[g] = "idle"
  /\ \E a \in RowsOfAgent(g) :
       /\ Deliver(g, a)
       /\ job' = [job EXCEPT ![g] = a]
  /\ pc' = [pc EXCEPT ![g] = "awaiting"]
  /\ elapsed' = [elapsed EXCEPT ![g] = 0]
  /\ UNCHANGED <<outcome, posts, orphans, effects>>

Finish(g) ==
  /\ pc' = [pc EXCEPT ![g] = "idle"]
  /\ job' = [job EXCEPT ![g] = NoJob]
  /\ elapsed' = [elapsed EXCEPT ![g] = 0]
  /\ outcome' = [outcome EXCEPT ![g] = "failed"]

\* The request timed out or its reply was lost: the attempt is spent.
ReplyLost(g) ==
  /\ pc[g] = "awaiting"
  /\ Finish(g)
  /\ UNCHANGED <<serverVars, posts, orphans, effects>>

\* perform_approved_action starts the child.
StartChild(g) ==
  /\ pc[g] = "awaiting"
  /\ pc' = [pc EXCEPT ![g] = "running"]
  /\ elapsed' = [elapsed EXCEPT ![g] = 0]
  /\ UNCHANGED <<serverVars, job, outcome, posts, orphans, effects>>

\* execute_approved_action in the child: the process is closed or the service
\* restarted, and the result file written.
ChildEffect(g) ==
  /\ pc[g] = "running"
  /\ pc' = [pc EXCEPT ![g] = "effected"]
  /\ effects' = [effects EXCEPT ![job[g]] = @ + 1]
  /\ UNCHANGED <<serverVars, job, elapsed, outcome, posts, orphans>>

ToReport(g, result) ==
  /\ pc' = [pc EXCEPT ![g] = "reporting"]
  /\ outcome' = [outcome EXCEPT ![g] = result]
  /\ elapsed' = [elapsed EXCEPT ![g] = 0]
  /\ UNCHANGED <<serverVars, job, posts, orphans, effects>>

\* Exit code 0 and a result file.
ChildSucceeded(g) ==
  /\ pc[g] = "effected"
  /\ ToReport(g, "succeeded")

\* The child could not be started or do its work, died or was killed after 90
\* seconds: a failure, even if the effect was already there.
ChildFailed(g) ==
  /\ pc[g] \in {"awaiting", "running", "effected"}
  /\ ToReport(g, "failed")

\* transport.action_result is called once; a failure is only logged.
PostResult(g) ==
  /\ pc[g] = "reporting"
  /\ posts' = posts \cup {<<job[g], outcome[g]>>}
  /\ Finish(g)
  /\ UNCHANGED <<serverVars, orphans, effects>>

\* The service stops or is restarted by the watchdog; nothing kills the child.
Crash(g) ==
  /\ pc[g] # "idle"
  /\ orphans' = IF pc[g] = "running" THEN [orphans EXCEPT ![job[g]] = @ + 1] ELSE orphans
  /\ Finish(g)
  /\ UNCHANGED <<serverVars, posts, effects>>

OrphanEffect(a) ==
  /\ orphans[a] > 0
  /\ orphans' = [orphans EXCEPT ![a] = @ - 1]
  /\ effects' = [effects EXCEPT ![a] = @ + 1]
  /\ UNCHANGED <<serverVars, pc, job, elapsed, outcome, posts>>

OrphanDies(a) ==
  /\ orphans[a] > 0
  /\ orphans' = [orphans EXCEPT ![a] = @ - 1]
  /\ UNCHANGED <<serverVars, pc, job, elapsed, outcome, posts, effects>>

-----------------------------------------------------------------------------
(* The result on its way: it is lost, answered without effect, or handled. *)

LosePost ==
  /\ \E m \in posts : posts' = posts \ {m}
  /\ UNCHANGED <<serverVars, pc, job, elapsed, outcome, orphans, effects>>

ReceivePost(h) ==
  /\ \E m \in posts : BeginResult(h, m[1], m[2]) /\ posts' = posts \ {m}
  /\ UNCHANGED <<pc, job, elapsed, outcome, orphans, effects>>

\* No wait outlasts its limit: at the limit ReplyLost or ChildFailed is next.
TimeLeft(g) ==
  CASE pc[g] = "awaiting" -> elapsed[g] < HttpLimit
    [] pc[g] \in {"running", "effected"} -> elapsed[g] < ChildLimit
    [] OTHER -> TRUE

TimePasses ==
  /\ Tick
  /\ \A g \in Agent : TimeLeft(g)
  /\ elapsed' = [g \in Agent |-> IF pc[g] \in {"awaiting", "running", "effected"}
                                 THEN elapsed[g] + 1 ELSE elapsed[g]]
  /\ UNCHANGED <<pc, job, outcome, posts, orphans, effects>>

AgentStep(g) ==
  \/ PollNothing(g) \/ PollDelivered(g) \/ ReplyLost(g) \/ StartChild(g)
  \/ ChildEffect(g) \/ ChildSucceeded(g) \/ ChildFailed(g) \/ PostResult(g)

Next ==
  \/ Desk /\ UNCHANGED agentVars
  \/ TimePasses
  \/ \E g \in Agent : AgentStep(g) \/ Crash(g)
  \/ \E a \in Action : OrphanEffect(a) \/ OrphanDies(a)
  \/ LosePost
  \/ \E h \in Thread : ReceivePost(h)

Spec == Init /\ [][Next]_vars

(* Time passes, agents that are not revoked keep polling (the action loop  *)
(* of Scheduler survives every error) and work on what they hold, and      *)
(* database transactions end.  People, crashes and losses are not fair.    *)
Fairness ==
  /\ WF_vars(TimePasses)
  /\ \A g \in Agent : WF_vars(AgentStep(g))
  /\ \A h \in Thread : WF_vars(Commit(h) /\ UNCHANGED agentVars)

FairSpec == Spec /\ Fairness

-----------------------------------------------------------------------------
(* Properties *)

\* The attempts of row a that may still have an effect.
InProgress(a) ==
  orphans[a] + (IF /\ pc[AgentOf[a]] \in {"awaiting", "running"}
                   /\ job[AgentOf[a]] = a THEN 1 ELSE 0)

\* Nothing runs, ran or is on its way to a computer without an approval, even
\* after lost replies, crashes, redeliveries and overlapping decisions.
OnlyAuthorisedEffects ==
  \A a \in Action : (effects[a] > 0 \/ InProgress(a) > 0) => a \in authorised

\* However many children a crash leaves behind, an action is carried out at
\* most as often as it was handed out, and that is at most MaxAttempts times.
EffectsWithinAttempts ==
  \A a \in Action : effects[a] + InProgress(a) <= retryCount[a]

\* A ticket shows "Completed" only for an action that did have its effect.
CompletedMeansEffected ==
  \A a \in Action : status[a] = "Completed" => effects[a] > 0

\* The agent still works on row a.
WorkedOn(a) ==
  /\ pc[AgentOf[a]] \in {"awaiting", "running", "effected"}
  /\ job[AgentOf[a]] = a

\* Nobody works on a row whose failure is being put down to reason r.
GivenUpRightly(r) ==
  \A a \in Action : (summary'[a] = r /\ summary[a] # r) => ~ WorkedOn(a)

\* "Agent did not respond" is said only of an agent that no longer works on the
\* action: 180 seconds outlast the reply and the child's 90 seconds together.
NoResponseMeansNotWorking == [][GivenUpRightly("noResponse")]_vars

\* An approved action does not hang: it is settled, or its agent is revoked.
ApprovedIsSettled ==
  \A a \in Action :
    status[a] = "Approved" ~>
      (status[a] \in {"Completed", "Failed", "Declined"} \/ AgentOf[a] \in revoked)

(* The inductive invariant: what each of the above rests on.  Every part is *)
(* preserved by every step, given TypeOK.                                   *)

\* Consent is in the row before anything can act on it: a row that is or was
\* deliverable, a result being recorded, a worker's job and every trace of an
\* effect belong to authorised actions.
Consent ==
  /\ \A a \in Action :
       status[a] \in {"Approved", "Dispatched", "Completed", "Failed"} => a \in authorised
  /\ \A h \in Thread : (tx[h] # Idle /\ tx[h].op \in ResultOp) => tx[h].a \in authorised
  /\ \A g \in Agent : pc[g] # "idle" => job[g] \in authorised
  /\ \A a \in Action : (effects[a] > 0 \/ orphans[a] > 0) => a \in authorised

\* A success is claimed only after the effect, wherever the claim has got to:
\* the child, the worker, the network, a handler, the row.
Evidence ==
  /\ \A g \in Agent :
       (pc[g] = "effected" \/ (pc[g] = "reporting" /\ outcome[g] = "succeeded"))
         => effects[job[g]] > 0
  /\ \A m \in posts : m[2] = "succeeded" => effects[m[1]] > 0
  /\ \A h \in Thread : (tx[h] # Idle /\ tx[h].op = "succeeded") => effects[tx[h].a] > 0
  /\ \A a \in Action : status[a] = "Completed" => effects[a] > 0

\* A worker's waits bound the age of its row: no row that is being worked on
\* is older than the reply and the child together can take.
Freshness ==
  \A g \in Agent :
    /\ pc[g] = "awaiting" =>
         elapsed[g] <= HttpLimit /\ age[job[g]] <= elapsed[g]
    /\ pc[g] \in {"running", "effected"} =>
         elapsed[g] <= ChildLimit /\ age[job[g]] <= HttpLimit + elapsed[g]

\* A row is created by one handler at a time, and exists for nobody else
\* until that handler commits.
CreationExclusive ==
  \A h \in Thread :
    (tx[h] # Idle /\ tx[h].op \in CreateOp) =>
      /\ status[tx[h].a] = "none"
      /\ \A k \in Thread : (tx[k] # Idle /\ tx[k].a = tx[h].a) => k = h

IInv == TypeOK /\ Consent /\ EffectsWithinAttempts /\ Evidence /\ Freshness /\ CreationExclusive

(* Refinement *)
VerdictOf(a) ==
  CASE status[a] = "Completed" -> "succeeded"
    [] status[a] = "Failed" -> "failed"
    [] status[a] = "Declined" -> "refused"
    [] OTHER -> "open"

Contract == INSTANCE RemediationContract
              WITH granted <- authorised, verdict <- [a \in Action |-> VerdictOf(a)]

ContractRefined == Contract!ContractSpec

=============================================================================
