---------------------------- MODULE DurableQueue ----------------------------
(***************************************************************************)
(* What the outbox of the agent promises (README.md: "durable upload       *)
(* queue"): items are numbered as they are produced and kept until they    *)
(* are received, whatever is lost on the way, repeated or restarted.  An   *)
(* item may be received again; nothing else is.                            *)
(***************************************************************************)
EXTENDS Naturals

VARIABLES
  produced,  \* how many
  queue,     \* what is kept
  received

queueVars == <<produced, queue, received>>

QueueInit == produced = 0 /\ queue = {} /\ received = {}

Produce ==
  /\ produced' = produced + 1
  /\ queue' = queue \cup {produced'}
  /\ UNCHANGED received

Receive(i) ==
  /\ received' = received \cup {i}
  /\ UNCHANGED <<produced, queue>>

Acknowledge(i) ==
  /\ i \in received
  /\ queue' = queue \ {i}
  /\ UNCHANGED <<produced, received>>

QueueNext == Produce \/ \E i \in queue : Receive(i) \/ Acknowledge(i)

QueueSpec == QueueInit /\ [][QueueNext]_queueVars

=============================================================================
