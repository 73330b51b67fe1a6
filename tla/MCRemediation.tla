---------------------------- MODULE MCRemediation ----------------------------
(* Small instances of Remediation for TLC.                                  *)
EXTENDS Remediation, TLC

CONSTANTS a1, a2, t1, g1, x1, x2, h1, h2

\* Two actions on one requester's computer, aimed at different programs ...
MCTicketOf == [a \in Action |-> t1]
MCAgentOf == [a \in Action |-> g1]
MCTwoTargets == [a \in Action |-> IF a = a1 THEN x1 ELSE x2]
\* ... or at the same one: a retry of what was already requested.
MCOneTarget == [a \in Action |-> x1]

Symmetry == Permutations(Thread)

(* A history variable: what each row was settled as, by the time no handler *)
(* that read it earlier was still to write it.                              *)
VARIABLE settledAs

Settled(a) == status[a] \in {"Declined", "Completed", "Failed"} /\ ~ InHand(a)

HInit == Init /\ settledAs = [a \in Action |-> "open"]

HNext ==
  /\ Next
  /\ settledAs' = [a \in Action |-> IF settledAs[a] = "open" /\ Settled(a)' THEN status'[a]
                                    ELSE settledAs[a]]

HSpec == HInit /\ [][HNext]_<<vars, settledAs>>
HFairSpec == HSpec /\ Fairness

\* A declined action never becomes deliverable, and a recorded result is the row's
\* last word (later ones are answered already_recorded), once the handlers that
\* overlapped the decision are through.
SettledIsFinal == \A a \in Action : settledAs[a] # "open" => status[a] = settledAs[a]
=============================================================================
