------------------------- MODULE RemediationContract -------------------------
(***************************************************************************)
(* What endpoint remediation promises, whatever happens to the messages    *)
(* and the processes that carry it out:                                    *)
(*   - an action has an effect on a computer only once it was granted by   *)
(*     the requester, or by staff where no requester approval is needed;   *)
(*   - it has that effect at most MaxAttempts times;                       *)
(*   - the ticket says it succeeded only if it had an effect.              *)
(* The verdict may otherwise change, and an action with an effect may be   *)
(* judged failed: a lost result looks like a lost action.                  *)
(***************************************************************************)
EXTENDS Naturals

CONSTANTS Action, MaxAttempts, Legacy

VARIABLES
  granted,   \* actions somebody entitled to has agreed to
  effects,   \* how often each action was carried out
  verdict    \* what the ticket says of each

contractVars == <<granted, effects, verdict>>

Verdict == {"open", "refused", "succeeded", "failed"}

ContractInit ==
  /\ granted = Legacy
  /\ effects = [a \in Action |-> 0]
  /\ verdict = [a \in Action |-> "open"]

Grant(a) ==
  /\ granted' = granted \cup {a}
  /\ verdict' = [verdict EXCEPT ![a] = "open"]
  /\ UNCHANGED effects

Perform(a) ==
  /\ a \in granted
  /\ effects[a] < MaxAttempts
  /\ effects' = [effects EXCEPT ![a] = @ + 1]
  /\ UNCHANGED <<granted, verdict>>

\* Verdicts are passed on any number of actions at once (a recovery pass).
Judge ==
  /\ verdict' \in [Action -> Verdict]
  /\ \A a \in Action :
       /\ verdict'[a] = "succeeded" => verdict[a] = "succeeded" \/ effects[a] > 0
       /\ verdict'[a] = "failed" => verdict[a] = "failed" \/ a \in granted
       /\ verdict'[a] = "open" => verdict[a] = "open"
  /\ UNCHANGED <<granted, effects>>

ContractNext == Judge \/ \E a \in Action : Grant(a) \/ Perform(a)

ContractSpec == ContractInit /\ [][ContractNext]_contractVars

=============================================================================
