--------------------------- MODULE MCSelfService ---------------------------
(* Small instances of SelfService for TLC.                                *)
EXTENDS SelfService
CONSTANTS h1, h2

(* A history variable: the answer on record when no handler or job that   *)
(* read the suggestion as open was still to commit.                       *)
VARIABLE answered

Settled ==
  /\ attempt.status \in Answer \cup {"timed_out"}
  /\ \A t \in Thread : handler[t].op \notin {"send", "answer"}
  /\ job.op # "timeout"

HInit == Init /\ answered = "none"

HNext ==
  /\ Next
  /\ answered' = IF answered = "none" /\ Settled' THEN attempt'.status ELSE answered

HSpec == HInit /\ [][HNext]_<<vars, answered>>
HLiveSpec == HSpec /\ WF_vars(WaitingTimePasses) /\ SF_vars(BeginTimeout) /\ SF_vars(CommitTimeout)

\* record_outcome: the first answer, or the time limit, settles a suggestion; a later
\* answer by web or e-mail changes nothing, once those that overlapped are through.
AnswerIsFinal == answered # "none" => attempt.status = answered
=============================================================================
