----------------------------- MODULE MCLiveChat -----------------------------
(* Small instances of LiveChat for TLC.                                    *)
EXTENDS LiveChat, TLC

CONSTANTS c1, c2, tech1, tech2, requester, m1, m2, h1, h2

MCAuthorOf == [m \in Message |-> IF m = m1 THEN requester ELSE tech1]

Symmetry == Permutations(Thread) \cup Permutations(Session)

(* A history variable: the transcript of each session that is closed and   *)
(* that no handler which read it open is still to write.                   *)
VARIABLE final

Open == <<"open">>
Ended(s) ==
  /\ chat[s].status = "closed"
  /\ \A t \in Thread : handler[t].op \in {"accept", "send", "close"} => handler[t].session # s

HInit == Init /\ final = [s \in Session |-> Open]

HNext ==
  /\ Next
  /\ final' = [s \in Session |-> IF final[s] = Open /\ Ended(s)' THEN transcript'[s] ELSE final[s]]

HSpec == HInit /\ [][HNext]_<<vars, final>>

\* A closed chat is not opened again and gets no more messages, once the handlers
\* that overlapped the closing are through, whatever happens to its ticket.
EndedChatIsFinal ==
  \A s \in Session : final[s] # Open => chat[s].status = "closed" /\ transcript[s] = final[s]
=============================================================================
